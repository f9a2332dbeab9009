---------------------------- MODULE SearchProofs ----------------------------
(***************************************************************************)
(* What string_match, file_search, file_del and the cleaning do, for any   *)
(* names, masks and trees.                                                 *)
(***************************************************************************)
EXTENDS Search, SequenceTheorems, FiniteSetTheorems, WellFoundedInduction, TLAPS

-----------------------------------------------------------------------------
(* The least number of a set, and what is chosen as the least.             *)

LEMMA Least ==
  ASSUME NEW S \in SUBSET Nat, S # {}
  PROVE  \E x \in S : \A y \in S : x <= y
<1> DEFINE F == {0..k : k \in S}
           Less == StrictSubsetOrdering(Nat)
<1>1. IsWellFoundedOn(Less, FiniteSubsetsOf(Nat))
  BY FS_StrictSubsetOrderingWellFounded
<1>2. F \subseteq FiniteSubsetsOf(Nat) /\ F # {}
  <2>1. \A k \in S : k \in Nat /\ IsFiniteSet(0..k) /\ 0..k \in SUBSET Nat
    BY FS_Interval
  <2> QED
    BY <2>1 DEF FiniteSubsetsOf
<1> HIDE DEF F, Less
<1>3. PICK T \in F : \A U \in F : <<U, T>> \notin Less
  BY <1>1, <1>2, WFMin
<1>4. PICK x \in S : T = 0..x
  BY DEF F
<1>5. \A y \in S : ~(y < x)
  <2> SUFFICES ASSUME NEW y \in S, y < x PROVE FALSE
    OBVIOUS
  <2>1. 0..y \in F
    BY DEF F
  <2>2. 0..y \subseteq 0..x /\ 0..y # 0..x /\ 0..y \in SUBSET Nat /\ 0..x \in SUBSET Nat
    BY x \in Nat, y \in Nat
  <2> QED
    BY <1>3, <1>4, <2>1, <2>2 DEF Less, StrictSubsetOrdering
<1> QED
  BY <1>5

LEMMA TokenEnds ==
  ASSUME NEW m \in Word, NEW j \in 1..Len(m) + 1
  PROVE  /\ TokenEnd(m, j) \in j..Len(m) + 1
         /\ TokenEnd(m, j) <= Len(m) => m[TokenEnd(m, j)] \in Wild
         /\ \A k \in j..TokenEnd(m, j) - 1 : m[k] \notin Wild
<1> DEFINE S == {i \in j..Len(m) + 1 : i <= Len(m) => m[i] \in Wild}
<1>1. Len(m) \in Nat
  BY LenProperties DEF Word
<1>2. Len(m) + 1 \in S /\ S \in SUBSET Nat
  BY <1>1
<1>3. PICK x \in S : \A y \in S : x <= y
  BY <1>2, Least
<1>4. \A k \in j..x - 1 : m[k] \notin Wild
  <2> SUFFICES ASSUME NEW k \in j..x - 1, m[k] \in Wild PROVE FALSE
    OBVIOUS
  <2>1. k \in S
    BY <1>1, <1>2, <1>3
  <2> QED
    BY <1>1, <1>2, <1>3, <2>1
<1> QED
  BY <1>3, <1>4 DEF TokenEnd

LEMMA Places ==
  ASSUME NEW s \in Word, NEW i \in 1..Len(s) + 1, NEW m, NEW j, NEW e, Found(s, i, m, j, e)
  PROVE  /\ Place(s, i, m, j, e) \in i..Len(s)
         /\ Occurs(s, Place(s, i, m, j, e), m, j, e)
         /\ \A k \in i..Place(s, i, m, j, e) - 1 : ~Occurs(s, k, m, j, e)
<1> DEFINE S == {h \in i..Len(s) : Occurs(s, h, m, j, e)}
<1>1. Len(s) \in Nat
  BY LenProperties DEF Word
<1>2. S # {} /\ S \in SUBSET Nat
  BY <1>1 DEF Found
<1>3. PICK x \in S : \A y \in S : x <= y
  BY <1>2, Least
<1>4. \A k \in i..x - 1 : ~Occurs(s, k, m, j, e)
  BY <1>1, <1>2, <1>3
<1> QED
  BY <1>3, <1>4 DEF Place

\* A token that a track of m spells out occurs where the track has it.
LEMMA Spelled ==
  ASSUME NEW s \in Word, NEW m \in Word, NEW t \in Track(s, Len(m) + 1), Fits(s, m, t, Len(m)),
         NEW j \in 1..Len(m), NEW e \in j..Len(m) + 1,
         \A k \in j..e - 1 : m[k] \notin Wild
  PROVE  /\ t[e] = t[j] + (e - j)
         /\ Occurs(s, t[j], m, j, e)
<1>1. Len(s) \in Nat /\ Len(m) \in Nat
  BY LenProperties DEF Word
<1>2. \A k \in 1..Len(m) + 1 : t[k] \in 1..Len(s) + 1
  BY DEF Track
<1>3. \A k \in j..e - 1 : t[k] <= Len(s) /\ m[k] = s[t[k]] /\ t[k + 1] = t[k] + 1
  BY <1>1 DEF Fits, Wild
<1>4. \A k \in j..e : t[k] = t[j] + (k - j)
  <2> DEFINE S == {k \in j..e : t[k] # t[j] + (k - j)}
  <2> SUFFICES ASSUME S # {} PROVE FALSE
    OBVIOUS
  <2>1. S \in SUBSET Nat
    BY <1>1
  <2>2. PICK x \in S : \A y \in S : x <= y
    BY <2>1, Least
  <2>3. x # j
    BY <1>1, <1>2
  <2>4. x - 1 \in j..e - 1 /\ x - 1 \notin S
    BY <1>1, <2>2, <2>3
  <2>5. x \in Int /\ j \in Int /\ t[j] \in Int /\ x - 1 + 1 = x
    BY <1>1, <1>2, <2>2
  <2>6. t[x] = t[x - 1] + 1
    BY <1>3, <2>4, <2>5
  <2>7. t[x - 1] = t[j] + (x - 1 - j)
    BY <1>1, <2>4
  <2>8. t[x] = t[j] + (x - j)
    <3>1. \A a, b, c \in Int : a + (b - 1 - c) + 1 = a + (b - c)
      OBVIOUS
    <3>2. t[j] + (x - 1 - j) + 1 = t[j] + (x - j)
      BY <2>5, <3>1
    <3> QED
      BY <2>6, <2>7, <3>2, Zenon
  <2> QED
    BY <2>2, <2>8
<1>5. t[e] = t[j] + (e - j)
  BY <1>1, <1>4
<1>6. \A k \in j..e - 1 : s[t[j] + k - j] = m[k]
  <2> SUFFICES ASSUME NEW k \in j..e - 1 PROVE s[t[j] + k - j] = m[k]
    OBVIOUS
  <2>1. t[k] = t[j] + k - j
    BY <1>1, <1>2, <1>4
  <2> QED
    BY <1>3, <2>1
<1>7. t[j] + e - j <= Len(s) + 1
  BY <1>1, <1>2, <1>5
<1> QED
  BY <1>5, <1>6, <1>7 DEF Occurs

-----------------------------------------------------------------------------
(* Paths.                                                                  *)

LEMMA Paths ==
  ASSUME NEW p \in Path, p # <<>>
  PROVE  /\ Len(p) \in Nat /\ Len(p) >= 1
         /\ Parent(p) \in Path /\ Len(Parent(p)) = Len(p) - 1
         /\ \A i \in 1..Len(p) - 1 : Parent(p)[i] = p[i]
         /\ Last(p) \in Word
         /\ p = Append(Parent(p), Last(p))
<1>1. p \in Seq(Word) /\ Len(p) \in Nat /\ Len(p) >= 1
  BY EmptySeq DEF Path
<1>2. /\ Front(p) \in Seq(Word) /\ Len(Front(p)) = Len(p) - 1
      /\ \A i \in 1..Len(p) - 1 : Front(p)[i] = p[i]
  <2> DEFINE n == Len(p) - 1
  <2>1. n \in 0..Len(p)
    BY <1>1
  <2> HIDE DEF n
  <2>2. /\ SubSeq(p, 1, n) \in Seq(Word) /\ Len(SubSeq(p, 1, n)) = n
        /\ \A i \in 1..n : SubSeq(p, 1, n)[i] = p[i]
    BY <1>1, <2>1
  <2> QED
    BY <2>2 DEF Front, n
<1>3. Last(p) \in Word
  BY <1>1 DEF Last
<1>4. p = Append(Front(p), Last(p))
  <2>1. Append(Front(p), Last(p)) \in Seq(Word) /\ Len(Append(Front(p), Last(p))) = Len(p)
    BY <1>1, <1>2, <1>3
  <2>2. \A i \in 1..Len(p) : Append(Front(p), Last(p))[i] = p[i]
    BY <1>1, <1>2, <1>3 DEF Last
  <2> QED
    BY <1>1, <2>1, <2>2, SeqEqual
<1> QED
  BY <1>1, <1>2, <1>3, <1>4 DEF Path, Parent

LEMMA PrefixIs ==
  ASSUME NEW p \in Path, NEW k \in 0..Len(p)
  PROVE  /\ SubSeq(p, 1, k) \in Path /\ Len(SubSeq(p, 1, k)) = k
         /\ \A i \in 1..k : SubSeq(p, 1, k)[i] = p[i]
         /\ \A j \in 0..k : SubSeq(SubSeq(p, 1, k), 1, j) = SubSeq(p, 1, j)
<1>1. p \in Seq(Word) /\ Len(p) \in Nat
  BY DEF Path
<1>2. \A n \in 0..Len(p) :
        /\ SubSeq(p, 1, n) \in Seq(Word) /\ Len(SubSeq(p, 1, n)) = n
        /\ \A i \in 1..n : SubSeq(p, 1, n)[i] = p[i]
  BY <1>1
<1>3. ASSUME NEW j \in 0..k PROVE SubSeq(SubSeq(p, 1, k), 1, j) = SubSeq(p, 1, j)
  <2> DEFINE q == SubSeq(p, 1, k)
  <2>1. q \in Seq(Word) /\ Len(q) = k /\ \A i \in 1..k : q[i] = p[i]
    BY <1>2
  <2>2. j \in 0..Len(p) /\ j \in Nat
    BY <1>1
  <2> HIDE DEF q
  <2>3. SubSeq(q, 1, j) \in Seq(Word) /\ Len(SubSeq(q, 1, j)) = j
        /\ \A i \in 1..j : SubSeq(q, 1, j)[i] = q[i]
    BY <2>1
  <2>4. \A i \in 1..j : SubSeq(q, 1, j)[i] = SubSeq(p, 1, j)[i]
    BY <1>2, <2>1, <2>2, <2>3
  <2>5. SubSeq(q, 1, j) = SubSeq(p, 1, j)
    BY <1>2, <2>2, <2>3, <2>4, SeqEqual
  <2> QED
    BY <2>5 DEF q
<1> QED
  BY <1>2, <1>3 DEF Path

LEMMA AboveIs ==
  ASSUME NEW p \in Path, NEW q
  PROVE  q \in Above(p) <=> q \in Path /\ Len(q) \in 1..Len(p) - 1 /\ q = SubSeq(p, 1, Len(q))
<1>1. Len(p) \in Nat
  BY DEF Path
<1>2. ASSUME q \in Above(p)
      PROVE  q \in Path /\ Len(q) \in 1..Len(p) - 1 /\ q = SubSeq(p, 1, Len(q))
  <2>1. PICK k \in 1..Len(p) - 1 : q = SubSeq(p, 1, k)
    BY <1>2 DEF Above
  <2>2. k \in 0..Len(p)
    BY <1>1
  <2> QED
    BY <2>1, <2>2, PrefixIs
<1> QED
  BY <1>2 DEF Above

LEMMA PathEqual ==
  ASSUME NEW p \in Path, NEW q \in Path, Len(p) = Len(q), \A i \in 1..Len(p) : p[i] = q[i]
  PROVE  p = q
BY SeqEqual DEF Path

LEMMA WholePrefix ==
  ASSUME NEW p \in Path
  PROVE  SubSeq(p, 1, Len(p)) = p
<1>1. Len(p) \in 0..Len(p) /\ Len(p) \in Nat
  BY DEF Path
<1> QED
  BY <1>1, PrefixIs, PathEqual

LEMMA ParentPrefix ==
  ASSUME NEW p \in Path, p # <<>>
  PROVE  Parent(p) = SubSeq(p, 1, Len(p) - 1)
BY DEF Parent, Front

LEMMA AboveParent ==
  ASSUME NEW p \in Path, p # <<>>
  PROVE  /\ Len(p) = 1 <=> Parent(p) = <<>>
         /\ Parent(p) = <<>> => Above(p) = {}
         /\ Parent(p) # <<>> => Above(p) = Above(Parent(p)) \cup {Parent(p)}
<1> DEFINE r == Parent(p)
<1>1. Len(p) \in Nat /\ Len(p) >= 1 /\ r \in Path /\ Len(r) = Len(p) - 1 /\ r = SubSeq(p, 1, Len(p) - 1)
  BY Paths, ParentPrefix
<1> HIDE DEF r
<1>2. Len(p) = 1 <=> r = <<>>
  <2>1. r \in Seq(Word)
    BY <1>1 DEF Path
  <2>2. Len(r) = 0 <=> r = <<>>
    BY <2>1, EmptySeq
  <2> QED
    BY <1>1, <2>2
<1>3. ASSUME r = <<>> PROVE Above(p) = {}
  <2>1. Len(p) = 1
    BY <1>2, <1>3
  <2>2. 1..Len(p) - 1 = {}
    BY <2>1
  <2> QED
    BY <2>2 DEF Above
<1>4. ASSUME r # <<>>, NEW q \in Above(p) PROVE q \in Above(r) \cup {r}
  <2>1. q \in Path /\ Len(q) \in 1..Len(p) - 1 /\ q = SubSeq(p, 1, Len(q))
    BY <1>4, AboveIs
  <2>2. CASE Len(q) = Len(p) - 1
    BY <1>1, <2>1, <2>2
  <2>3. CASE Len(q) # Len(p) - 1
    <3>1. Len(q) \in 0..Len(p) - 1 /\ Len(p) - 1 \in 0..Len(p) /\ Len(q) \in 1..Len(r) - 1
      BY <1>1, <2>1, <2>3
    <3>2. SubSeq(r, 1, Len(q)) = q
      BY <1>1, <2>1, <3>1, PrefixIs
    <3> QED
      BY <1>1, <2>1, <3>1, <3>2, AboveIs
  <2> QED
    BY <2>2, <2>3
<1>5. ASSUME r # <<>>, NEW q \in Above(r) \cup {r} PROVE q \in Above(p)
  <2>1. CASE q = r
    <3>1. Len(q) \in 1..Len(p) - 1
      BY <1>1, <1>2, <1>5, <2>1
    <3> QED
      BY <1>1, <2>1, <3>1, AboveIs
  <2>2. CASE q \in Above(r)
    <3>1. q \in Path /\ Len(q) \in 1..Len(r) - 1 /\ q = SubSeq(r, 1, Len(q))
      BY <1>1, <2>2, AboveIs
    <3>2. Len(q) \in 0..Len(p) - 1 /\ Len(p) - 1 \in 0..Len(p) /\ Len(q) \in 1..Len(p) - 1
      BY <1>1, <3>1
    <3>3. q = SubSeq(p, 1, Len(q))
      BY <1>1, <3>1, <3>2, PrefixIs
    <3> QED
      BY <3>1, <3>2, <3>3, AboveIs
  <2> QED
    BY <1>5, <2>1, <2>2
<1> QED
  BY <1>2, <1>3, <1>4, <1>5 DEF r

\* The entry of a directory through which a path goes on.
LEMMA Toward ==
  ASSUME NEW p \in Path, NEW q \in Path, (q = <<>> /\ p # <<>>) \/ q \in Above(p)
  PROVE  \E c \in Path \ {<<>>} : Parent(c) = q /\ (c = p \/ c \in Above(p))
<1> DEFINE n == Len(q) + 1
           c == SubSeq(p, 1, n)
<1>1. Len(p) \in Nat /\ Len(q) \in Nat /\ n \in 1..Len(p) /\ q = SubSeq(p, 1, Len(q))
  <2>1. CASE q = <<>> /\ p # <<>>
    <3>1. Len(p) \in Nat /\ Len(p) >= 1 /\ Len(q) = 0
      BY <2>1, Paths
    <3>2. SubSeq(p, 1, 0) \in Path /\ Len(SubSeq(p, 1, 0)) = 0
      BY <3>1, PrefixIs
    <3> QED
      BY <2>1, <3>1, <3>2, EmptySeq DEF Path
  <2>2. CASE q \in Above(p)
    <3>1. Len(p) \in Nat /\ Len(q) \in 1..Len(p) - 1 /\ q = SubSeq(p, 1, Len(q))
      BY <2>2, AboveIs DEF Path
    <3> QED
      BY <3>1
  <2> QED
    BY <2>1, <2>2
<1> HIDE DEF n
<1>2. n \in 0..Len(p) /\ Len(q) \in 0..n /\ n = Len(q) + 1
  BY <1>1 DEF n
<1>3. c \in Path /\ Len(c) = n /\ SubSeq(c, 1, Len(q)) = q
  BY <1>1, <1>2, PrefixIs
<1>4. c # <<>>
  BY <1>1, <1>2, <1>3
<1>5. Parent(c) = q
  <2>1. Len(c) - 1 = Len(q)
    BY <1>1, <1>2, <1>3
  <2>2. Parent(c) = SubSeq(c, 1, Len(c) - 1)
    BY <1>3, <1>4, ParentPrefix
  <2> QED
    BY <1>3, <2>1, <2>2
<1>6. CASE n = Len(p)
  BY <1>3, <1>4, <1>5, <1>6, WholePrefix
<1>7. CASE n # Len(p)
  <2>1. n \in 1..Len(p) - 1
    BY <1>1, <1>7
  <2>2. c \in Above(p)
    BY <2>1 DEF Above
  <2> QED
    BY <1>3, <1>4, <1>5, <2>2
<1> QED
  BY <1>6, <1>7

LEMMA AboveAbove ==
  ASSUME NEW p \in Path, NEW q \in Above(p), NEW r \in Above(q)
  PROVE  r \in Above(p)
<1>1. q \in Path /\ Len(q) \in 1..Len(p) - 1 /\ q = SubSeq(p, 1, Len(q)) /\ Len(p) \in Nat
  BY AboveIs DEF Path
<1>2. r \in Path /\ Len(r) \in 1..Len(q) - 1 /\ r = SubSeq(q, 1, Len(r))
  BY <1>1, AboveIs
<1>3. Len(q) \in 0..Len(p) /\ Len(r) \in 0..Len(q) /\ Len(r) \in 1..Len(p) - 1
  BY <1>1, <1>2
<1>4. r = SubSeq(p, 1, Len(r))
  BY <1>1, <1>2, <1>3, PrefixIs
<1> QED
  BY <1>2, <1>3, <1>4, AboveIs

-----------------------------------------------------------------------------
(* The inductive invariant, in parts.                                      *)

Flags ==
  /\ op \in {"string_match", "file_search", "file_del"}
  /\ pc \in {"call", "find", "match", "error", "clean", "done"}
  /\ recursive \in BOOLEAN /\ drive \in BOOLEAN
  /\ op = "string_match" => pc \in {"call", "match", "done"}
  /\ op = "file_search" => pc # "clean"
  /\ op = "file_del" => pc # "match"
  /\ mask \in Word

\* The directory, as it was searched and as it is while it is cleaned.
IsTree(t) == \A p \in t : IsPlace(p) /\ Above(p) \subseteq t
Contents ==
  /\ IsTree(before) /\ IsTree(tree)
  /\ pc # "clean" /\ ~(op = "file_del" /\ pc = "done") => tree = before /\ added = {}
  /\ \A p \in locked : ~IsDir(p)
  /\ \A p \in added : IsPlace(p) /\ ~IsDir(p)

\* The directories the search enters, and those of them that it reaches.
Dirs ==
  {<<>>} \cup {p \in before :
                (op = "file_search" => recursive) /\ IsDir(p) /\ ~InDotted(p)}
Reached == Entered(op = "file_search" => recursive)

\* The calls: one in another, from the directory that is searched on.
Frame == [dir : Path, left : SUBSET Path]
Nested(s) ==
  /\ s \in Seq(Frame)
  /\ \A i \in 1..Len(s) :
       /\ Len(s[i].dir) = i - 1
       /\ s[i].dir \in Dirs /\ s[i].dir \notin unreadable
       /\ s[i].left \subseteq Children(before, s[i].dir)
       /\ \A j \in 1..i : SubSeq(s[i].dir, 1, j - 1) = s[j].dir
       /\ i > 1 => s[i].dir \notin s[i - 1].left
Frames ==
  /\ Nested(stack)
  /\ recurse_level = Len(stack) /\ Len(stack) <= MaxLevel + 1
  /\ pc \in {"call", "clean", "done"} \/ op = "string_match" => stack = <<>>
  /\ pc \in {"find", "match"} /\ op # "string_match" => stack # <<>>

\* What is still to be found, and where the search is.
Under(q, p)   == p = q \/ q \in Above(p)
Awaits(s, p)  == \E i \in 1..Len(s) : \E q \in s[i].left : Under(q, p)
Pending(p)    == Awaits(stack, p) \/ Lost(p)
Open(p)       == \E i \in 1..Len(stack) : stack[i].dir = p

\* What FindNextFile did not give is not found any more, nor is it open.
Apart ==
  /\ pc = "call" => missed = {}
  /\ \A p \in before : Lost(p) => ~Awaits(stack, p) /\ ~Open(p)

-----------------------------------------------------------------------------
(* The directory and the calls.                                            *)

LEMMA Dotted ==
  ASSUME NEW p \in Path, p # <<>>
  PROVE  InDotted(p) <=> IsDotted(p) \/ (Parent(p) # <<>> /\ InDotted(Parent(p)))
BY AboveParent DEF InDotted

LEMMA TreeLess ==
  ASSUME NEW t, IsTree(t), NEW p \in t, IsDir(p) => Children(t, p) = {}
  PROVE  IsTree(t \ {p})
<1> SUFFICES ASSUME NEW q \in t \ {p}, p \in Above(q) PROVE FALSE
  BY DEF IsTree
<1>1. q \in Path /\ q # <<>> /\ IsDir(p) /\ Above(q) \subseteq t /\ p \in Path
  BY DEF IsTree, IsPlace
<1>2. PICK c \in Path \ {<<>>} : Parent(c) = p /\ (c = q \/ c \in Above(q))
  BY <1>1, Toward
<1>3. c \in Children(t, p)
  BY <1>1, <1>2 DEF Children
<1> QED
  BY <1>1, <1>3

LEMMA TreeMore ==
  ASSUME NEW t, IsTree(t), NEW p, IsPlace(p), Parent(p) \in t \cup {<<>>}
  PROVE  IsTree(t \cup {p})
<1>1. Above(p) \subseteq t
  <2>1. p \in Path /\ p # <<>>
    BY DEF IsPlace
  <2>2. CASE Parent(p) = <<>>
    BY <2>1, <2>2, AboveParent
  <2>3. CASE Parent(p) # <<>>
    <3>1. Above(p) = Above(Parent(p)) \cup {Parent(p)}
      BY <2>1, <2>3, AboveParent
    <3>2. Parent(p) \in t
      BY <2>3
    <3> QED
      BY <3>1, <3>2 DEF IsTree
  <2> QED
    BY <2>2, <2>3
<1> QED
  BY <1>1 DEF IsTree

LEMMA UnderIs ==
  ASSUME NEW p \in Path, NEW q \in Path, q # <<>>
  PROVE  Under(q, p) <=> Len(q) <= Len(p) /\ SubSeq(p, 1, Len(q)) = q
<1>1. Len(p) \in Nat /\ Len(q) \in Nat /\ Len(q) >= 1
  BY Paths DEF Path
<1>2. ASSUME Under(q, p) PROVE Len(q) <= Len(p) /\ SubSeq(p, 1, Len(q)) = q
  <2>1. CASE p = q
    BY <1>1, <2>1, WholePrefix
  <2>2. CASE q \in Above(p)
    BY <1>1, <2>2, AboveIs
  <2> QED
    BY <1>2, <2>1, <2>2 DEF Under
<1>3. ASSUME Len(q) <= Len(p), SubSeq(p, 1, Len(q)) = q PROVE Under(q, p)
  <2>1. CASE Len(q) = Len(p)
    BY <1>3, <2>1, WholePrefix DEF Under
  <2>2. CASE Len(q) # Len(p)
    BY <1>1, <1>3, <2>2, AboveIs DEF Under
  <2> QED
    BY <2>1, <2>2
<1> QED
  BY <1>2, <1>3

\* Of a file only itself is under it.
LEMMA FileAlone ==
  ASSUME NEW p, IsPlace(p), NEW q, ~IsDir(q), Under(q, p)
  PROVE  p = q
BY DEF Under, IsPlace

\* What is under something else is above a place or is the place.
LEMMA UnderParent ==
  ASSUME NEW p \in Path, p # <<>>, NEW q, q # <<>>
  PROVE  q \in Above(p) <=> Parent(p) # <<>> /\ Under(q, Parent(p))
BY AboveParent DEF Under

LEMMA DottedUnder ==
  ASSUME NEW p \in Path, NEW q, Under(q, p), InDotted(q)
  PROVE  InDotted(p)
<1>1. CASE p = q
  BY <1>1
<1>2. CASE q \in Above(p)
  <2>1. Above(q) \subseteq Above(p)
    BY <1>2, AboveAbove
  <2> QED
    BY <1>2, <2>1 DEF InDotted
<1> QED
  BY <1>1, <1>2 DEF Under

-----------------------------------------------------------------------------
(* What the calls have still to find.                                      *)

Cut(s, p) == [s EXCEPT ![Len(s)].left = @ \ {p}]

LEMMA Foremost ==
  ASSUME IsTree(before), NEW s, Nested(s), s # <<>>
  PROVE  /\ Len(s) \in Nat /\ Len(s) >= 1 /\ Last(s) = s[Len(s)]
         /\ \A i \in 1..Len(s) : s[i].dir \in Path /\ s[i] = [dir |-> s[i].dir, left |-> s[i].left]
         /\ \A p \in s[Len(s)].left :
              /\ p \in before /\ p \in Path /\ p # <<>> /\ IsPlace(p)
              /\ Parent(p) = s[Len(s)].dir /\ Len(p) = Len(s)
              /\ \A j \in 1..Len(s) : SubSeq(p, 1, j - 1) = s[j].dir
<1> DEFINE n == Len(s)
<1>1. s \in Seq(Frame) /\ n \in Nat /\ n >= 1
  BY EmptySeq DEF Nested
<1>2. \A i \in 1..n : s[i] \in Frame
  BY <1>1
<1>3. \A i \in 1..n : s[i].dir \in Path /\ s[i] = [dir |-> s[i].dir, left |-> s[i].left]
  BY <1>2 DEF Frame
<1>4. ASSUME NEW p \in s[n].left
      PROVE  /\ p \in before /\ p \in Path /\ p # <<>> /\ IsPlace(p)
             /\ Parent(p) = s[n].dir /\ Len(p) = n
             /\ \A j \in 1..n : SubSeq(p, 1, j - 1) = s[j].dir
  <2>0. n \in 1..n
    BY <1>1
  <2>1. n \in 1..n /\ Len(s[n].dir) = n - 1
    BY <2>0 DEF Nested
  <2>2. p \in Children(before, s[n].dir)
    BY <1>4, <2>1 DEF Nested
  <2>3. p \in before /\ IsPlace(p) /\ Parent(p) = s[n].dir /\ p \in Path /\ p # <<>>
    BY <2>2 DEF IsTree, Children, IsPlace
  <2>4. Len(p) \in Nat /\ Len(p) = n /\ Parent(p) = SubSeq(p, 1, n - 1)
    <3>1. Len(p) \in Nat /\ Len(p) >= 1 /\ Len(Parent(p)) = Len(p) - 1
      BY <2>3, Paths
    <3>2. Len(p) = n
      BY <1>1, <2>1, <2>3, <3>1
    <3> QED
      BY <2>3, <3>1, <3>2, ParentPrefix
  <2>5. ASSUME NEW j \in 1..n PROVE SubSeq(p, 1, j - 1) = s[j].dir
    <3>1. SubSeq(s[n].dir, 1, j - 1) = s[j].dir
      BY <2>1 DEF Nested
    <3>2. n - 1 \in 0..Len(p) /\ j - 1 \in 0..n - 1
      BY <1>1, <2>4
    <3>3. SubSeq(SubSeq(p, 1, n - 1), 1, j - 1) = SubSeq(p, 1, j - 1)
      BY <2>3, <3>2, PrefixIs
    <3> QED
      BY <2>3, <2>4, <3>1, <3>3
  <2> QED
    BY <2>3, <2>4, <2>5
<1> QED
  BY <1>1, <1>3, <1>4 DEF Last

LEMMA CutIs ==
  ASSUME IsTree(before), NEW s, Nested(s), s # <<>>, NEW p \in s[Len(s)].left
  PROVE  /\ Cut(s, p) \in Seq(Frame) /\ Len(Cut(s, p)) = Len(s)
         /\ \A i \in 1..Len(s) : Cut(s, p)[i].dir = s[i].dir
         /\ \A i \in 1..Len(s) - 1 : Cut(s, p)[i].left = s[i].left
         /\ Cut(s, p)[Len(s)].left = s[Len(s)].left \ {p}
<1> DEFINE n == Len(s)
<1>1. s \in Seq(Frame) /\ n \in Nat /\ n >= 1 /\ n \in 1..n
  BY EmptySeq DEF Nested
<1>2. s[n] \in Frame
  BY <1>1
<1>3. s[n].left \in SUBSET Path /\ s[n].dir \in Path
  BY <1>2 DEF Frame
<1>4. [s[n] EXCEPT !.left = @ \ {p}] = [dir |-> s[n].dir, left |-> s[n].left \ {p}]
  <2>1. \A f \in Frame : \A L : [f EXCEPT !.left = L] = [dir |-> f.dir, left |-> L]
    BY DEF Frame
  <2> QED
    BY <1>2, <2>1
<1>5. [dir |-> s[n].dir, left |-> s[n].left \ {p}] \in Frame
  BY <1>3 DEF Frame
<1>6. Cut(s, p) = [s EXCEPT ![n] = [dir |-> s[n].dir, left |-> s[n].left \ {p}]]
  BY <1>4, Zenon DEF Cut
<1> HIDE DEF Frame
<1>7. /\ Cut(s, p) \in Seq(Frame) /\ Len(Cut(s, p)) = n
      /\ \A i \in 1..n - 1 : Cut(s, p)[i] = s[i]
      /\ Cut(s, p)[n] = [dir |-> s[n].dir, left |-> s[n].left \ {p}]
  <2> DEFINE f == [dir |-> s[n].dir, left |-> s[n].left \ {p}]
  <2>1. f \in Frame /\ Cut(s, p) = [s EXCEPT ![n] = f]
    BY <1>5, <1>6
  <2> HIDE DEF f
  <2>2. /\ [s EXCEPT ![n] = f] \in Seq(Frame) /\ Len([s EXCEPT ![n] = f]) = n
        /\ [s EXCEPT ![n] = f][n] = f
        /\ \A i \in 1..n - 1 : [s EXCEPT ![n] = f][i] = s[i]
    BY <1>1, <2>1
  <2>3. /\ Cut(s, p) \in Seq(Frame) /\ Len(Cut(s, p)) = n
        /\ \A i \in 1..n - 1 : Cut(s, p)[i] = s[i]
        /\ Cut(s, p)[n] = f
    BY <2>1, <2>2, Zenon
  <2> QED
    BY <2>3 DEF f
<1>8. Cut(s, p)[n].dir = s[n].dir /\ Cut(s, p)[n].left = s[n].left \ {p}
  BY <1>7
<1>9. \A i \in 1..n : i \in 1..n - 1 \/ i = n
  BY <1>1
<1> QED
  BY <1>1, <1>7, <1>8, <1>9

LEMMA CutNested ==
  ASSUME IsTree(before), NEW s, Nested(s), s # <<>>, NEW p \in s[Len(s)].left
  PROVE  Nested(Cut(s, p))
<1> DEFINE n == Len(s)
           w == Cut(s, p)
<1>1. /\ w \in Seq(Frame) /\ Len(w) = n
      /\ \A i \in 1..n : w[i].dir = s[i].dir
      /\ \A i \in 1..n - 1 : w[i].left = s[i].left
      /\ w[n].left = s[n].left \ {p}
  BY CutIs
<1>2. n \in Nat /\ n >= 1
  BY Foremost
<1> HIDE DEF w
<1>3. \A i \in 1..n : w[i].left \subseteq s[i].left
  <2>1. \A i \in 1..n : i \in 1..n - 1 \/ i = n
    BY <1>2
  <2> QED
    BY <1>1, <2>1
<1>4. ASSUME NEW i \in 1..n
      PROVE  /\ Len(w[i].dir) = i - 1
             /\ w[i].dir \in Dirs /\ w[i].dir \notin unreadable
             /\ w[i].left \subseteq Children(before, w[i].dir)
             /\ \A j \in 1..i : SubSeq(w[i].dir, 1, j - 1) = w[j].dir
             /\ i > 1 => w[i].dir \notin w[i - 1].left
  <2>1. /\ Len(s[i].dir) = i - 1
        /\ s[i].dir \in Dirs /\ s[i].dir \notin unreadable
        /\ s[i].left \subseteq Children(before, s[i].dir)
        /\ \A j \in 1..i : SubSeq(s[i].dir, 1, j - 1) = s[j].dir
        /\ i > 1 => s[i].dir \notin s[i - 1].left
    BY DEF Nested
  <2>2. \A j \in 1..i : j \in 1..n
    BY <1>2
  <2>3. i > 1 => i - 1 \in 1..n
    BY <1>2
  <2> QED
    BY <1>1, <1>3, <2>1, <2>2, <2>3
<1>5. Nested(w)
  BY <1>1, <1>4 DEF Nested
<1> QED
  BY <1>5 DEF w

\* What is found next is found once.
LEMMA CutAwaits ==
  ASSUME IsTree(before), NEW s, Nested(s), s # <<>>, NEW p \in s[Len(s)].left,
         NEW r \in before
  PROVE  /\ Awaits(s, r) <=> Awaits(Cut(s, p), r) \/ Under(p, r)
         /\ ~(Awaits(Cut(s, p), r) /\ Under(p, r))
<1> DEFINE n == Len(s)
           w == Cut(s, p)
<1>1. /\ Len(w) = n
      /\ \A i \in 1..n - 1 : w[i].left = s[i].left
      /\ w[n].left = s[n].left \ {p}
  BY CutIs
<1>2. /\ n \in Nat /\ n >= 1
      /\ p \in Path /\ p # <<>> /\ Len(p) = n
      /\ \A j \in 1..n : SubSeq(p, 1, j - 1) = s[j].dir
  BY Foremost
<1> HIDE DEF w
<1>3. r \in Path /\ Len(r) \in Nat
  BY DEF IsTree, IsPlace, Path
<1>4. \A i \in 1..n : i \in 1..n - 1 \/ i = n
  BY <1>2
<1>5. Awaits(s, r) <=> Awaits(w, r) \/ Under(p, r)
  <2>1. n \in 1..n
    BY <1>2
  <2>2. \A i \in 1..n : \A q : q \in s[i].left <=> q \in w[i].left \/ (i = n /\ q = p)
    BY <1>1, <1>4, <2>1
  <2> QED
    BY <1>1, <2>1, <2>2 DEF Awaits
<1>6. ASSUME Under(p, r), NEW i \in 1..n, NEW q \in w[i].left, Under(q, r) PROVE FALSE
  <2>1. n <= Len(r) /\ SubSeq(r, 1, n) = p
    BY <1>2, <1>3, <1>6, UnderIs
  <2>2. q \in s[i].left /\ (i = n => q # p)
    BY <1>1, <1>4
  <2>3. /\ Len(s[i].dir) = i - 1 /\ s[i].left \subseteq Children(before, s[i].dir)
        /\ \A k \in 1..n : k > 1 => s[k].dir \notin s[k - 1].left
    BY DEF Nested
  <2>4. q \in Path /\ q # <<>> /\ Parent(q) = s[i].dir
    BY <2>2, <2>3 DEF IsTree, IsPlace, Children
  <2>5. Len(q) = i
    <3>1. Len(q) \in Nat /\ Len(Parent(q)) = Len(q) - 1
      BY <2>4, Paths
    <3> QED
      BY <1>2, <2>3, <2>4, <3>1
  <2>6. SubSeq(r, 1, i) = q
    BY <1>3, <1>6, <2>4, <2>5, UnderIs
  <2>7. n \in 0..Len(r) /\ i \in 0..n
    BY <1>2, <1>3, <2>1
  <2>8. SubSeq(p, 1, i) = q
    BY <1>3, <2>1, <2>6, <2>7, PrefixIs
  <2>9. CASE i = n
    BY <1>2, <2>2, <2>8, <2>9, WholePrefix
  <2>10. CASE i # n
    <3>1. i + 1 \in 1..n /\ i + 1 > 1 /\ i + 1 - 1 = i
      BY <1>2, <2>10
    <3>2. s[i + 1].dir = q
      <4>1. SubSeq(p, 1, i + 1 - 1) = s[i + 1].dir
        BY <1>2, <3>1
      <4> QED
        BY <2>8, <3>1, <4>1
    <3>3. s[i + 1].dir \notin s[i].left
      BY <2>3, <3>1
    <3> QED
      BY <2>2, <3>2, <3>3
  <2> QED
    BY <2>9, <2>10
<1>7. ~(Awaits(w, r) /\ Under(p, r))
  BY <1>1, <1>6 DEF Awaits
<1> QED
  BY <1>5, <1>7 DEF w

\* What is below a directory is under one of its entries.
LEMMA Covers ==
  ASSUME IsTree(before), NEW d \in Path, NEW r \in before
  PROVE  (\E q \in Children(before, d) : Under(q, r)) <=> d = <<>> \/ d \in Above(r)
<1>1. r \in Path /\ r # <<>> /\ Above(r) \subseteq before
  BY DEF IsTree, IsPlace
<1>2. ASSUME NEW q \in Children(before, d), Under(q, r), d # <<>> PROVE d \in Above(r)
  <2>1. q \in Path /\ q # <<>> /\ Parent(q) = d
    BY <1>2 DEF Children, IsTree, IsPlace
  <2>2. d \in Above(q)
    BY <1>2, <2>1, AboveParent
  <2>3. CASE r = q
    BY <2>2, <2>3
  <2>4. CASE q \in Above(r)
    BY <1>1, <2>2, <2>4, AboveAbove
  <2> QED
    BY <1>2, <2>3, <2>4 DEF Under
<1>3. ASSUME d = <<>> \/ d \in Above(r) PROVE \E q \in Children(before, d) : Under(q, r)
  <2>1. PICK c \in Path \ {<<>>} : Parent(c) = d /\ (c = r \/ c \in Above(r))
    BY <1>1, <1>3, Toward
  <2>2. c \in Children(before, d) /\ Under(c, r)
    BY <1>1, <2>1 DEF Children, Under
  <2> QED
    BY <2>2
<1> QED
  BY <1>2, <1>3

LEMMA Deeper ==
  ASSUME IsTree(before), NEW s, Nested(s), NEW p \in Dirs, p \in Path, p \notin unreadable,
         Len(p) = Len(s), \A j \in 1..Len(s) : SubSeq(p, 1, j - 1) = s[j].dir,
         s # <<>> => p \notin s[Len(s)].left
  PROVE  LET w == Append(s, [dir |-> p, left |-> Children(before, p)])
         IN  /\ Nested(w) /\ Len(w) = Len(s) + 1 /\ w[Len(s) + 1].dir = p
             /\ \A i \in 1..Len(s) : w[i] = s[i]
             /\ \A r \in before : Awaits(w, r) <=> Awaits(s, r) \/ p = <<>> \/ p \in Above(r)
<1> DEFINE n == Len(s)
           f == [dir |-> p, left |-> Children(before, p)]
           w == Append(s, f)
<1>1. s \in Seq(Frame) /\ n \in Nat /\ f \in Frame
  BY DEF Nested, Frame, Children, IsTree, IsPlace
<1>2. f.dir = p /\ f.left = Children(before, p)
  OBVIOUS
<1> HIDE DEF f
<1>3. w \in Seq(Frame) /\ Len(w) = n + 1 /\ w[n + 1] = f /\ \A i \in 1..n : w[i] = s[i]
  BY <1>1
<1> HIDE DEF w
<1>4. \A i \in 1..n + 1 : i \in 1..n \/ i = n + 1
  BY <1>1
<1>5. ASSUME NEW i \in 1..n + 1
      PROVE  /\ Len(w[i].dir) = i - 1
             /\ w[i].dir \in Dirs /\ w[i].dir \notin unreadable
             /\ w[i].left \subseteq Children(before, w[i].dir)
             /\ \A j \in 1..i : SubSeq(w[i].dir, 1, j - 1) = w[j].dir
             /\ i > 1 => w[i].dir \notin w[i - 1].left
  <2>1. CASE i \in 1..n
    <3>1. /\ Len(s[i].dir) = i - 1
          /\ s[i].dir \in Dirs /\ s[i].dir \notin unreadable
          /\ s[i].left \subseteq Children(before, s[i].dir)
          /\ \A j \in 1..i : SubSeq(s[i].dir, 1, j - 1) = s[j].dir
          /\ i > 1 => s[i].dir \notin s[i - 1].left
      BY <2>1 DEF Nested
    <3>2. w[i] = s[i] /\ \A j \in 1..i : w[j] = s[j]
      BY <1>1, <1>3, <2>1
    <3>3. i > 1 => w[i - 1] = s[i - 1]
      <4>1. i > 1 => i - 1 \in 1..n
        BY <1>1, <2>1
      <4> QED
        BY <1>3, <4>1
    <3> QED
      BY <3>1, <3>2, <3>3
  <2>2. CASE i = n + 1
    <3>1. w[i].dir = p /\ w[i].left = Children(before, p) /\ i - 1 = n
      BY <1>1, <1>2, <1>3, <2>2
    <3>2. ASSUME NEW j \in 1..i PROVE SubSeq(w[i].dir, 1, j - 1) = w[j].dir
      <4>1. CASE j \in 1..n
        BY <1>3, <3>1, <4>1
      <4>2. CASE j = n + 1
        <5>1. j - 1 = Len(p)
          BY <1>1, <4>2
        <5> QED
          BY <2>2, <3>1, <4>2, <5>1, WholePrefix
      <4> QED
        BY <1>4, <2>2, <4>1, <4>2
    <3>3. ASSUME i > 1 PROVE w[i].dir \notin w[i - 1].left
      <4>1. n \in 1..n /\ s # <<>>
        BY <1>1, <2>2, <3>3
      <4>2. w[i - 1] = s[n]
        BY <1>3, <3>1, <4>1
      <4> QED
        BY <3>1, <4>1, <4>2
    <3>4. Len(w[i].dir) = i - 1
      BY <3>1
    <3> QED
      BY <3>1, <3>2, <3>3, <3>4
  <2> QED
    BY <1>4, <2>1, <2>2
<1>6. Nested(w)
  BY <1>3, <1>5 DEF Nested
<1>7. ASSUME NEW r \in before
      PROVE  Awaits(w, r) <=> Awaits(s, r) \/ p = <<>> \/ p \in Above(r)
  <2>1. Awaits(w, r) <=> Awaits(s, r) \/ \E q \in w[n + 1].left : Under(q, r)
    <3>1. \A i \in 1..n : i \in 1..n + 1
      BY <1>1
    <3>2. n + 1 \in 1..n + 1
      BY <1>1
    <3> QED
      BY <1>3, <1>4, <3>1, <3>2 DEF Awaits
  <2>2. (\E q \in w[n + 1].left : Under(q, r)) <=> p = <<>> \/ p \in Above(r)
    BY <1>2, <1>3, Covers
  <2> QED
    BY <2>1, <2>2
<1>8. w[n + 1].dir = p
  BY <1>2, <1>3
<1>9. /\ Nested(w) /\ Len(w) = n + 1 /\ w[n + 1].dir = p
      /\ \A i \in 1..n : w[i] = s[i]
      /\ \A r \in before : Awaits(w, r) <=> Awaits(s, r) \/ p = <<>> \/ p \in Above(r)
  BY <1>3, <1>6, <1>7, <1>8
<1> QED
  BY <1>9 DEF w, f

LEMMA Shallower ==
  ASSUME NEW s, Nested(s), s # <<>>
  PROVE  /\ Nested(Front(s)) /\ Len(Front(s)) = Len(s) - 1
         /\ Len(s) = 1 => Front(s) = <<>>
         /\ \A i \in 1..Len(s) - 1 : Front(s)[i] = s[i]
         /\ \A r : Awaits(s, r) <=>
                   Awaits(Front(s), r) \/ \E q \in s[Len(s)].left : Under(q, r)
<1> DEFINE n == Len(s)
           m == n - 1
           w == Front(s)
<1>1. s \in Seq(Frame) /\ n \in Nat /\ n >= 1 /\ m \in 0..n /\ n = m + 1
  BY EmptySeq DEF Nested
<1>2. w = SubSeq(s, 1, m)
  BY DEF Front
<1> HIDE DEF m, w
<1>3. w \in Seq(Frame) /\ Len(w) = m /\ \A i \in 1..m : w[i] = s[i]
  BY <1>1, <1>2
<1>4. \A i \in 1..m : i \in 1..n /\ \A j \in 1..i : j \in 1..m
  BY <1>1
<1>5. \A i \in 1..m : i > 1 => i - 1 \in 1..m
  BY <1>1
<1>6. Nested(w)
  <2> SUFFICES ASSUME NEW i \in 1..m
               PROVE  /\ Len(w[i].dir) = i - 1
                      /\ w[i].dir \in Dirs /\ w[i].dir \notin unreadable
                      /\ w[i].left \subseteq Children(before, w[i].dir)
                      /\ \A j \in 1..i : SubSeq(w[i].dir, 1, j - 1) = w[j].dir
                      /\ i > 1 => w[i].dir \notin w[i - 1].left
    BY <1>3 DEF Nested
  <2>1. /\ Len(s[i].dir) = i - 1
        /\ s[i].dir \in Dirs /\ s[i].dir \notin unreadable
        /\ s[i].left \subseteq Children(before, s[i].dir)
        /\ \A j \in 1..i : SubSeq(s[i].dir, 1, j - 1) = s[j].dir
        /\ i > 1 => s[i].dir \notin s[i - 1].left
    BY <1>4 DEF Nested
  <2> QED
    BY <1>3, <1>4, <1>5, <2>1
<1>7. ASSUME NEW r
      PROVE  Awaits(s, r) <=> Awaits(w, r) \/ \E q \in s[n].left : Under(q, r)
  <2>1. n \in 1..n /\ \A i \in 1..n : i \in 1..m \/ i = n
    BY <1>1
  <2> QED
    BY <1>3, <1>4, <2>1 DEF Awaits
<1>8. n = 1 => w = <<>>
  BY <1>1, <1>3, EmptySeq
<1> QED
  BY <1>3, <1>6, <1>7, <1>8 DEF w, m

LEMMA RunningNotAwaited ==
  ASSUME IsTree(before), NEW s, Nested(s), NEW k \in 1..Len(s)
  PROVE  ~Awaits(s, s[k].dir)
<1> DEFINE r == s[k].dir
<1> SUFFICES ASSUME NEW i \in 1..Len(s), NEW q \in s[i].left, Under(q, r) PROVE FALSE
  BY DEF Awaits
<1>1. s \in Seq(Frame) /\ Len(s) \in Nat
  BY DEF Nested
<1>2. r \in Path /\ Len(r) = k - 1 /\ \A j \in 1..k : SubSeq(r, 1, j - 1) = s[j].dir
  <2>1. s[k] \in Frame
    BY <1>1
  <2>2. s[k].dir \in Path
    BY <2>1 DEF Frame
  <2> QED
    BY <2>2 DEF Nested
<1> HIDE DEF r
<1>3. /\ Len(s[i].dir) = i - 1 /\ s[i].left \subseteq Children(before, s[i].dir)
      /\ \A j \in 1..Len(s) : j > 1 => s[j].dir \notin s[j - 1].left
  BY DEF Nested
<1>4. q \in Path /\ q # <<>> /\ Parent(q) = s[i].dir
  BY <1>3 DEF IsTree, IsPlace, Children
<1>5. Len(q) = i
  <2>1. Len(q) \in Nat /\ Len(Parent(q)) = Len(q) - 1
    BY <1>4, Paths
  <2> QED
    BY <1>1, <1>3, <1>4, <2>1
<1>6. i <= k - 1 /\ SubSeq(r, 1, i) = q
  BY <1>2, <1>4, <1>5, UnderIs
<1>7. i + 1 \in 1..k /\ i + 1 \in 1..Len(s) /\ i + 1 > 1 /\ i + 1 - 1 = i
  BY <1>1, <1>6
<1>8. s[i + 1].dir = q
  <2>1. SubSeq(r, 1, i + 1 - 1) = s[i + 1].dir
    BY <1>2, <1>7
  <2> QED
    BY <1>6, <1>7, <2>1
<1>9. s[i + 1].dir \notin s[i].left
  BY <1>3, <1>7
<1> QED
  BY <1>8, <1>9

LEMMA AboveRunning ==
  ASSUME NEW s, NEW p \in Path, \A j \in 1..Len(p) : SubSeq(p, 1, j - 1) = s[j].dir,
         NEW r \in Above(p)
  PROVE  \E i \in 1..Len(p) : s[i].dir = r
<1>1. Len(p) \in Nat /\ Len(r) \in 1..Len(p) - 1 /\ r = SubSeq(p, 1, Len(r))
  BY AboveIs DEF Path
<1>2. Len(r) + 1 \in 1..Len(p) /\ Len(r) + 1 - 1 = Len(r)
  BY <1>1
<1>3. SubSeq(p, 1, Len(r) + 1 - 1) = s[Len(r) + 1].dir
  BY <1>2
<1> QED
  BY <1>1, <1>2, <1>3

-----------------------------------------------------------------------------
(* The steps.                                                              *)

\* What a call is given stays as it is.
LEMMA InputKept ==
  ASSUME [Next]_vars
  PROVE  UNCHANGED <<op, mask, recursive, unreadable, torn, locked, drive, before>>
<1>1. UNCHANGED input
  <2>1. CASE UNCHANGED vars
    BY <2>1, Zenon DEF vars
  <2>2. CASE Next
    BY <2>2, Zenon DEF Next, Match, MatchEnds, MatchStar, MatchOne, Answer, Compare, Call, SkipDir,
      EnterDir, AskFile, PutFile, Return, Unwind, Failed, DeleteNext, Cleaned, UserAdds, Done, vars
  <2> QED
    BY <2>1, <2>2
<1> QED
  BY <1>1, Zenon DEF input

\* The search that is running, and the directories it enters, stay the same.
LEMMA DirsKept ==
  ASSUME [Next]_vars
  PROVE  Dirs' = Dirs
<1>1. before' = before /\ ((op = "file_search" => recursive)' <=> (op = "file_search" => recursive))
  <2>1. before' = before /\ op' = op /\ recursive' = recursive
    BY InputKept
  <2> QED
    BY <2>1, Zenon
<1> QED
  BY <1>1 DEF Dirs

LEMMA FlagsInit == Init => Flags
<1> SUFFICES ASSUME Init PROVE Flags
  OBVIOUS
<1>1. recursive \in BOOLEAN /\ drive \in BOOLEAN
  BY Zenon DEF Init
<1>2. pc = "call" /\ op \in {"string_match", "file_search", "file_del"}
  BY DEF Init
<1>3. mask \in Word
  BY SearchAssumption, EmptySeq DEF Init, Word
<1> QED
  BY <1>1, <1>2, <1>3 DEF Flags

LEMMA FlagsNext ==
  ASSUME Flags, [Next]_vars
  PROVE  Flags'
<1>1. op' = op /\ mask' = mask /\ recursive' \in BOOLEAN /\ drive' \in BOOLEAN
  BY InputKept, Zenon DEF Flags
<1>2. /\ pc' \in {"call", "find", "match", "error", "clean", "done"}
      /\ op = "string_match" => pc' \in {"call", "match", "done"}
      /\ op = "file_search" => pc' # "clean"
      /\ op = "file_del" => pc' # "match"
  <2>1. CASE UNCHANGED vars
    BY <2>1 DEF vars, Flags
  <2>2. CASE Match \/ MatchEnds \/ MatchStar \/ MatchOne
    BY <2>2 DEF Flags, Match, MatchEnds, MatchStar, MatchOne, Answer, Compare
  <2>3. CASE Call \/ SkipDir \/ EnterDir \/ AskFile \/ PutFile
    BY <2>3 DEF Flags, Call, SkipDir, EnterDir, AskFile, PutFile, Enter, Left
  <2>4. CASE Return \/ Unwind \/ Failed \/ DeleteNext \/ Cleaned \/ UserAdds \/ Done
    BY <2>4 DEF Flags, Return, Unwind, Failed, DeleteNext, Cleaned, UserAdds, Done, vars
  <2> QED
    BY <2>1, <2>2, <2>3, <2>4 DEF Next
<1> QED
  BY <1>1, <1>2 DEF Flags

LEMMA ContentsInit == Init => Contents
<1> SUFFICES ASSUME Init PROVE Contents
  OBVIOUS
<1>1. tree = {} \/ tree \in Trees
  BY DEF Init
<1>2. IsTree(tree) /\ before = tree /\ added = {}
  BY <1>1, SearchAssumption DEF IsTree, Init
<1>3. \A p \in locked : ~IsDir(p)
  BY DEF Init
<1> QED
  BY <1>2, <1>3 DEF Contents

LEMMA ContentsNext ==
  ASSUME Flags, Contents, [Next]_vars
  PROVE  Contents'
<1>1. op' = op /\ locked' = locked /\ before' = before
  BY InputKept
<1>2. CASE UNCHANGED <<tree, added>> /\ (pc' = "clean" \/ pc # "clean" \/ (op = "file_del" /\ pc' = "done"))
           /\ (op = "file_del" /\ pc = "done" => pc' = "done")
  BY <1>1, <1>2 DEF Contents, IsTree
<1>3. CASE DeleteNext
  <2> DEFINE p == Head(list)
  <2>1. pc = "clean" /\ pc' = "clean" /\ added' = added
    BY <1>3 DEF DeleteNext
  <2>2. tree' = tree \/ (tree' = tree \ {p} /\ (IsDir(p) => Children(tree, p) = {}))
    BY <1>3 DEF DeleteNext
  <2>3. IsTree(tree')
    <3>1. CASE p \in tree /\ tree' # tree
      BY <2>2, <3>1, TreeLess DEF Contents
    <3>2. CASE p \notin tree \/ tree' = tree
      <4>1. tree' = tree
        BY <2>2, <3>2
      <4> QED
        BY <4>1 DEF Contents
    <3> QED
      BY <3>1, <3>2
  <2> QED
    BY <1>1, <2>1, <2>3 DEF Contents, IsTree
<1>4. CASE UserAdds
  <2>1. PICK p \in Additions \ tree : /\ Parent(p) \in tree \cup {<<>>}
                                      /\ tree' = tree \cup {p} /\ added' = {p}
    BY <1>4 DEF UserAdds
  <2>2. pc' = "clean" /\ IsPlace(p) /\ ~IsDir(p)
    BY <1>4, SearchAssumption DEF UserAdds
  <2>3. IsTree(tree')
    BY <2>1, <2>2, TreeMore DEF Contents
  <2> QED
    BY <1>1, <2>1, <2>2, <2>3 DEF Contents, IsTree
<1>5. CASE UNCHANGED vars \/ Match \/ MatchEnds \/ MatchStar \/ MatchOne
  BY <1>2, <1>5 DEF vars, Flags, Match, MatchEnds, MatchStar, MatchOne, Answer, Compare
<1>6. CASE Call \/ SkipDir \/ EnterDir \/ AskFile \/ PutFile
  BY <1>2, <1>6 DEF Flags, Call, SkipDir, EnterDir, AskFile, PutFile, Enter, Left
<1>7. CASE Return \/ Unwind \/ Failed \/ Cleaned \/ Done
  BY <1>2, <1>7 DEF Flags, Return, Unwind, Failed, Cleaned, Done, vars
<1> QED
  BY <1>3, <1>4, <1>5, <1>6, <1>7 DEF Next

LEMMA FramesInit == Init => Frames
<1> SUFFICES ASSUME Init PROVE Frames
  OBVIOUS
<1>1. stack = <<>> /\ stack \in Seq(Frame) /\ Len(stack) = 0 /\ pc = "call" /\ recurse_level = 0
  BY EmptySeq DEF Init
<1> QED
  BY <1>1, SearchAssumption DEF Frames, Nested

\* What a call for p does, from the calls in s.
LEMMA EnterNested ==
  ASSUME Flags, Contents, [Next]_vars, NEW s, Nested(s), recurse_level = Len(s),
         Len(s) <= MaxLevel + 1,
         NEW p \in Dirs, p \in Path, Len(p) = Len(s),
         \A j \in 1..Len(s) : SubSeq(p, 1, j - 1) = s[j].dir,
         s # <<>> => p \notin s[Len(s)].left,
         tree = before, Enter(s, p), op # "string_match"
  PROVE  Frames'
<1>1. Dirs' = Dirs /\ unreadable' = unreadable /\ before' = before /\ op' = op
  BY InputKept, DirsKept
<1>2. s \in Seq(Frame) /\ Len(s) \in Nat /\ MaxLevel \in Nat
  BY SearchAssumption DEF Nested
<1>3. IsTree(before)
  BY DEF Contents
<1>4. CASE pc' = "error" /\ stack' = s /\ recurse_level' = Len(s)
  BY <1>1, <1>2, <1>4 DEF Frames, Nested
<1>5. CASE ~(recurse_level > MaxLevel) /\ FindError(p) = 0
  <2> DEFINE w == Append(s, [dir |-> p, left |-> Children(before, p)])
  <2>1. /\ pc' = "find" /\ stack' = w /\ recurse_level' = Len(s) + 1
    BY <1>5 DEF Enter
  <2>2. p \notin unreadable
    BY <1>5 DEF FindError
  <2>3. Nested(w) /\ Len(w) = Len(s) + 1
    BY <1>3, <2>2, Deeper
  <2> HIDE DEF w
  <2>4. w # <<>>
    BY <1>2, <2>3
  <2>5. Nested(stack)'
    BY <1>1, <2>1, <2>3 DEF Nested
  <2>6. Len(stack') = Len(s) + 1 /\ stack' # <<>> /\ Len(s) + 1 <= MaxLevel + 1
    BY <1>2, <1>5, <2>1, <2>3, <2>4
  <2> QED
    BY <1>1, <2>1, <2>5, <2>6 DEF Frames
<1>6. recurse_level + 1 - 1 = Len(s)
  BY <1>2
<1> QED
  BY <1>4, <1>5, <1>6 DEF Enter, Leave

LEMMA RootEntered ==
  /\ <<>> \in Dirs /\ <<>> \in Path /\ Len(<<>>) = 0
BY EmptySeq DEF Dirs, Path

\* The running call of a search that has found p.
LEMMA FoundNext ==
  ASSUME Flags, Contents, Frames, pc = "find", NEW p \in Left
  PROVE  /\ op # "string_match" /\ stack # <<>> /\ tree = before
         /\ Left = stack[Len(stack)].left /\ Last(stack) = stack[Len(stack)]
         /\ Without(p) = Cut(stack, p) /\ p \in stack[Len(stack)].left
         /\ IsTree(before) /\ Nested(stack) /\ Len(stack) \in Nat /\ Len(stack) >= 1
<1>1. op # "string_match" /\ stack # <<>> /\ tree = before /\ IsTree(before) /\ Nested(stack)
  BY DEF Flags, Contents, Frames
<1>2. Last(stack) = stack[Len(stack)] /\ Len(stack) \in Nat /\ Len(stack) >= 1
  BY <1>1, Foremost
<1>3. Without(p) = Cut(stack, p)
  BY DEF Without, Cut
<1> QED
  BY <1>1, <1>2, <1>3 DEF Left

\* A directory that is entered is one the search enters.
LEMMA EnteredNext ==
  ASSUME Flags, Contents, Frames, pc = "find", NEW p \in Left, Enters(p)
  PROVE  p \in Dirs
<1>1. /\ p \in before /\ p \in Path /\ p # <<>> /\ Parent(p) = stack[Len(stack)].dir
      /\ Len(stack) \in 1..Len(stack)
  BY FoundNext, Foremost
<1>2. Parent(p) \in Dirs
  BY <1>1, FoundNext DEF Nested
<1>3. ~InDotted(p)
  BY <1>1, <1>2, Dotted DEF Dirs, Enters
<1>4. op = "file_search" => recursive
  BY Zenon DEF Enters
<1> QED
  BY <1>1, <1>3, <1>4 DEF Dirs, Enters

LEMMA FramesNext ==
  ASSUME Flags, Contents, Frames, [Next]_vars
  PROVE  Frames'
<1>1. Dirs' = Dirs /\ unreadable' = unreadable /\ before' = before /\ op' = op
  BY InputKept, DirsKept
<1>2. stack \in Seq(Frame) /\ Len(stack) \in Nat /\ MaxLevel \in Nat
  BY SearchAssumption DEF Frames, Nested
<1>3. CASE /\ UNCHANGED <<stack, recurse_level>>
           /\ (stack = <<>> \/ pc' \notin {"call", "clean", "done"})
           /\ (stack # <<>> \/ pc' \notin {"find", "match"} \/ op = "string_match")
  BY <1>1, <1>3 DEF Frames, Nested
<1>4. CASE Call
  <2>1. stack = <<>> /\ Enter(stack, <<>>) /\ op # "string_match" /\ pc = "call"
    BY <1>4 DEF Call, Frames
  <2>2. tree = before
    BY <2>1 DEF Contents
  <2>3. Len(stack) = 0 /\ <<>> \in Dirs /\ <<>> \in Path /\ Len(<<>>) = 0
    BY <2>1, RootEntered
  <2>4. \A j \in 1..Len(stack) : SubSeq(<<>>, 1, j - 1) = stack[j].dir
    BY <2>3
  <2> QED
    BY <2>1, <2>2, <2>3, <2>4, EnterNested DEF Frames
<1>5. ASSUME NEW p \in Left, stack' = Without(p), pc = "find",
             UNCHANGED recurse_level, pc' \in {"find", "match"}
      PROVE  Frames'
  <2>1. Nested(Cut(stack, p)) /\ Len(Cut(stack, p)) = Len(stack) /\ Cut(stack, p) # <<>>
    BY <1>5, FoundNext, CutNested, CutIs
  <2>2. stack' = Cut(stack, p)
    BY <1>5 DEF Without, Cut
  <2> QED
    BY <1>1, <1>2, <1>5, <2>1, <2>2 DEF Frames, Nested
<1>6. CASE SkipDir \/ AskFile \/ PutFile
  BY <1>5, <1>6 DEF SkipDir, AskFile, PutFile, Left
<1>7. CASE EnterDir
  <2>1. PICK p \in Left : Enters(p) /\ Enter(Without(p), p) /\ pc = "find"
    BY <1>7 DEF EnterDir, Left
  <2> DEFINE w == Cut(stack, p)
  <2>2. /\ Nested(w) /\ Len(w) = Len(stack)
        /\ \A i \in 1..Len(stack) : w[i].dir = stack[i].dir
        /\ w[Len(stack)].left = stack[Len(stack)].left \ {p}
    BY <2>1, FoundNext, CutNested, CutIs
  <2>3. /\ p \in Path /\ Len(p) = Len(stack)
        /\ \A j \in 1..Len(stack) : SubSeq(p, 1, j - 1) = stack[j].dir
    BY <2>1, FoundNext, Foremost
  <2>4. p \in Dirs
    BY <2>1, EnteredNext
  <2>5. Enter(w, p) /\ op # "string_match" /\ tree = before
    BY <2>1, FoundNext
  <2> HIDE DEF w
  <2>6. recurse_level = Len(w) /\ Len(w) <= MaxLevel + 1
    BY <2>2 DEF Frames
  <2> QED
    BY <2>2, <2>3, <2>4, <2>5, <2>6, EnterNested
<1>8. CASE Return \/ Unwind
  <2>1. stack # <<>> /\ stack' = Front(stack) /\ recurse_level' = recurse_level - 1
    BY <1>8 DEF Return, Unwind, Leave, Frames, Flags
  <2>2. Nested(Front(stack)) /\ Len(Front(stack)) = Len(stack) - 1
        /\ (Len(stack) = 1 => Front(stack) = <<>>)
    BY <2>1, Shallower DEF Frames
  <2>3. Len(stack) >= 1
    BY <1>2, <2>1, EmptySeq
  <2>4. Len(stack) > 1 => Front(stack) # <<>>
    BY <1>2, <2>2
  <2>5. /\ pc' \in {"call", "clean", "done"} => Len(stack) = 1
        /\ pc' \in {"find", "match"} => Len(stack) > 1
    <3>1. CASE Return
      <4>1. pc = "find" /\ pc' = (IF Len(stack) > 1 THEN pc ELSE IF op = "file_del" THEN "clean" ELSE "done")
        BY <3>1 DEF Return
      <4>2. CASE Len(stack) > 1
        BY <4>1, <4>2
      <4>3. CASE Len(stack) = 1
        BY <4>1, <4>3
      <4>4. Len(stack) > 1 \/ Len(stack) = 1
        <5>1. \A k \in Nat : k >= 1 => k > 1 \/ k = 1
          OBVIOUS
        <5> QED
          BY <1>2, <2>3, <5>1, Zenon
      <4> QED
        BY <4>2, <4>3, <4>4
    <3>2. CASE Unwind
      BY <3>2 DEF Unwind
    <3> QED
      BY <1>8, <3>1, <3>2
  <2>6. Nested(stack)'
    BY <1>1, <2>1, <2>2 DEF Nested
  <2>7. recurse_level' = Len(stack') /\ Len(stack') <= MaxLevel + 1
    BY <1>2, <2>1, <2>2 DEF Frames
  <2>8. op # "string_match"
    BY <2>1 DEF Frames
  <2> QED
    BY <1>1, <2>1, <2>2, <2>4, <2>5, <2>6, <2>7, <2>8 DEF Frames
<1>9. CASE UNCHANGED vars \/ Match \/ MatchEnds \/ MatchStar \/ MatchOne
  BY <1>3, <1>9 DEF vars, Frames, Flags, Match, MatchEnds, MatchStar, MatchOne, Answer, Compare, calls
<1>10. CASE Failed \/ DeleteNext \/ Cleaned \/ UserAdds \/ Done
  BY <1>3, <1>10 DEF Frames, Failed, DeleteNext, Cleaned, UserAdds, Done, vars, calls
<1> QED
  BY <1>4, <1>6, <1>7, <1>8, <1>9, <1>10 DEF Next

-----------------------------------------------------------------------------
(* What string_match compares.                                             *)

LEMMA Words == ASSUME NEW s \in Word PROVE Len(s) \in Nat
BY DEF Word

\* A track of the first places is a track of the mask.
LEMMA GreedyFits ==
  ASSUME NEW s \in Word, NEW m \in Word, NEW k \in 1..Len(m) + 1, NEW t \in Track(s, k),
         Greedy(s, m, t, k)
  PROVE  /\ Fits(s, m, t, k - 1)
         /\ \A j \in 1..k - 1 : m[j] = "*" => t[j + 1] <= Len(s)
<1>1. Len(s) \in Nat /\ Len(m) \in Nat
  BY Words
<1>2. ASSUME NEW j \in 1..k - 1
      PROVE  /\ \/ m[j] = "*" /\ t[j] <= t[j + 1]
                \/ t[j] <= Len(s) /\ m[j] \in {"?", s[t[j]]} /\ t[j + 1] = t[j] + 1
             /\ m[j] = "*" => t[j + 1] <= Len(s)
  <2>1. CASE m[j] = "*"
    <3> DEFINE e == TokenEnd(m, j + 1)
    <3>1. Found(s, t[j], m, j + 1, e) /\ t[j + 1] = Place(s, t[j], m, j + 1, e)
      BY <2>1 DEF Greedy
    <3>2. j \in 1..k
      BY <1>1
    <3>3. t[j] \in 1..Len(s) + 1
      BY <3>2 DEF Track
    <3> HIDE DEF e
    <3>4. Place(s, t[j], m, j + 1, e) \in t[j]..Len(s)
      BY <3>1, <3>3, Places
    <3> QED
      BY <1>1, <2>1, <3>1, <3>3, <3>4
  <2>2. CASE m[j] # "*"
    BY <2>2 DEF Greedy
  <2> QED
    BY <2>1, <2>2
<1> QED
  BY <1>2 DEF Fits

LEMMA OneGrows ==
  ASSUME NEW s \in Word, NEW m \in Word, NEW k \in 1..Len(m), NEW t \in Track(s, k),
         Greedy(s, m, t, k), m[k] # "*", t[k] <= Len(s), m[k] \in {"?", s[t[k]]}
  PROVE  \E u \in Track(s, k + 1) : Greedy(s, m, u, k + 1) /\ u[k + 1] = t[k] + 1
<1> DEFINE u == [j \in 1..k + 1 |-> IF j = k + 1 THEN t[k] + 1 ELSE t[j]]
<1>1. Len(s) \in Nat /\ Len(m) \in Nat
  BY Words
<1>2. t \in [1..k -> 1..Len(s) + 1] /\ t[1] = 1
  BY DEF Track
<1>3. \A j \in 1..k : u[j] = t[j]
  BY <1>1
<1>4. u[k + 1] = t[k] + 1
  BY <1>1
<1>5. u \in Track(s, k + 1)
  <2>1. \A j \in 1..k + 1 : (IF j = k + 1 THEN t[k] + 1 ELSE t[j]) \in 1..Len(s) + 1
    BY <1>1, <1>2
  <2>2. u[1] = 1
    BY <1>1, <1>2, <1>3
  <2> QED
    BY <2>1, <2>2 DEF Track
<1> HIDE DEF u
<1>6. \A j \in 1..k + 1 - 1 : j = k \/ (j \in 1..k - 1 /\ j \in 1..k /\ j + 1 \in 1..k)
  BY <1>1
<1>7. k \in 1..k
  BY <1>1
<1>8. Greedy(s, m, u, k + 1)
  <2> SUFFICES ASSUME NEW j \in 1..k + 1 - 1
               PROVE  LET e == TokenEnd(m, j + 1)
                      IN  IF m[j] = "*"
                          THEN /\ e # j + 1 /\ Found(s, u[j], m, j + 1, e)
                               /\ u[j + 1] = Place(s, u[j], m, j + 1, e)
                          ELSE u[j] <= Len(s) /\ m[j] \in {"?", s[u[j]]} /\ u[j + 1] = u[j] + 1
    BY DEF Greedy
  <2>1. CASE j = k
    BY <1>3, <1>4, <1>7, <2>1
  <2>2. CASE j \in 1..k - 1
    <3>1. u[j] = t[j] /\ u[j + 1] = t[j + 1]
      BY <1>3, <1>6, <2>2
    <3>2. LET e == TokenEnd(m, j + 1)
          IN  IF m[j] = "*"
              THEN /\ e # j + 1 /\ Found(s, t[j], m, j + 1, e)
                   /\ t[j + 1] = Place(s, t[j], m, j + 1, e)
              ELSE t[j] <= Len(s) /\ m[j] \in {"?", s[t[j]]} /\ t[j + 1] = t[j] + 1
      BY <2>2 DEF Greedy
    <3> QED
      BY <3>1, <3>2, Zenon
  <2> QED
    BY <1>6, <2>1, <2>2
<1> QED
  BY <1>4, <1>5, <1>8

LEMMA StarGrows ==
  ASSUME NEW s \in Word, NEW m \in Word, NEW k \in 1..Len(m), NEW t \in Track(s, k),
         Greedy(s, m, t, k), m[k] = "*", NEW e, e = TokenEnd(m, k + 1), e # k + 1,
         Found(s, t[k], m, k + 1, e)
  PROVE  /\ e \in k + 2..Len(m) + 1
         /\ After(s, t[k], m, k + 1, e) \in 1..Len(s) + 1
         /\ \E u \in Track(s, e) : Greedy(s, m, u, e) /\ u[e] = After(s, t[k], m, k + 1, e)
<1> DEFINE h == Place(s, t[k], m, k + 1, e)
           u == [j \in 1..e |-> IF j <= k THEN t[j] ELSE h + (j - (k + 1))]
<1>1. Len(s) \in Nat /\ Len(m) \in Nat /\ k \in 1..k /\ k + 1 \in 1..Len(m) + 1
  BY Words
<1>2. t \in [1..k -> 1..Len(s) + 1] /\ t[1] = 1 /\ t[k] \in 1..Len(s) + 1
  BY <1>1 DEF Track
<1>3. e \in k + 1..Len(m) + 1 /\ \A j \in k + 1..e - 1 : m[j] \notin Wild
  BY <1>1, TokenEnds
<1>4. e \in k + 2..Len(m) + 1
  BY <1>1, <1>3
<1>5. h \in t[k]..Len(s) /\ Occurs(s, h, m, k + 1, e)
  BY <1>2, Places
<1>6. After(s, t[k], m, k + 1, e) = h + (e - (k + 1))
  BY DEF After
<1> HIDE DEF h
<1>7. h \in Int /\ h >= 1 /\ h <= Len(s) /\ h + e - (k + 1) <= Len(s) + 1
  BY <1>1, <1>2, <1>5 DEF Occurs
<1>8. \A j \in 1..k : u[j] = t[j]
  BY <1>1, <1>4
<1>9. \A j \in k + 1..e : u[j] = h + (j - (k + 1))
  BY <1>1, <1>4
<1>10. u \in Track(s, e)
  <2>1. ASSUME NEW j \in 1..e
        PROVE  (IF j <= k THEN t[j] ELSE h + (j - (k + 1))) \in 1..Len(s) + 1
    <3>1. CASE j <= k
      BY <1>1, <1>2, <3>1
    <3>2. CASE ~(j <= k)
      BY <1>1, <1>4, <1>7, <3>2
    <3> QED
      BY <3>1, <3>2
  <2>2. u[1] = 1
    BY <1>1, <1>2, <1>8
  <2> QED
    BY <2>1, <2>2 DEF Track
<1> HIDE DEF u
<1>11. Greedy(s, m, u, e)
  <2> SUFFICES ASSUME NEW j \in 1..e - 1
               PROVE  LET f == TokenEnd(m, j + 1)
                      IN  IF m[j] = "*"
                          THEN /\ f # j + 1 /\ Found(s, u[j], m, j + 1, f)
                               /\ u[j + 1] = Place(s, u[j], m, j + 1, f)
                          ELSE u[j] <= Len(s) /\ m[j] \in {"?", s[u[j]]} /\ u[j + 1] = u[j] + 1
    BY DEF Greedy
  <2>1. CASE j = k
    <3>1. k + 1 \in k + 1..e
      BY <1>1, <1>4
    <3>2. u[k] = t[k] /\ u[k + 1] = h
      BY <1>1, <1>7, <1>8, <1>9, <3>1
    <3> QED
      BY <2>1, <3>2 DEF h
  <2>2. CASE j \in 1..k - 1
    <3>1. u[j] = t[j] /\ u[j + 1] = t[j + 1]
      <4>1. j \in 1..k /\ j + 1 \in 1..k
        BY <1>1, <2>2
      <4> QED
        BY <1>8, <4>1
    <3>2. LET f == TokenEnd(m, j + 1)
          IN  IF m[j] = "*"
              THEN /\ f # j + 1 /\ Found(s, t[j], m, j + 1, f)
                   /\ t[j + 1] = Place(s, t[j], m, j + 1, f)
              ELSE t[j] <= Len(s) /\ m[j] \in {"?", s[t[j]]} /\ t[j + 1] = t[j] + 1
      BY <2>2 DEF Greedy
    <3> QED
      BY <3>1, <3>2, Zenon
  <2>3. CASE j \in k + 1..e - 1
    <3>1. j \in k + 1..e /\ j + 1 \in k + 1..e
      BY <1>1, <1>4, <2>3
    <3>2. u[j] = h + (j - (k + 1)) /\ u[j + 1] = h + (j + 1 - (k + 1))
      BY <1>9, <3>1
    <3>3. m[j] # "*"
      BY <1>3, <2>3 DEF Wild
    <3>4. h + (j - (k + 1)) <= Len(s) /\ h + (j + 1 - (k + 1)) = h + (j - (k + 1)) + 1
      BY <1>1, <1>4, <1>7, <2>3
    <3>5. s[h + j - (k + 1)] = m[j] /\ h + j - (k + 1) = h + (j - (k + 1))
      BY <1>1, <1>4, <1>5, <1>7, <2>3 DEF Occurs
    <3>6. u[j] <= Len(s) /\ m[j] = s[u[j]] /\ u[j + 1] = u[j] + 1
      BY <3>2, <3>4, <3>5
    <3> QED
      BY <3>3, <3>6
  <2>4. j = k \/ j \in 1..k - 1 \/ j \in k + 1..e - 1
    BY <1>1, <1>4
  <2> QED
    BY <2>1, <2>2, <2>3, <2>4
<1>12. u[e] = h + (e - (k + 1)) /\ h + (e - (k + 1)) \in 1..Len(s) + 1
  BY <1>1, <1>4, <1>7, <1>9
<1> QED
  BY <1>4, <1>6, <1>10, <1>11, <1>12

\* There is only one track of first places.
LEMMA GreedyUnique ==
  ASSUME NEW s \in Word, NEW m \in Word, NEW k \in Nat, NEW l \in Nat,
         NEW t \in Track(s, k), Greedy(s, m, t, k), NEW u \in Track(s, l), Greedy(s, m, u, l)
  PROVE  \A j \in 1..k : j <= l => t[j] = u[j]
<1> DEFINE S == {j \in 1..k : j <= l /\ t[j] # u[j]}
<1> SUFFICES ASSUME S # {} PROVE FALSE
  OBVIOUS
<1>1. S \in SUBSET Nat
  OBVIOUS
<1>2. PICK x \in S : \A y \in S : x <= y
  BY <1>1, Least
<1>3. x # 1
  BY <1>2 DEF Track
<1>4. x - 1 \in 1..k - 1 /\ x - 1 \in 1..l - 1 /\ x - 1 + 1 = x /\ x - 1 \in 1..k
  BY <1>2, <1>3
<1>5. t[x - 1] = u[x - 1]
  BY <1>2, <1>4
<1>6. CASE m[x - 1] = "*"
  <2>1. t[x - 1 + 1] = Place(s, t[x - 1], m, x - 1 + 1, TokenEnd(m, x - 1 + 1))
    BY <1>4, <1>6 DEF Greedy
  <2>2. u[x - 1 + 1] = Place(s, u[x - 1], m, x - 1 + 1, TokenEnd(m, x - 1 + 1))
    BY <1>4, <1>6 DEF Greedy
  <2> QED
    BY <1>2, <1>4, <1>5, <2>1, <2>2
<1>7. CASE m[x - 1] # "*"
  <2>1. t[x - 1 + 1] = t[x - 1] + 1
    BY <1>4, <1>7 DEF Greedy
  <2>2. u[x - 1 + 1] = u[x - 1] + 1
    BY <1>4, <1>7 DEF Greedy
  <2> QED
    BY <1>2, <1>4, <1>5, <2>1, <2>2
<1> QED
  BY <1>6, <1>7

\* Where the mask is used up, or what is left of it is a '*', the name may go on.
LEMMA GlobGoesOn ==
  ASSUME NEW s \in Word, NEW m \in Word, NEW k \in 1..Len(m) + 1, NEW t \in Track(s, k),
         Greedy(s, m, t, k), k = Len(m) + 1 \/ (k = Len(m) /\ m[k] = "*")
  PROVE  Glob(s, Append(m, "*"))
<1> DEFINE w == Append(m, "*")
           n == Len(m)
           u == [j \in 1..n + 2 |-> IF j <= k THEN t[j] ELSE Len(s) + 1]
<1>1. Len(s) \in Nat /\ n \in Nat /\ k \in 1..k
  BY Words
<1>2. t \in [1..k -> 1..Len(s) + 1] /\ t[1] = 1
  BY DEF Track
<1>3. Len(w) = n + 1 /\ w[n + 1] = "*" /\ \A j \in 1..n : w[j] = m[j]
  BY DEF Word
<1> HIDE DEF w
<1>4. u \in Track(s, n + 2)
  <2>1. \A j \in 1..n + 2 : (IF j <= k THEN t[j] ELSE Len(s) + 1) \in 1..Len(s) + 1
    BY <1>1, <1>2
  <2>2. u[1] = 1
    BY <1>1, <1>2
  <2> QED
    BY <2>1, <2>2 DEF Track
<1>5. \A j \in 1..n + 2 : u[j] = IF j <= k THEN t[j] ELSE Len(s) + 1
  OBVIOUS
<1> HIDE DEF u
<1>6. Fits(s, w, u, n + 1)
  <2> SUFFICES ASSUME NEW j \in 1..n + 1
               PROVE  \/ w[j] = "*" /\ u[j] <= u[j + 1]
                      \/ u[j] <= Len(s) /\ w[j] \in {"?", s[u[j]]} /\ u[j + 1] = u[j] + 1
    BY DEF Fits
  <2>1. j \in 1..n + 2 /\ j + 1 \in 1..n + 2
    BY <1>1
  <2>2. CASE j >= k
    <3>1. w[j] = "*"
      BY <1>1, <1>3, <2>2
    <3>2. u[j + 1] = Len(s) + 1
      BY <1>1, <1>5, <2>1, <2>2
    <3>3. u[j] \in 1..Len(s) + 1
      BY <1>4, <2>1 DEF Track
    <3> QED
      BY <1>1, <3>1, <3>2, <3>3
  <2>3. CASE j < k
    <3>1. j \in 1..k - 1 /\ j + 1 <= k /\ j <= k /\ j \in 1..n
      BY <1>1, <2>3
    <3>2. u[j] = t[j] /\ u[j + 1] = t[j + 1] /\ w[j] = m[j]
      BY <1>3, <1>5, <2>1, <3>1
    <3>3. \/ m[j] = "*" /\ t[j] <= t[j + 1]
          \/ t[j] <= Len(s) /\ m[j] \in {"?", s[t[j]]} /\ t[j + 1] = t[j] + 1
      BY <3>1, GreedyFits DEF Fits
    <3> QED
      BY <3>2, <3>3, Zenon
  <2> QED
    BY <1>1, <2>2, <2>3
<1>7. u[n + 2] = Len(s) + 1
  BY <1>1, <1>5
<1>8. Len(w) + 1 = n + 2
  BY <1>1, <1>3
<1>9. Glob(s, w)
  BY <1>3, <1>4, <1>6, <1>7, <1>8 DEF Glob
<1> QED
  BY <1>9 DEF w

\* Where the name is used up, the mask may go on.
LEMMA GlobGoneOn ==
  ASSUME NEW s \in Word, NEW m \in Word, NEW k \in 1..Len(m) + 1, NEW t \in Track(s, k),
         Greedy(s, m, t, k), t[k] = Len(s) + 1
  PROVE  \E j \in 0..Len(m) : (j = 0 \/ m[j] # "*") /\ Glob(s, SubSeq(m, 1, j))
<1> DEFINE n == k - 1
           w == SubSeq(m, 1, n)
<1>1. Len(s) \in Nat /\ Len(m) \in Nat /\ n \in 0..Len(m) /\ k = n + 1 /\ m \in Seq(STRING)
  BY Words DEF Word
<1>2. Fits(s, m, t, n)
  BY GreedyFits
<1>3. n = 0 \/ m[n] # "*"
  <2> SUFFICES ASSUME n # 0, m[n] = "*" PROVE FALSE
    OBVIOUS
  <2>1. n \in 1..k - 1
    BY <1>1
  <2>2. t[n + 1] <= Len(s)
    BY <2>1, GreedyFits
  <2> QED
    BY <1>1, <2>2
<1> HIDE DEF n
<1>4. Len(w) = n /\ \A j \in 1..n : w[j] = m[j]
  BY <1>1
<1> HIDE DEF w
<1>5. Glob(s, w)
  <2>1. Fits(s, w, t, n)
    BY <1>2, <1>4 DEF Fits
  <2>2. t \in Track(s, Len(w) + 1) /\ t[Len(w) + 1] = Len(s) + 1
    BY <1>1, <1>4
  <2> QED
    BY <1>4, <2>1, <2>2 DEF Glob
<1> QED
  BY <1>1, <1>3, <1>5 DEF w

\* Where the comparison ends without an answer: nothing else is taken.
LEMMA NotTaken ==
  ASSUME NEW s \in Word, NEW m \in Word, NEW k \in 1..Len(m), NEW t \in Track(s, k),
         Greedy(s, m, t, k), t[k] <= Len(s),
         \/ /\ m[k] = "*" /\ TokenEnd(m, k + 1) # k + 1
            /\ ~Found(s, t[k], m, k + 1, TokenEnd(m, k + 1))
         \/ m[k] # "*" /\ m[k] \notin {"?", s[t[k]]}
  PROVE  ~Takes(s, m)
<1> SUFFICES ASSUME NEW l \in 1..Len(m) + 1, NEW u \in Track(s, l), Greedy(s, m, u, l),
                    \/ l = Len(m) + 1
                    \/ u[l] = Len(s) + 1
                    \/ m[l] = "*" /\ TokenEnd(m, l + 1) = l + 1
             PROVE  FALSE
  BY DEF Takes
<1>1. Len(s) \in Nat /\ Len(m) \in Nat /\ k \in Nat /\ l \in Nat /\ k \in 1..k /\ l \in 1..l
  BY Words
<1>2. \A j \in 1..k : j <= l => t[j] = u[j]
  BY <1>1, GreedyUnique
<1>3. CASE l > k
  <2>1. k \in 1..l - 1 /\ u[k] = t[k]
    BY <1>1, <1>2, <1>3
  <2>2. IF m[k] = "*"
        THEN TokenEnd(m, k + 1) # k + 1 /\ Found(s, u[k], m, k + 1, TokenEnd(m, k + 1))
        ELSE m[k] \in {"?", s[u[k]]}
    BY <2>1 DEF Greedy
  <2> QED
    BY <2>1, <2>2
<1>4. CASE l = k
  BY <1>1, <1>2, <1>4
<1>5. CASE l < k
  <2>1. l \in 1..k - 1 /\ u[l] = t[l] /\ l # Len(m) + 1
    BY <1>1, <1>2, <1>5
  <2>2. IF m[l] = "*"
        THEN TokenEnd(m, l + 1) # l + 1 /\ Found(s, t[l], m, l + 1, TokenEnd(m, l + 1))
        ELSE t[l] <= Len(s)
    BY <2>1 DEF Greedy
  <2>3. t[l] <= Len(s)
    <3>1. CASE m[l] = "*"
      <4>1. PICK h \in t[l]..Len(s) : TRUE
        BY <2>2, <3>1 DEF Found
      <4>2. t[l] \in 1..Len(s) + 1
        BY <1>1, <2>1 DEF Track
      <4> QED
        BY <1>1, <4>1, <4>2
    <3> QED
      BY <2>2, <3>1
  <2> QED
    BY <1>1, <2>1, <2>2, <2>3
<1> QED
  BY <1>1, <1>3, <1>4, <1>5

\* A token of a mask that the name fits is found, and not behind its place.
LEMMA TokenReached ==
  ASSUME NEW s \in Word, NEW m \in Word, NEW t \in Track(s, Len(m) + 1), Fits(s, m, t, Len(m)),
         NEW k \in 1..Len(m), m[k] = "*", NEW i \in 1..Len(s) + 1, i <= t[k],
         NEW e, e = TokenEnd(m, k + 1), e # k + 1
  PROVE  Found(s, i, m, k + 1, e) /\ After(s, i, m, k + 1, e) <= t[e]
<1> DEFINE h == Place(s, i, m, k + 1, e)
<1>1. Len(s) \in Nat /\ Len(m) \in Nat /\ k + 1 \in 1..Len(m) + 1
  BY Words
<1>2. /\ e \in k + 1..Len(m) + 1 /\ e \in k + 2..Len(m) + 1 /\ k + 1 \in 1..Len(m)
      /\ \A j \in k + 1..e - 1 : m[j] \notin Wild
  <2>1. e \in k + 1..Len(m) + 1 /\ \A j \in k + 1..e - 1 : m[j] \notin Wild
    BY <1>1, TokenEnds
  <2> QED
    BY <1>1, <2>1
<1>3. t[e] = t[k + 1] + (e - (k + 1)) /\ Occurs(s, t[k + 1], m, k + 1, e)
  BY <1>2, Spelled
<1>4. t[k] \in Int /\ t[k + 1] \in Int /\ t[k] <= t[k + 1]
  <2>1. t[k] \in 1..Len(s) + 1 /\ t[k + 1] \in 1..Len(s) + 1
    BY <1>1 DEF Track
  <2>2. t[k] <= t[k + 1]
    BY <1>1, <2>1 DEF Fits
  <2> QED
    BY <1>1, <2>1, <2>2
<1>5. t[k + 1] \in i..Len(s)
  BY <1>1, <1>2, <1>3, <1>4 DEF Occurs
<1>6. Found(s, i, m, k + 1, e)
  BY <1>3, <1>5 DEF Found
<1>7. h \in i..Len(s) /\ \A j \in i..h - 1 : ~Occurs(s, j, m, k + 1, e)
  BY <1>6, Places
<1> HIDE DEF h
<1>8. h <= t[k + 1]
  BY <1>1, <1>3, <1>5, <1>7
<1>9. h + (e - (k + 1)) <= t[e]
  <2>1. \A a, b, c \in Int : a <= b => a + c <= b + c
    OBVIOUS
  <2>2. h \in Int /\ e - (k + 1) \in Int
    BY <1>1, <1>2, <1>7
  <2>3. h + (e - (k + 1)) <= t[k + 1] + (e - (k + 1))
    BY <1>4, <1>8, <2>1, <2>2
  <2> QED
    BY <1>3, <2>3
<1> QED
  BY <1>6, <1>9 DEF After, h

-----------------------------------------------------------------------------
(* string_match.                                                           *)

Cursor ==
  /\ str \in Word /\ str_pos \in 1..Len(str) + 1 /\ pos \in 1..Len(mask) + 1
  /\ pc = "call" => str_pos = 1 /\ pos = 1

\* It has come to its places by the first place of each token,
Matching ==
  pc = "match" =>
    \E t \in Track(str, pos) : Greedy(str, mask, t, pos) /\ t[pos] = str_pos

\* and is not behind the places of any way in which the name fits.
Ahead(t) ==
  \/ pos = Len(mask) + 1
  \/ mask[pos] = "*" /\ str_pos <= t[pos]
  \/ str_pos = t[pos]
NotMissed ==
  pc = "match" /\ Plain(mask) =>
    \A t \in Track(str, Len(mask) + 1) : Fits(str, mask, t, Len(mask)) => Ahead(t)

MatchInv == Cursor /\ Matching /\ NotMissed /\ MatchesMask

LEMMA MatchStart ==
  ASSUME NEW s \in Word, NEW m
  PROVE  /\ \E t \in Track(s, 1) : Greedy(s, m, t, 1) /\ t[1] = 1
         /\ \A u \in Track(s, Len(m) + 1) : u[1] = 1
<1> DEFINE t == [j \in 1..1 |-> 1]
<1>1. t \in Track(s, 1) /\ t[1] = 1 /\ Greedy(s, m, t, 1)
  BY Words DEF Track, Greedy
<1>2. \A u \in Track(s, Len(m) + 1) : u[1] = 1
  BY DEF Track
<1> QED
  BY <1>1, <1>2

\* What it answers.
LEMMA AnswersTrue ==
  ASSUME Flags, Cursor, Matching, pc = "match", Plain(mask),
         \/ pos > Len(mask)
         \/ str_pos > Len(str)
         \/ mask[pos] = "*" /\ TokenEnd(mask, pos + 1) = pos + 1
  PROVE  \/ Glob(str, Append(mask, "*"))
         \/ \E k \in 0..Len(mask) :
              (k = 0 \/ mask[k] # "*") /\ Glob(str, SubSeq(mask, 1, k))
<1>1. mask \in Word /\ str \in Word /\ Len(mask) \in Nat /\ Len(str) \in Nat
  BY Words DEF Flags, Cursor
<1>2. pos \in 1..Len(mask) + 1 /\ str_pos \in 1..Len(str) + 1
  BY DEF Cursor
<1>3. PICK t \in Track(str, pos) : Greedy(str, mask, t, pos) /\ t[pos] = str_pos
  BY DEF Matching
<1>4. CASE pos > Len(mask)
  BY <1>1, <1>2, <1>3, <1>4, GlobGoesOn
<1>5. CASE str_pos > Len(str)
  <2>1. str_pos = Len(str) + 1
    BY <1>1, <1>2, <1>5
  <2> QED
    BY <1>1, <1>2, <1>3, <2>1, GlobGoneOn
<1>6. CASE pos <= Len(mask) /\ mask[pos] = "*" /\ TokenEnd(mask, pos + 1) = pos + 1
  <2>1. pos = Len(mask)
    <3> SUFFICES ASSUME pos # Len(mask) PROVE FALSE
      OBVIOUS
    <3>1. pos \in DOMAIN mask /\ pos + 1 \in DOMAIN mask /\ pos < pos + 1 /\ pos + 1 \in 1..Len(mask) + 1
      BY <1>1, <1>2, <1>6 DEF Word
    <3>2. mask[pos + 1] \in Wild
      BY <1>1, <1>6, <3>1, TokenEnds
    <3>3. mask[pos + 1] # "?" /\ (mask[pos + 1] = "*" => pos + 1 > pos + 1)
      BY <1>6, <3>1 DEF Plain
    <3> QED
      BY <1>2, <3>2, <3>3 DEF Wild
  <2> QED
    BY <1>1, <1>2, <1>3, <1>6, <2>1, GlobGoesOn
<1> QED
  BY <1>1, <1>2, <1>4, <1>5, <1>6

LEMMA AnswersFalse ==
  ASSUME Flags, Cursor, NotMissed, pc = "match", Plain(mask),
         pos <= Len(mask), str_pos <= Len(str),
         \/ /\ mask[pos] = "*" /\ TokenEnd(mask, pos + 1) # pos + 1
            /\ ~Found(str, str_pos, mask, pos + 1, TokenEnd(mask, pos + 1))
         \/ mask[pos] # "*" /\ mask[pos] \notin {"?", str[str_pos]}
  PROVE  ~Glob(str, mask)
<1> SUFFICES ASSUME NEW t \in Track(str, Len(mask) + 1), Fits(str, mask, t, Len(mask)) PROVE FALSE
  BY DEF Glob
<1>1. mask \in Word /\ str \in Word /\ Len(mask) \in Nat /\ Len(str) \in Nat
  BY Words DEF Flags, Cursor
<1>2. pos \in 1..Len(mask) /\ str_pos \in 1..Len(str) + 1
  BY <1>1 DEF Cursor
<1>3. Ahead(t)
  BY DEF NotMissed
<1>4. CASE mask[pos] = "*"
  <2>1. str_pos <= t[pos]
    BY <1>1, <1>2, <1>3, <1>4 DEF Ahead
  <2>2. TokenEnd(mask, pos + 1) # pos + 1
        /\ ~Found(str, str_pos, mask, pos + 1, TokenEnd(mask, pos + 1))
    BY <1>4
  <2> QED
    BY <1>1, <1>2, <1>4, <2>1, <2>2, TokenReached
<1>5. CASE mask[pos] # "*"
  BY <1>1, <1>2, <1>3, <1>5 DEF Ahead, Fits
<1> QED
  BY <1>4, <1>5

\* What a comparison that goes on leaves.
LEMMA ComparesOne ==
  ASSUME Flags, Cursor, Matching, NotMissed, [Next]_vars, pc = "match",
         pos <= Len(mask), str_pos <= Len(str),
         mask[pos] # "*", mask[pos] \in {"?", str[str_pos]}, Compare(str_pos + 1, pos + 1)
  PROVE  Cursor' /\ Matching' /\ NotMissed'
<1>1. mask \in Word /\ str \in Word /\ Len(mask) \in Nat /\ Len(str) \in Nat
  BY Words DEF Flags, Cursor
<1>2. pos \in 1..Len(mask) /\ str_pos \in 1..Len(str) + 1
  BY <1>1 DEF Cursor
<1>3. mask' = mask /\ str' = str /\ pc' = pc /\ str_pos' = str_pos + 1 /\ pos' = pos + 1
  BY InputKept DEF Compare
<1>4. Cursor'
  BY <1>1, <1>2, <1>3 DEF Cursor
<1>5. PICK t \in Track(str, pos) : Greedy(str, mask, t, pos) /\ t[pos] = str_pos
  BY DEF Matching
<1>6. \E u \in Track(str, pos + 1) : Greedy(str, mask, u, pos + 1) /\ u[pos + 1] = str_pos + 1
  BY <1>1, <1>2, <1>5, OneGrows
<1>7. Matching'
  BY <1>3, <1>6 DEF Matching
<1>8. ASSUME Plain(mask), NEW u \in Track(str, Len(mask) + 1), Fits(str, mask, u, Len(mask))
      PROVE  str_pos + 1 = u[pos + 1]
  <2>1. Ahead(u)
    BY <1>8 DEF NotMissed
  <2>2. u[pos] = str_pos
    BY <1>1, <1>2, <2>1 DEF Ahead
  <2>3. u[pos + 1] = u[pos] + 1
    BY <1>2, <1>8 DEF Fits
  <2> QED
    BY <2>2, <2>3
<1>9. NotMissed'
  BY <1>3, <1>8 DEF NotMissed, Ahead
<1> QED
  BY <1>4, <1>7, <1>9

LEMMA ComparesToken ==
  ASSUME Flags, Cursor, Matching, NotMissed, [Next]_vars, pc = "match",
         pos <= Len(mask), str_pos <= Len(str), mask[pos] = "*",
         NEW e, e = TokenEnd(mask, pos + 1), e # pos + 1, Found(str, str_pos, mask, pos + 1, e),
         Compare(After(str, str_pos, mask, pos + 1, e), e)
  PROVE  Cursor' /\ Matching' /\ NotMissed'
<1> DEFINE i == After(str, str_pos, mask, pos + 1, e)
<1>1. mask \in Word /\ str \in Word /\ Len(mask) \in Nat /\ Len(str) \in Nat
  BY Words DEF Flags, Cursor
<1>2. pos \in 1..Len(mask) /\ str_pos \in 1..Len(str) + 1
  BY <1>1 DEF Cursor
<1>3. mask' = mask /\ str' = str /\ pc' = pc /\ str_pos' = i /\ pos' = e
  BY InputKept DEF Compare
<1>4. PICK t \in Track(str, pos) : Greedy(str, mask, t, pos) /\ t[pos] = str_pos
  BY DEF Matching
<1>5. /\ e \in pos + 2..Len(mask) + 1 /\ i \in 1..Len(str) + 1
      /\ \E u \in Track(str, e) : Greedy(str, mask, u, e) /\ u[e] = i
  BY <1>1, <1>2, <1>4, StarGrows
<1> HIDE DEF i
<1>6. Cursor'
  BY <1>1, <1>2, <1>3, <1>5 DEF Cursor
<1>7. Matching'
  BY <1>3, <1>5 DEF Matching
<1>8. ASSUME Plain(mask), NEW u \in Track(str, Len(mask) + 1), Fits(str, mask, u, Len(mask))
      PROVE  e = Len(mask) + 1 \/ (mask[e] = "*" /\ i <= u[e])
  <2>1. Ahead(u)
    BY <1>8 DEF NotMissed
  <2>2. str_pos <= u[pos]
    BY <1>1, <1>2, <2>1 DEF Ahead
  <2>3. i <= u[e]
    BY <1>1, <1>2, <1>8, <2>2, TokenReached DEF i
  <2>4. CASE e # Len(mask) + 1
    <3>1. pos + 1 \in 1..Len(mask) + 1 /\ e <= Len(mask)
      BY <1>1, <1>2, <1>5, <2>4
    <3>2. mask[e] \in Wild
      BY <1>1, <3>1, TokenEnds
    <3>3. pos \in DOMAIN mask /\ e \in DOMAIN mask /\ pos < e
      BY <1>1, <1>2, <1>5, <3>1 DEF Word
    <3>4. mask[e] # "?"
      BY <1>8, <3>3 DEF Plain
    <3> QED
      BY <2>3, <3>2, <3>4 DEF Wild
  <2> QED
    BY <2>4
<1>9. NotMissed'
  BY <1>3, <1>8 DEF NotMissed, Ahead
<1> QED
  BY <1>6, <1>7, <1>9

LEMMA MatchInvInit == Init => MatchInv
<1> SUFFICES ASSUME Init PROVE MatchInv
  OBVIOUS
<1>1. str_pos = 1 /\ pos = 1 /\ pc = "call"
  BY DEF Init
<1>2. str \in Word /\ mask \in Word
  BY FlagsInit, SearchAssumption, EmptySeq DEF Init, Word, Flags
<1>3. Cursor
  BY <1>1, <1>2, Words DEF Cursor
<1> QED
  BY <1>1, <1>3 DEF MatchInv, MatchesMask, Matching, NotMissed

LEMMA MatchInvNext ==
  ASSUME Flags, Contents, Frames, MatchInv, [Next]_vars
  PROVE  MatchInv'
<1>1. op' = op /\ mask' = mask
  BY InputKept
<1>2. Cursor /\ Matching /\ NotMissed /\ MatchesMask /\ str \in Word
  BY DEF MatchInv, Cursor
<1>3. ASSUME UNCHANGED matching, pc' # "match", pc' # "call" \/ pc = "call",
             pc' = "done" => op # "string_match" \/ pc = "done"
      PROVE  MatchInv'
  <2>1. str' = str /\ str_pos' = str_pos /\ pos' = pos /\ matched' = matched
    BY <1>3 DEF matching
  <2>2. Cursor' /\ Matching' /\ NotMissed'
    BY <1>1, <1>2, <1>3, <2>1 DEF Cursor, Matching, NotMissed
  <2>3. MatchesMask'
    BY <1>1, <1>2, <1>3, <2>1, Zenon DEF MatchesMask
  <2> QED
    BY <2>2, <2>3 DEF MatchInv
<1>4. ASSUME NEW b \in BOOLEAN, pc = "match", Answer(b),
             Plain(mask) =>
               IF b
               THEN \/ Glob(str, Append(mask, "*"))
                    \/ \E k \in 0..Len(mask) :
                         (k = 0 \/ mask[k] # "*") /\ Glob(str, SubSeq(mask, 1, k))
               ELSE ~Glob(str, mask)
      PROVE  MatchInv'
  <2>1. /\ str' = str /\ str_pos' = str_pos /\ pos' = pos /\ pc' \in {"done", "find"}
    BY <1>4 DEF Answer
  <2>2. Cursor' /\ Matching' /\ NotMissed'
    BY <1>1, <1>2, <2>1 DEF Cursor, Matching, NotMissed
  <2>3. matched' = b
    BY <1>4 DEF Answer
  <2>4. MatchesMask'
    BY <1>1, <1>4, <2>1, <2>3, Zenon DEF MatchesMask
  <2> QED
    BY <2>2, <2>4 DEF MatchInv
<1>5. ASSUME Cursor', Matching', NotMissed', pc' = "match" PROVE MatchInv'
  BY <1>5 DEF MatchInv, MatchesMask
<1>6. CASE Match
  <2>1. pc = "call" /\ pc' = "match" /\ str' = str /\ str_pos' = str_pos /\ pos' = pos
    BY <1>6 DEF Match, matching
  <2>2. Cursor' /\ str_pos' = 1 /\ pos' = 1
    BY <1>1, <1>2, <2>1 DEF Cursor
  <2>3. Matching' /\ NotMissed'
    BY <1>1, <1>2, <2>1, <2>2, MatchStart DEF Matching, NotMissed, Ahead
  <2> QED
    BY <1>5, <2>1, <2>2, <2>3
<1>7. CASE MatchEnds
  BY <1>2, <1>4, <1>7, AnswersTrue DEF MatchEnds
<1>8. CASE MatchStar
  <2> DEFINE e == TokenEnd(mask, pos + 1)
  <2>1. pc = "match" /\ pos <= Len(mask) /\ str_pos <= Len(str) /\ mask[pos] = "*"
    BY <1>8 DEF MatchStar
  <2>2. CASE e = pos + 1 /\ Answer(TRUE)
    BY <1>2, <1>4, <2>1, <2>2, AnswersTrue
  <2>3. CASE e # pos + 1 /\ ~Found(str, str_pos, mask, pos + 1, e) /\ Answer(FALSE)
    BY <1>2, <1>4, <2>1, <2>3, AnswersFalse
  <2>4. CASE /\ e # pos + 1 /\ Found(str, str_pos, mask, pos + 1, e)
             /\ Compare(After(str, str_pos, mask, pos + 1, e), e)
    <3>1. Cursor' /\ Matching' /\ NotMissed'
      BY <1>2, <2>1, <2>4, ComparesToken
    <3>2. pc' = "match"
      BY <2>1, <2>4 DEF Compare
    <3> QED
      BY <1>5, <3>1, <3>2
  <2> QED
    BY <1>8, <2>2, <2>3, <2>4 DEF MatchStar
<1>9. CASE MatchOne
  <2>1. pc = "match" /\ pos <= Len(mask) /\ str_pos <= Len(str) /\ mask[pos] # "*"
    BY <1>9 DEF MatchOne
  <2>2. CASE mask[pos] \in {"?", str[str_pos]} /\ Compare(str_pos + 1, pos + 1)
    <3>1. Cursor' /\ Matching' /\ NotMissed'
      BY <1>2, <2>1, <2>2, ComparesOne
    <3>2. pc' = "match"
      BY <2>1, <2>2 DEF Compare
    <3> QED
      BY <1>5, <3>1, <3>2
  <2>3. CASE mask[pos] \notin {"?", str[str_pos]} /\ Answer(FALSE)
    BY <1>2, <1>4, <2>1, <2>3, AnswersFalse
  <2> QED
    BY <1>9, <2>2, <2>3 DEF MatchOne
<1>10. CASE AskFile
  <2>1. PICK p \in Left : /\ pc' = "match" /\ str' = Last(p) /\ str_pos' = 1 /\ pos' = 1
                          /\ pc = "find"
    BY <1>10 DEF AskFile, Left
  <2>2. Last(p) \in Word
    <3>1. p \in Path /\ p # <<>>
      BY <2>1, FoundNext, Foremost
    <3> QED
      BY <3>1, Paths
  <2>3. Cursor'
    BY <1>1, <2>1, <2>2, Words DEF Cursor, Flags
  <2>4. Matching' /\ NotMissed'
    BY <1>1, <2>1, <2>2, MatchStart DEF Matching, NotMissed, Ahead
  <2> QED
    BY <1>5, <2>1, <2>3, <2>4
<1>11. CASE Call \/ SkipDir \/ EnterDir \/ PutFile
  BY <1>3, <1>11 DEF Call, SkipDir, EnterDir, PutFile, Enter, Left, Flags
<1>12. CASE Return \/ Unwind \/ Failed \/ DeleteNext \/ Cleaned \/ UserAdds \/ Done
  BY <1>3, <1>12 DEF Return, Unwind, Failed, DeleteNext, Cleaned, UserAdds, Done, vars, Flags
<1>13. CASE UNCHANGED vars
  <2>1. UNCHANGED <<op, mask, str, str_pos, pos, matched, pc>>
    BY <1>1, <1>13 DEF vars, matching
  <2>2. Cursor' /\ Matching' /\ NotMissed'
    BY <1>2, <2>1 DEF Cursor, Matching, NotMissed, Ahead
  <2>3. MatchesMask'
    BY <1>2, <2>1, Zenon DEF MatchesMask
  <2> QED
    BY <2>2, <2>3 DEF MatchInv
<1> QED
  BY <1>6, <1>7, <1>8, <1>9, <1>10, <1>11, <1>12, <1>13 DEF Next

-----------------------------------------------------------------------------
(* What a step of a search leaves to be found.                             *)

\* An entry has been found: nothing under it is awaited any more.
LEMMA AfterFound ==
  ASSUME Flags, Contents, Frames, Apart, pc = "find", NEW p \in Left, stack' = Without(p),
         missed' = missed
  PROVE  /\ \A r \in before : Pending(r)' <=> Pending(r) /\ ~Under(p, r)
         /\ \A r \in before : Awaits(stack', r) => Awaits(stack, r)
         /\ \A r \in before : Under(p, r) => Pending(r)
         /\ \A r : (\E i \in 1..Len(stack') : stack'[i].dir = r) <=> Open(r)
         /\ Last(stack').dir = Last(stack).dir
<1>1. /\ stack # <<>> /\ Last(stack) = stack[Len(stack)] /\ stack' = Cut(stack, p)
      /\ p \in stack[Len(stack)].left
      /\ IsTree(before) /\ Nested(stack) /\ Len(stack) \in Nat /\ Len(stack) >= 1
  BY FoundNext
<1>2. \A r \in before : /\ Awaits(stack, r) <=> Awaits(stack', r) \/ Under(p, r)
                        /\ ~(Awaits(stack', r) /\ Under(p, r))
  BY <1>1, CutAwaits
<1>3. /\ Len(stack') = Len(stack)
      /\ \A i \in 1..Len(stack) : stack'[i].dir = stack[i].dir
  BY <1>1, CutIs
<1>4. Last(stack').dir = Last(stack).dir
  BY <1>1, <1>3 DEF Last
<1>5. \A r : Lost(r)' <=> Lost(r)
  BY DEF Lost
<1>6. \A r \in before : Under(p, r) => ~Lost(r)
  BY <1>2 DEF Apart
<1> QED
  BY <1>2, <1>3, <1>4, <1>5, <1>6 DEF Pending, Open

\* A directory has been entered: it is what is not awaited any more.
LEMMA AfterEntered ==
  ASSUME Flags, Contents, Frames, Apart, pc = "find", NEW p \in Left, Enters(p),
         p \notin unreadable, missed' = missed,
         stack' = Append(Without(p), [dir |-> p, left |-> Children(tree, p)])
  PROVE  /\ \A r \in before : Pending(r)' <=> Pending(r) /\ r # p
         /\ \A r \in before : Awaits(stack', r) => Awaits(stack, r)
         /\ Pending(p)
         /\ \A r : (\E i \in 1..Len(stack') : stack'[i].dir = r) <=> Open(r) \/ r = p
<1> DEFINE w == Cut(stack, p)
<1>1. /\ stack # <<>> /\ Without(p) = w /\ tree = before
      /\ p \in stack[Len(stack)].left
      /\ IsTree(before) /\ Nested(stack) /\ Len(stack) \in Nat /\ Len(stack) >= 1
  BY FoundNext
<1>2. \A r \in before : /\ Awaits(stack, r) <=> Awaits(w, r) \/ Under(p, r)
                        /\ ~(Awaits(w, r) /\ Under(p, r))
  BY <1>1, CutAwaits
<1>3. /\ p \in before /\ p \in Path /\ p # <<>> /\ Len(p) = Len(stack)
      /\ \A j \in 1..Len(stack) : SubSeq(p, 1, j - 1) = stack[j].dir
  BY <1>1, Foremost
<1>4. p \in Dirs
  BY EnteredNext
<1>5. /\ Nested(w) /\ Len(w) = Len(stack)
      /\ \A i \in 1..Len(stack) : w[i].dir = stack[i].dir
      /\ w[Len(stack)].left = stack[Len(stack)].left \ {p}
  BY <1>1, CutNested, CutIs
<1>6. stack' = Append(w, [dir |-> p, left |-> Children(before, p)])
  BY <1>1
<1> HIDE DEF w
<1>7. /\ Len(stack') = Len(w) + 1 /\ stack'[Len(w) + 1].dir = p
      /\ \A i \in 1..Len(w) : stack'[i] = w[i]
      /\ \A r \in before : Awaits(stack', r) <=> Awaits(w, r) \/ p = <<>> \/ p \in Above(r)
  <2>1. /\ Len(p) = Len(w) /\ p \notin w[Len(w)].left
        /\ \A j \in 1..Len(w) : SubSeq(p, 1, j - 1) = w[j].dir
    BY <1>3, <1>5
  <2>2. IsTree(before) /\ Nested(w) /\ p \in Dirs /\ p \in Path
    BY <1>1, <1>3, <1>4, <1>5
  <2>3. LET v == Append(w, [dir |-> p, left |-> Children(before, p)])
        IN  /\ Nested(v) /\ Len(v) = Len(w) + 1 /\ v[Len(w) + 1].dir = p
            /\ \A i \in 1..Len(w) : v[i] = w[i]
            /\ \A r \in before : Awaits(v, r) <=> Awaits(w, r) \/ p = <<>> \/ p \in Above(r)
    BY <2>1, <2>2, Deeper
  <2> QED
    BY <1>6, <2>3, Zenon
<1>8. p \notin Above(p)
  BY <1>3, AboveIs
<1>9. ASSUME NEW r \in before
      PROVE  (Pending(r)' <=> Pending(r) /\ r # p) /\ (Awaits(stack', r) => Awaits(stack, r))
  <2>1. Awaits(stack', r) <=> Awaits(stack, r) /\ r # p
    BY <1>2, <1>3, <1>7, <1>8 DEF Under
  <2>2. Lost(r)' <=> Lost(r)
    BY DEF Lost
  <2>3. r = p => ~Lost(r)
    BY <1>2, <1>3 DEF Apart, Under
  <2> QED
    BY <2>1, <2>2, <2>3 DEF Pending
<1>10. ASSUME NEW r
       PROVE  (\E i \in 1..Len(stack') : stack'[i].dir = r) <=> Open(r) \/ r = p
  <2>1. \A i \in 1..Len(stack') : i \in 1..Len(stack) \/ i = Len(stack) + 1
    BY <1>1, <1>5, <1>7
  <2>2. Len(stack) + 1 \in 1..Len(stack') /\ \A i \in 1..Len(stack) : i \in 1..Len(stack')
    BY <1>1, <1>5, <1>7
  <2>3. stack'[Len(stack) + 1].dir = p /\ \A i \in 1..Len(stack) : stack'[i].dir = stack[i].dir
    BY <1>5, <1>7
  <2> QED
    BY <2>1, <2>2, <2>3 DEF Open
<1>11. Pending(p)
  BY <1>2, <1>3 DEF Pending, Under
<1> QED
  BY <1>9, <1>10, <1>11

\* The first call: everything is to be found.
LEMMA AfterCalled ==
  ASSUME Contents, NEW w, w = <<[dir |-> <<>>, left |-> Children(before, <<>>)]>>
  PROVE  /\ \A r \in before : Awaits(w, r)
         /\ \A r : (\E i \in 1..Len(w) : w[i].dir = r) <=> r = <<>>
<1>1. Len(w) = 1 /\ w[1].dir = <<>> /\ w[1].left = Children(before, <<>>)
  OBVIOUS
<1>2. IsTree(before) /\ <<>> \in Path
  BY RootEntered DEF Contents
<1>3. ASSUME NEW r \in before PROVE Awaits(w, r)
  <2>1. PICK q \in Children(before, <<>>) : Under(q, r)
    BY <1>2, Covers
  <2>2. 1 \in 1..Len(w)
    BY <1>1
  <2> QED
    BY <1>1, <2>1, <2>2 DEF Awaits
<1> QED
  BY <1>1, <1>3

\* A call has returned: its directory is not open any more, and what it did
\* not find is lost.
LEMMA AfterReturned ==
  ASSUME Flags, Contents, Frames, Apart, pc = "find", stack' = Front(stack),
         missed' = missed \cup Left
  PROVE  /\ \A r : Pending(r)' <=> Pending(r)
         /\ \A r : (\E i \in 1..Len(stack') : stack'[i].dir = r)
                   <=> Open(r) /\ r # Last(stack).dir
         /\ Open(Last(stack).dir) /\ Last(stack).dir \in Dirs
         /\ Last(stack).dir \in before => ~Pending(Last(stack).dir)
         /\ \A r \in Above(Last(stack).dir) : Open(r)
<1>1. stack # <<>> /\ Nested(stack) /\ IsTree(before)
  BY DEF Flags, Contents, Frames
<1>2. Len(stack) \in Nat /\ Len(stack) >= 1 /\ Last(stack) = stack[Len(stack)]
  BY <1>1, Foremost
<1>3. stack[Len(stack)].left = Left
  BY <1>2 DEF Left
<1>4. /\ Len(stack') = Len(stack) - 1
      /\ \A i \in 1..Len(stack) - 1 : stack'[i] = stack[i]
      /\ \A r : Awaits(stack, r) <=> Awaits(stack', r) \/ \E q \in Left : Under(q, r)
  BY <1>1, <1>3, Shallower
<1>5. \A i \in 1..Len(stack) : Len(stack[i].dir) = i - 1
  BY <1>1 DEF Nested
<1>6. Len(stack) \in 1..Len(stack)
  BY <1>2
<1>7. \A i \in 1..Len(stack) - 1 : i \in 1..Len(stack) /\ stack[i].dir # stack[Len(stack)].dir
  <2> SUFFICES ASSUME NEW i \in 1..Len(stack) - 1
               PROVE  i \in 1..Len(stack) /\ stack[i].dir # stack[Len(stack)].dir
    OBVIOUS
  <2>1. i \in 1..Len(stack) /\ i - 1 # Len(stack) - 1
    BY <1>2
  <2>2. Len(stack[i].dir) = i - 1 /\ Len(stack[Len(stack)].dir) = Len(stack) - 1
    BY <1>5, <1>6, <2>1
  <2> QED
    BY <2>1, <2>2
<1>8. \A i \in 1..Len(stack) : i \in 1..Len(stack) - 1 \/ i = Len(stack)
  BY <1>2
<1>9. ASSUME NEW r
      PROVE  (\E i \in 1..Len(stack') : stack'[i].dir = r) <=> Open(r) /\ r # Last(stack).dir
  BY <1>2, <1>4, <1>7, <1>8 DEF Open
<1>10. Open(Last(stack).dir) /\ Last(stack).dir \in Dirs /\ Last(stack).dir \in Path
  BY <1>1, <1>2, <1>6, Foremost DEF Open, Nested
<1>11. ASSUME Last(stack).dir \in before PROVE ~Pending(Last(stack).dir)
  <2>1. ~Awaits(stack, Last(stack).dir)
    BY <1>1, <1>2, <1>6, RunningNotAwaited
  <2>2. ~Lost(Last(stack).dir)
    BY <1>10, <1>11 DEF Apart
  <2> QED
    BY <2>1, <2>2 DEF Pending
<1>12. ASSUME NEW r \in Above(Last(stack).dir) PROVE Open(r)
  <2> DEFINE d == Last(stack).dir
  <2>1. Len(d) = Len(stack) - 1 /\ d \in Path /\ d = stack[Len(stack)].dir
    BY <1>2, <1>5, <1>6, <1>10
  <2>2. \A j \in 1..Len(stack) : SubSeq(d, 1, j - 1) = stack[j].dir
    BY <1>1, <1>6, <2>1 DEF Nested
  <2>3. \A j \in 1..Len(d) : j \in 1..Len(stack)
    BY <1>2, <2>1
  <2> HIDE DEF d
  <2>4. \E i \in 1..Len(d) : stack[i].dir = r
    BY <1>12, <2>1, <2>2, <2>3, AboveRunning DEF d
  <2> QED
    BY <2>3, <2>4 DEF Open
<1>13. ASSUME NEW r PROVE Pending(r)' <=> Pending(r)
  <2>1. Lost(r)' <=> Lost(r) \/ \E q \in Left : Under(q, r)
    BY DEF Lost, Under
  <2> QED
    BY <1>4, <2>1 DEF Pending
<1> QED
  BY <1>9, <1>10, <1>11, <1>12, <1>13

\* What is lost stays apart from what is still to be found.
LEMMA ApartInit == Init => Apart
BY DEF Init, Apart, Lost

LEMMA ApartNext ==
  ASSUME Flags, Contents, Frames, Apart, [Next]_vars
  PROVE  Apart'
<1>1. before' = before
  BY InputKept
<1>2. ASSUME pc' # "call", missed' = missed,
             \A r \in before : Awaits(stack', r) => Awaits(stack, r),
             \A r \in before :
               (\E i \in 1..Len(stack') : stack'[i].dir = r) => Open(r) \/ Awaits(stack, r)
      PROVE  Apart'
  <2>1. \A r : Lost(r)' <=> Lost(r)
    BY <1>2 DEF Lost
  <2> QED
    BY <1>1, <1>2, <2>1 DEF Apart, Open
<1>3. ASSUME pc' # "call" \/ pc = "call", UNCHANGED <<missed, stack>> PROVE Apart'
  <2>1. \A r : Lost(r)' <=> Lost(r)
    BY <1>3 DEF Lost
  <2> QED
    BY <1>1, <1>3, <2>1 DEF Apart, Open
<1>4. CASE Call
  <2>1. pc = "call" /\ missed' = {} /\ pc' # "call"
    BY <1>4 DEF Call, Enter, Apart
  <2> QED
    BY <2>1 DEF Apart, Lost
<1>5. ASSUME NEW p \in Left, pc = "find", stack' = Without(p), missed' = missed, pc' # "call"
      PROVE  Apart'
  BY <1>2, <1>5, AfterFound
<1>6. CASE SkipDir \/ AskFile \/ PutFile
  BY <1>5, <1>6 DEF SkipDir, AskFile, PutFile, Left
<1>7. CASE EnterDir
  <2>1. PICK p \in Left : /\ Enters(p) /\ Enter(Without(p), p) /\ pc = "find"
                          /\ missed' = missed
    BY <1>7 DEF EnterDir, Left
  <2>2. CASE stack' = Without(p) /\ pc' = "error"
    BY <1>5, <2>1, <2>2
  <2>3. CASE /\ pc' = "find" /\ p \notin unreadable
             /\ stack' = Append(Without(p), [dir |-> p, left |-> Children(tree, p)])
    <3>1. /\ \A r \in before : Awaits(stack', r) => Awaits(stack, r)
          /\ \A r : (\E i \in 1..Len(stack') : stack'[i].dir = r) <=> Open(r) \/ r = p
      BY <2>1, <2>3, AfterEntered
    <3>2. Awaits(stack, p)
      BY <2>1, FoundNext DEF Awaits, Under
    <3> QED
      BY <1>2, <2>1, <2>3, <3>1, <3>2
  <2>4. FindError(p) = 0 => p \notin unreadable
    BY DEF FindError
  <2> QED
    BY <2>1, <2>2, <2>3, <2>4 DEF Enter
<1>8. ASSUME stack # <<>>, stack' = Front(stack)
      PROVE  /\ \A r : Awaits(stack', r) => Awaits(stack, r)
             /\ \A r : (\E i \in 1..Len(stack') : stack'[i].dir = r) => Open(r)
  <2>1. /\ Len(stack') = Len(stack) - 1 /\ Len(stack) \in Nat
        /\ \A i \in 1..Len(stack) - 1 : stack'[i] = stack[i]
        /\ \A r : Awaits(stack', r) => Awaits(stack, r)
    <3>1. Nested(stack) /\ Len(stack) \in Nat
      BY DEF Frames, Nested
    <3> QED
      BY <1>8, <3>1, Shallower
  <2>2. \A i \in 1..Len(stack) - 1 : i \in 1..Len(stack)
    BY <2>1
  <2> QED
    BY <2>1, <2>2 DEF Open
<1>9. CASE Unwind
  <2>1. stack # <<>> /\ stack' = Front(stack) /\ missed' = missed /\ pc' # "call"
    BY <1>9 DEF Unwind
  <2> QED
    BY <1>2, <1>8, <2>1
<1>10. CASE Return
  <2>1. /\ pc = "find" /\ stack' = Front(stack) /\ missed' = missed \cup Left
        /\ pc' # "call"
    BY <1>10 DEF Return
  <2>2. /\ stack # <<>> /\ Nested(stack) /\ IsTree(before) /\ Len(stack) \in Nat
        /\ Len(stack) >= 1 /\ Last(stack) = stack[Len(stack)]
    BY <2>1, Foremost DEF Flags, Frames, Contents
  <2>3. Left = stack[Len(stack)].left
    BY <2>1, <2>2 DEF Left
  <2>4. ASSUME NEW r \in before, NEW q \in Left, Under(q, r)
        PROVE  ~Awaits(stack', r) /\ ~Open(r)
    <3>1. Awaits(stack, r)
      BY <2>2, <2>3, <2>4, CutAwaits
    <3>2. ~Open(r)
      BY <2>2, <3>1, RunningNotAwaited DEF Open
    <3>3. ~Awaits(Cut(stack, q), r)
      BY <2>2, <2>3, <2>4, CutAwaits
    <3>4. /\ Len(Cut(stack, q)) = Len(stack)
          /\ \A i \in 1..Len(stack) - 1 : Cut(stack, q)[i].left = stack[i].left
      BY <2>2, <2>3, CutIs
    <3>5. /\ Len(stack') = Len(stack) - 1
          /\ \A i \in 1..Len(stack) - 1 : stack'[i] = stack[i] /\ i \in 1..Len(stack)
      BY <2>1, <2>2, Shallower
    <3> QED
      BY <3>2, <3>3, <3>4, <3>5 DEF Awaits
  <2>5. \A r : Lost(r)' <=> Lost(r) \/ \E q \in Left : Under(q, r)
    BY <2>1 DEF Lost, Under
  <2>6. \A r \in before : Lost(r)' => ~Awaits(stack', r) /\ ~Open(r)'
    BY <1>8, <2>1, <2>2, <2>4, <2>5 DEF Apart, Open
  <2> QED
    BY <1>1, <2>1, <2>6 DEF Apart
<1>11. CASE UNCHANGED vars \/ Match \/ MatchEnds \/ MatchStar \/ MatchOne
  BY <1>3, <1>11 DEF vars, Match, MatchEnds, MatchStar, MatchOne, Answer, Compare, calls
<1>12. CASE Failed \/ DeleteNext \/ Cleaned \/ UserAdds \/ Done
  BY <1>3, <1>12 DEF Failed, DeleteNext, Cleaned, UserAdds, Done, vars, calls
<1> QED
  BY <1>4, <1>6, <1>7, <1>9, <1>10, <1>11, <1>12 DEF Next

\* A directory that is reached is entered and not lost.
LEMMA ReachedIs ==
  /\ <<>> \in Reached
  /\ \A p : p \in Reached <=> p \in Dirs /\ (p = <<>> \/ (p \in before /\ ~Lost(p)))
BY DEF Reached, Entered, Dirs

\* Where a file is not lost, its directory is not.
LEMMA ParentReached ==
  ASSUME Contents, NEW p \in before, ~Lost(p)
  PROVE  Parent(p) \in Dirs <=> Parent(p) \in Reached
<1>1. p \in Path /\ p # <<>>
  BY DEF Contents, IsTree, IsPlace
<1>2. ASSUME Parent(p) # <<>>, Lost(Parent(p)) PROVE FALSE
  <2>1. Above(p) = Above(Parent(p)) \cup {Parent(p)}
    BY <1>1, <1>2, AboveParent
  <2> QED
    BY <1>2, <2>1 DEF Lost
<1> QED
  BY <1>2, ReachedIs DEF Dirs

\* A directory that is found to be entered is reached.
LEMMA FoundReached ==
  ASSUME Flags, Contents, Frames, Apart, pc = "find", NEW p \in Left, Enters(p)
  PROVE  p \in Reached
<1>1. p \in Dirs /\ p \in before
  BY EnteredNext, FoundNext, Foremost
<1>2. Awaits(stack, p)
  BY FoundNext DEF Awaits, Under
<1> QED
  BY <1>1, <1>2, ReachedIs DEF Apart

\* What lies in a directory that is not entered is not searched.
LEMMA DirsClosed ==
  ASSUME Contents, NEW r \in Dirs, r # <<>>, NEW p \in before, IsDir(p), Under(p, r)
  PROVE  p \in Dirs
<1>1. r \in before /\ ~InDotted(r)
  BY DEF Dirs
<1>2. r \in Path
  BY <1>1 DEF Contents, IsTree, IsPlace
<1>3. ~InDotted(p)
  BY <1>1, <1>2, DottedUnder
<1> QED
  BY <1>3 DEF Dirs

LEMMA Skipped ==
  ASSUME Flags, Contents, Frames, pc = "find", NEW p \in Left, IsDir(p), ~Enters(p),
         NEW r \in before, Under(p, r)
  PROVE  /\ r \notin Dirs
         /\ r # p => Parent(r) \notin Dirs
         /\ op = "file_del" => InDotted(r)
<1>1. p \in before /\ p \in Path /\ p # <<>>
  BY FoundNext, Foremost
<1>2. p \notin Dirs
  <2> SUFFICES ASSUME p \in Dirs PROVE FALSE
    OBVIOUS
  <2>1. ~InDotted(p) /\ (op = "file_search" => recursive)
    BY <1>1, Zenon DEF Dirs
  <2>2. ~IsDotted(p)
    BY <2>1 DEF InDotted
  <2> QED
    BY <2>1, <2>2, Zenon DEF Enters
<1>3. r \in Path /\ r # <<>>
  BY DEF Contents, IsTree, IsPlace
<1>4. r \notin Dirs
  BY <1>1, <1>2, <1>3, DirsClosed
<1>5. ASSUME r # p, Parent(r) \in Dirs PROVE FALSE
  <2>1. Parent(r) # <<>> /\ Under(p, Parent(r))
    BY <1>1, <1>3, <1>5, UnderParent DEF Under
  <2> QED
    BY <1>1, <1>2, <1>5, <2>1, DirsClosed
<1>6. ASSUME op = "file_del" PROVE InDotted(r)
  <2>1. IsDotted(p)
    BY <1>6 DEF Enters
  <2>2. InDotted(p)
    BY <2>1 DEF InDotted
  <2> QED
    BY <1>3, <2>2, DottedUnder
<1> QED
  BY <1>4, <1>5, <1>6

-----------------------------------------------------------------------------
(* Where the search can go.                                                *)

Succeeds    == op # "string_match" /\ pc \in {"find", "match", "clean", "done"} /\ result = 0
Openable(p) == p \notin unreadable /\ Len(p) <= MaxLevel

\* A search that has not failed has been able to open what it has passed.
Opened ==
  /\ op # "string_match" /\ pc \in {"find", "match", "clean"} => result = 0
  /\ Succeeds =>
       /\ \A p \in Dirs : Openable(p) \/ (p # <<>> /\ Pending(p))
       /\ ~(drive /\ before = {})
  /\ pc = "call" => result = 0
  /\ pc = "error" => result # 0
  /\ op # "string_match" /\ pc \in {"error", "done"} /\ result # 0 => Fails(Reached)

LEMMA FailsKept ==
  ASSUME [Next]_vars
  PROVE  /\ missed' = missed => (Fails(Reached)' <=> Fails(Reached))
         /\ (drive /\ before = {})' <=> (drive /\ before = {})
<1>1. /\ before' = before /\ op' = op /\ recursive' = recursive
      /\ drive' = drive /\ unreadable' = unreadable
  BY InputKept
<1>2. ASSUME missed' = missed PROVE Reached' = Reached
  <2>1. (op = "file_search" => recursive)' <=> (op = "file_search" => recursive)
    BY <1>1, Zenon
  <2> QED
    BY <1>1, <1>2, <2>1 DEF Reached, Entered, Lost
<1> QED
  BY <1>1, <1>2, Zenon DEF Fails

\* A call that fails to start: the search cannot succeed.
LEMMA EnterFails ==
  ASSUME Contents, tree = before, NEW p \in Reached, Len(p) = recurse_level,
         NEW s, Enter(s, p)
  PROVE  \/ pc' = "error" /\ result' # 0 /\ Fails(Reached)
         \/ /\ pc' = "find" /\ result' = result /\ Openable(p)
            /\ stack' = Append(s, [dir |-> p, left |-> Children(tree, p)])
            /\ p = <<>> => ~(drive /\ before = {})
<1>1. Len(p) \in Nat /\ MaxLevel \in Nat
  <2>1. p \in Path
    BY ReachedIs, RootEntered DEF Dirs, Contents, IsTree, IsPlace
  <2> QED
    BY <2>1, SearchAssumption DEF Path
<1>2. CASE recurse_level > MaxLevel
  <2>1. pc' = "error" /\ result' = 2
    BY <1>2 DEF Enter
  <2>2. Fails(Reached)
    BY <1>2 DEF Fails
  <2> QED
    BY <2>1, <2>2
<1>3. CASE ~(recurse_level > MaxLevel) /\ p \in unreadable
  <2>1. FindError(p) = 3
    BY <1>3 DEF FindError
  <2>2. pc' = "error" /\ result' = 3
    BY <1>3, <2>1 DEF Enter
  <2>3. Fails(Reached)
    BY <1>3 DEF Fails
  <2> QED
    BY <2>2, <2>3
<1>4. CASE /\ ~(recurse_level > MaxLevel) /\ p \notin unreadable
           /\ p = <<>> /\ drive /\ Children(tree, p) = {}
  <2>1. FindError(p) = 100
    <3>1. /\ FindError(p) = CASE p \in unreadable -> 3
                              [] p \notin unreadable /\ p = <<>> /\ drive /\ Children(tree, p) = {} -> 100
                              [] OTHER -> 0
      BY DEF FindError
    <3> QED
      BY <1>4, <3>1
  <2>2. pc' = "error" /\ result' = 100
    BY <1>4, <2>1 DEF Enter
  <2>3. before = {}
    <3> SUFFICES ASSUME NEW r \in before PROVE FALSE
      OBVIOUS
    <3>1. \E q \in Children(before, <<>>) : Under(q, r)
      BY RootEntered, Covers DEF Contents
    <3> QED
      BY <1>4, <3>1
  <2>4. Fails(Reached)
    BY <1>4, <2>3, Zenon DEF Fails
  <2> QED
    BY <2>2, <2>4
<1>5. CASE /\ ~(recurse_level > MaxLevel) /\ p \notin unreadable
           /\ ~(p = <<>> /\ drive /\ Children(tree, p) = {})
  <2>1. FindError(p) = 0
    BY <1>5 DEF FindError
  <2>2. /\ pc' = "find" /\ result' = result
        /\ stack' = Append(s, [dir |-> p, left |-> Children(tree, p)])
    BY <1>5, <2>1 DEF Enter
  <2>3. Openable(p)
    BY <1>1, <1>5 DEF Openable
  <2>4. p = <<>> => ~(drive /\ before = {})
    <3>1. before = {} => Children(tree, p) = {}
      BY DEF Children
    <3> QED
      BY <1>5, <3>1, Zenon
  <2> QED
    BY <2>2, <2>3, <2>4
<1> QED
  BY <1>2, <1>3, <1>4, <1>5

LEMMA OpenedInit == Init => Opened
<1> SUFFICES ASSUME Init PROVE Opened
  OBVIOUS
<1>1. pc = "call" /\ result = 0
  BY DEF Init
<1> QED
  BY <1>1 DEF Opened, Succeeds

LEMMA OpenedNext ==
  ASSUME Flags, Contents, Frames, Apart, Opened, [Next]_vars
  PROVE  Opened'
<1>1. /\ Dirs' = Dirs /\ unreadable' = unreadable /\ op' = op /\ before' = before
      /\ missed' = missed => (Fails(Reached)' <=> Fails(Reached))
      /\ (drive /\ before = {})' <=> (drive /\ before = {})
  BY InputKept, DirsKept, FailsKept
<1>2. ASSUME op # "string_match", pc \in {"find", "match", "clean"}, result' = result,
             pc' \in {"find", "match", "clean", "done"},
             \A p \in Dirs : p # <<>> /\ Pending(p) => Openable(p) \/ Pending(p)'
      PROVE  Opened'
  <2>1. result = 0 /\ Succeeds
    BY <1>2 DEF Opened, Succeeds
  <2>2. \A p \in Dirs : Openable(p) \/ (p # <<>> /\ Pending(p)')
    BY <1>2, <2>1 DEF Opened
  <2>3. \A p \in Dirs' : Openable(p)' \/ (p # <<>> /\ Pending(p)')
    BY <1>1, <2>2 DEF Pending, Openable
  <2>4. ~(drive /\ before = {})'
    BY <1>1, <2>1, Zenon DEF Opened
  <2> QED
    BY <1>2, <2>1, <2>3, <2>4 DEF Opened
<1>3. ASSUME pc' = "error", result' # 0, Fails(Reached), missed' = missed PROVE Opened'
  BY <1>1, <1>3 DEF Opened, Succeeds
<1>4. CASE Match \/ MatchEnds \/ MatchStar \/ MatchOne
  <2>1. UNCHANGED <<stack, result, missed>> /\ pc' \notin {"error", "call"}
    BY <1>4 DEF Match, MatchEnds, MatchStar, MatchOne, Answer, Compare, calls, Flags
  <2>2. CASE op = "string_match"
    BY <1>1, <2>1, <2>2 DEF Opened, Succeeds
  <2>3. CASE op # "string_match"
    <3>1. pc = "match" /\ pc' \in {"match", "find"}
      BY <1>4, <2>3 DEF Match, MatchEnds, MatchStar, MatchOne, Answer, Compare
    <3>2. \A p : Pending(p)' <=> Pending(p)
      BY <2>1 DEF Pending, Lost
    <3> QED
      BY <1>2, <2>1, <2>3, <3>1, <3>2
  <2> QED
    BY <2>2, <2>3
<1>5. CASE Call
  <2>1. /\ pc = "call" /\ op # "string_match" /\ Enter(stack, <<>>) /\ stack = <<>>
        /\ missed' = missed
    BY <1>5 DEF Call, Frames
  <2>2. result = 0 /\ tree = before /\ recurse_level = 0
    BY <2>1 DEF Opened, Contents, Frames
  <2>3. \/ pc' = "error" /\ result' # 0 /\ Fails(Reached)
        \/ /\ pc' = "find" /\ result' = result /\ Openable(<<>>)
           /\ stack' = Append(stack, [dir |-> <<>>, left |-> Children(tree, <<>>)])
           /\ ~(drive /\ before = {})
    BY <2>1, <2>2, RootEntered, ReachedIs, EnterFails
  <2>4. CASE pc' = "find"
    <3>1. stack' = <<[dir |-> <<>>, left |-> Children(before, <<>>)]>>
      BY <2>1, <2>2, <2>3, <2>4
    <3>2. \A r \in before : Pending(r)'
      BY <3>1, AfterCalled DEF Pending
    <3>3. \A p \in Dirs' : Openable(p)' \/ (p # <<>> /\ Pending(p)')
      BY <1>1, <2>3, <2>4, <3>2 DEF Dirs, Openable, Pending
    <3>4. ~(drive /\ before = {})'
      BY <1>1, <2>3, <2>4, Zenon
    <3>5. result' = 0
      BY <2>2, <2>3, <2>4
    <3> QED
      BY <2>4, <3>3, <3>4, <3>5 DEF Opened
  <2> QED
    BY <1>3, <2>1, <2>3, <2>4
<1>6. CASE SkipDir \/ AskFile \/ PutFile
  <2>1. PICK p \in Left : /\ stack' = Without(p) /\ pc = "find" /\ (IsDir(p) => ~Enters(p))
                          /\ UNCHANGED <<result, missed>> /\ pc' \in {"find", "match"}
    BY <1>6 DEF SkipDir, AskFile, PutFile, Left
  <2>2. op # "string_match"
    BY <2>1 DEF Flags
  <2>3. ASSUME NEW r \in Dirs, r # <<>>, Pending(r) PROVE Pending(r)'
    <3>1. r \in before /\ IsDir(r) /\ IsPlace(r)
      BY <2>3 DEF Dirs, Contents, IsTree
    <3>2. ~Under(p, r)
      <4>1. CASE IsDir(p)
        BY <2>1, <3>1, <4>1, Skipped
      <4>2. CASE ~IsDir(p)
        BY <3>1, <4>2, FileAlone
      <4> QED
        BY <4>1, <4>2
    <3> QED
      BY <2>1, <2>3, <3>1, <3>2, AfterFound
  <2> QED
    BY <1>2, <2>1, <2>2, <2>3
<1>7. CASE EnterDir
  <2>1. PICK p \in Left : /\ Enters(p) /\ Enter(Without(p), p) /\ pc = "find"
                          /\ missed' = missed
    BY <1>7 DEF EnterDir, Left
  <2>2. p \in Reached /\ tree = before /\ op # "string_match"
    BY <2>1, FoundReached, FoundNext
  <2>3. Len(p) = recurse_level
    BY <2>1, FoundNext, Foremost DEF Frames
  <2>4. \/ pc' = "error" /\ result' # 0 /\ Fails(Reached)
        \/ /\ pc' = "find" /\ result' = result /\ Openable(p)
           /\ stack' = Append(Without(p), [dir |-> p, left |-> Children(tree, p)])
    BY <2>1, <2>2, <2>3, EnterFails
  <2>5. CASE /\ pc' = "find" /\ result' = result /\ Openable(p)
             /\ stack' = Append(Without(p), [dir |-> p, left |-> Children(tree, p)])
    <3>1. \A r \in before : Pending(r)' <=> Pending(r) /\ r # p
      BY <2>1, <2>5, AfterEntered DEF Openable
    <3>2. \A r \in Dirs : r # <<>> /\ Pending(r) => Openable(r) \/ Pending(r)'
      BY <2>5, <3>1 DEF Dirs
    <3> QED
      BY <1>2, <2>1, <2>2, <2>5, <3>2
  <2> QED
    BY <1>3, <2>1, <2>4, <2>5
<1>8. CASE Return
  <2>1. /\ pc = "find" /\ stack' = Front(stack) /\ missed' = missed \cup Left
        /\ result' = result /\ pc' \in {"find", "clean", "done"}
    BY <1>8 DEF Return
  <2>2. \A r : Pending(r)' <=> Pending(r)
    BY <2>1, AfterReturned
  <2>3. op # "string_match"
    BY <2>1 DEF Flags
  <2> QED
    BY <1>2, <2>1, <2>2, <2>3
<1>9. CASE Unwind \/ Failed
  <2>1. pc = "error" /\ op # "string_match" /\ result # 0 /\ Fails(Reached)
    BY <1>9 DEF Unwind, Failed, Opened, Flags
  <2>2. pc' \in {"error", "done"} /\ result' # 0 /\ missed' = missed
    BY <1>9, <2>1 DEF Unwind, Failed, calls
  <2> QED
    BY <1>1, <2>1, <2>2 DEF Opened, Succeeds
<1>10. CASE DeleteNext \/ Cleaned \/ UserAdds
  <2>1. pc = "clean" /\ UNCHANGED <<stack, result, missed>> /\ pc' \in {"clean", "done"}
    BY <1>10 DEF DeleteNext, Cleaned, UserAdds, calls
  <2>2. op # "string_match" /\ \A p : Pending(p)' <=> Pending(p)
    BY <2>1 DEF Flags, Pending, Lost
  <2> QED
    BY <1>2, <2>1, <2>2
<1>11. CASE UNCHANGED vars
  <2>1. UNCHANGED <<pc, stack, result, missed>>
    BY <1>11 DEF vars, calls
  <2>2. Succeeds' <=> Succeeds
    BY <1>1, <2>1 DEF Succeeds
  <2>3. Succeeds => \A p \in Dirs' : Openable(p)' \/ (p # <<>> /\ Pending(p)')
    BY <1>1, <2>1 DEF Openable, Pending, Lost, Opened
  <2>4. Succeeds => ~(drive /\ before = {})'
    BY <1>1, Zenon DEF Opened
  <2> QED
    BY <1>1, <2>1, <2>2, <2>3, <2>4 DEF Opened
<1> QED
  BY <1>4, <1>5, <1>6, <1>7, <1>8, <1>9, <1>10, <1>11 DEF Next, Done

\* A search that has returned from all its calls has not failed anywhere.
LEMMA NotFailed ==
  ASSUME Contents, Opened, Succeeds, stack = <<>>
  PROVE  ~Fails(Reached)
<1>1. \A p \in Reached : p \in Dirs /\ (p = <<>> \/ ~Pending(p))
  BY ReachedIs DEF Pending, Awaits
<1>2. (\A p \in Reached : Openable(p)) /\ ~(drive /\ before = {})
  BY <1>1 DEF Opened
<1>3. ASSUME NEW p \in Reached PROVE p \notin unreadable /\ ~(Len(p) > MaxLevel)
  <2>1. p \in Path
    BY ReachedIs, RootEntered DEF Dirs, Contents, IsTree, IsPlace
  <2>2. Len(p) \in Nat /\ MaxLevel \in Nat
    BY <2>1, SearchAssumption DEF Path
  <2> QED
    BY <1>2, <2>2 DEF Openable
<1> QED
  BY <1>2, <1>3, Zenon DEF Fails

-----------------------------------------------------------------------------
(* Lists.                                                                  *)

Distinct(s) == \A i, j \in DOMAIN s : s[i] = s[j] => i = j

\* Of two entries of a list the first does not lie above the second.
ChildrenFirst(s) == \A i, j \in DOMAIN s : i < j => s[i] \notin Above(s[j])

LEMMA Prepended ==
  ASSUME NEW S, NEW s \in Seq(S), Distinct(s), NEW x \in S, x \notin ToSet(s)
  PROVE  /\ <<x>> \o s \in Seq(S) /\ Distinct(<<x>> \o s)
         /\ ToSet(<<x>> \o s) = ToSet(s) \cup {x}
<1> DEFINE w == <<x>> \o s
           n == Len(s)
<1>1. <<x>> \in Seq(S) /\ Len(<<x>>) = 1 /\ <<x>>[1] = x /\ n \in Nat /\ DOMAIN s = 1..n
  OBVIOUS
<1>2. w \in Seq(S) /\ Len(w) = n + 1
      /\ \A i \in 1..n + 1 : w[i] = IF i <= 1 THEN x ELSE s[i - 1]
  BY <1>1, ConcatProperties
<1> HIDE DEF w, n
<1>3. DOMAIN w = 1..n + 1
  BY <1>1, <1>2
<1>4. \A i \in 1..n + 1 : i = 1 \/ i - 1 \in 1..n
  BY <1>1
<1>5. w[1] = x /\ 1 \in 1..n + 1 /\ \A i \in 1..n : i + 1 \in 1..n + 1 /\ w[i + 1] = s[i]
  BY <1>1, <1>2
<1>6. \A i \in 1..n + 1 : i # 1 => w[i] = s[i - 1]
  BY <1>1, <1>2
<1>7. \A i \in 1..n : s[i] # x
  BY <1>1 DEF ToSet
<1>8. Distinct(w)
  <2> SUFFICES ASSUME NEW i \in 1..n + 1, NEW j \in 1..n + 1, w[i] = w[j] PROVE i = j
    BY <1>3 DEF Distinct
  <2>1. CASE i = 1 \/ j = 1
    BY <1>4, <1>5, <1>6, <1>7, <2>1
  <2>2. CASE i # 1 /\ j # 1
    <3>1. i - 1 \in DOMAIN s /\ j - 1 \in DOMAIN s /\ s[i - 1] = s[j - 1]
      BY <1>1, <1>4, <1>6, <2>2
    <3>2. i - 1 = j - 1
      BY <3>1 DEF Distinct
    <3> QED
      BY <1>1, <3>2
  <2> QED
    BY <2>1, <2>2
<1>9. ToSet(w) = ToSet(s) \cup {x}
  <2>1. ASSUME NEW y \in ToSet(w) PROVE y \in ToSet(s) \cup {x}
    <3>1. PICK i \in 1..n + 1 : y = w[i]
      BY <1>3, <2>1 DEF ToSet
    <3> QED
      BY <1>1, <1>4, <1>5, <1>6, <3>1 DEF ToSet
  <2>2. ASSUME NEW y \in ToSet(s) PROVE y \in ToSet(w)
    <3>1. PICK i \in 1..n : y = s[i]
      BY <1>1, <2>2 DEF ToSet
    <3> QED
      BY <1>3, <1>5, <3>1 DEF ToSet
  <2>3. x \in ToSet(w)
    BY <1>3, <1>5 DEF ToSet
  <2> QED
    BY <2>1, <2>2, <2>3
<1> QED
  BY <1>2, <1>8, <1>9 DEF w

LEMMA Appended ==
  ASSUME NEW S, NEW s \in Seq(S), Distinct(s), NEW x \in S, x \notin ToSet(s)
  PROVE  /\ Append(s, x) \in Seq(S) /\ Distinct(Append(s, x))
         /\ ToSet(Append(s, x)) = ToSet(s) \cup {x}
         /\ ChildrenFirst(s) /\ (\A y \in ToSet(s) : y \notin Above(x)) => ChildrenFirst(Append(s, x))
<1> DEFINE w == Append(s, x)
           n == Len(s)
<1>1. /\ n \in Nat /\ DOMAIN s = 1..n
      /\ w \in Seq(S) /\ Len(w) = n + 1 /\ w[n + 1] = x /\ \A i \in 1..n : w[i] = s[i]
  BY AppendProperties
<1> HIDE DEF w, n
<1>2. DOMAIN w = 1..n + 1
  BY <1>1
<1>3. /\ \A i \in 1..n + 1 : i = n + 1 \/ i \in 1..n
      /\ \A i \in 1..n : i \in 1..n + 1
      /\ n + 1 \in 1..n + 1
  BY <1>1
<1>4. \A i \in 1..n : s[i] # x
  BY <1>1 DEF ToSet
<1>5. Distinct(w)
  BY <1>1, <1>2, <1>3, <1>4 DEF Distinct
<1>6. ToSet(w) = ToSet(s) \cup {x}
  BY <1>1, <1>2, <1>3 DEF ToSet
<1>7. ASSUME ChildrenFirst(s), \A y \in ToSet(s) : y \notin Above(x) PROVE ChildrenFirst(w)
  <2> SUFFICES ASSUME NEW i \in 1..n + 1, NEW j \in 1..n + 1, i < j PROVE w[i] \notin Above(w[j])
    BY <1>2 DEF ChildrenFirst
  <2>1. i \in 1..n
    BY <1>1
  <2>2. CASE j = n + 1
    BY <1>1, <1>7, <2>1, <2>2 DEF ToSet
  <2>3. CASE j \in 1..n
    BY <1>1, <1>7, <2>1, <2>3 DEF ChildrenFirst
  <2> QED
    BY <1>3, <2>2, <2>3
<1> QED
  BY <1>1, <1>5, <1>6, <1>7 DEF w

LEMMA Counted ==
  ASSUME NEW S, NEW s \in Seq(S), Distinct(s)
  PROVE  Len(s) = Cardinality(ToSet(s))
<1>1. Len(s) \in Nat /\ DOMAIN s = 1..Len(s)
  OBVIOUS
<1>2. s \in [1..Len(s) -> ToSet(s)]
  BY <1>1 DEF ToSet
<1>3. s \in Bijection(1..Len(s), ToSet(s))
  <2>1. s \in Injection(1..Len(s), ToSet(s))
    BY <1>2 DEF Injection, IsInjective, Distinct
  <2>2. s \in Surjection(1..Len(s), ToSet(s))
    BY <1>1, <1>2 DEF Surjection, ToSet
  <2> QED
    BY <2>1, <2>2 DEF Bijection
<1> QED
  BY <1>1, <1>3, FS_CountingElements DEF ExistsBijection

\* What lies above a path that is searched on is open.
LEMMA AboveLeft ==
  ASSUME Flags, Contents, Frames, pc = "find", NEW p \in Left, NEW r \in Above(p)
  PROVE  Open(r)
<1>1. /\ p \in Path /\ Len(p) = Len(stack)
      /\ \A j \in 1..Len(stack) : SubSeq(p, 1, j - 1) = stack[j].dir
  BY FoundNext, Foremost
<1> QED
  BY <1>1, AboveRunning DEF Open

-----------------------------------------------------------------------------
(* file_search.                                                            *)

Listable(p) == ~IsDir(p) /\ Parent(p) \in Dirs /\ Takes(Last(p), mask)
AskedPath   == Append(Last(stack).dir, str)

\* The files that have been found and taken are listed, each once.
SearchListed ==
  op = "file_search" =>
    /\ pc = "call" => list = <<>>
    /\ Succeeds =>
         /\ list \in Seq(before) /\ Distinct(list)
         /\ \A p \in before :
              p \in ToSet(list) <=>
                Listable(p) /\ ~Pending(p) /\ ~(pc = "match" /\ p = AskedPath)
    /\ pc = "match" =>
         /\ AskedPath \in before /\ ~IsDir(AskedPath) /\ ~Pending(AskedPath)
         /\ Parent(AskedPath) \in Dirs /\ Last(AskedPath) = str

\* string_match takes what Takes says.
LEMMA AnswersTakes ==
  ASSUME Flags, Cursor, Matching, pc = "match"
  PROVE  /\ \/ pos > Len(mask)
            \/ str_pos > Len(str)
            \/ mask[pos] = "*" /\ TokenEnd(mask, pos + 1) = pos + 1
            => Takes(str, mask)
         /\ /\ pos <= Len(mask) /\ str_pos <= Len(str)
            /\ \/ /\ mask[pos] = "*" /\ TokenEnd(mask, pos + 1) # pos + 1
                  /\ ~Found(str, str_pos, mask, pos + 1, TokenEnd(mask, pos + 1))
               \/ mask[pos] # "*" /\ mask[pos] \notin {"?", str[str_pos]}
            => ~Takes(str, mask)
<1>1. mask \in Word /\ str \in Word /\ Len(mask) \in Nat /\ Len(str) \in Nat
  BY Words DEF Flags, Cursor
<1>2. pos \in 1..Len(mask) + 1 /\ str_pos \in 1..Len(str) + 1
  BY DEF Cursor
<1>3. PICK t \in Track(str, pos) : Greedy(str, mask, t, pos) /\ t[pos] = str_pos
  BY DEF Matching
<1>4. ASSUME \/ pos > Len(mask)
             \/ str_pos > Len(str)
             \/ mask[pos] = "*" /\ TokenEnd(mask, pos + 1) = pos + 1
      PROVE  Takes(str, mask)
  <2>1. \/ pos = Len(mask) + 1
        \/ t[pos] = Len(str) + 1
        \/ mask[pos] = "*" /\ TokenEnd(mask, pos + 1) = pos + 1
    BY <1>1, <1>2, <1>3, <1>4
  <2> QED
    BY <1>2, <1>3, <2>1 DEF Takes
<1>5. ASSUME pos <= Len(mask), str_pos <= Len(str),
             \/ /\ mask[pos] = "*" /\ TokenEnd(mask, pos + 1) # pos + 1
                /\ ~Found(str, str_pos, mask, pos + 1, TokenEnd(mask, pos + 1))
             \/ mask[pos] # "*" /\ mask[pos] \notin {"?", str[str_pos]}
      PROVE  ~Takes(str, mask)
  <2>1. pos \in 1..Len(mask)
    BY <1>1, <1>2, <1>5
  <2> QED
    BY <1>1, <1>3, <1>5, <2>1, NotTaken
<1> QED
  BY <1>4, <1>5

LEMMA SearchListedInit == Init => SearchListed
BY DEF Init, SearchListed, Succeeds

LEMMA SearchListedNext ==
  ASSUME Flags, Contents, Frames, Apart, MatchInv, Opened, SearchListed, [Next]_vars
  PROVE  SearchListed'
<1>1. Dirs' = Dirs /\ op' = op /\ before' = before /\ mask' = mask
  BY InputKept, DirsKept
<1> SUFFICES ASSUME op = "file_search" PROVE SearchListed'
  BY <1>1 DEF SearchListed
<1>2. \A p : Listable(p)' <=> Listable(p)
  BY <1>1 DEF Listable
<1>3. ASSUME list' = list, Succeeds' => Succeeds, pc' \notin {"call", "match"}, pc # "match",
             \A r \in before : Listable(r) => (Pending(r)' <=> Pending(r))
      PROVE  SearchListed'
  BY <1>1, <1>2, <1>3 DEF SearchListed
<1>4. ASSUME pc = "match", NEW b \in BOOLEAN, Answer(b), b <=> Takes(str, mask)
      PROVE  SearchListed'
  <2>1. /\ AskedPath \in before /\ ~IsDir(AskedPath) /\ ~Pending(AskedPath)
        /\ Parent(AskedPath) \in Dirs /\ Last(AskedPath) = str
    BY <1>4 DEF SearchListed
  <2>2. Succeeds
    BY <1>4 DEF Opened, Succeeds
  <2>3. /\ list \in Seq(before) /\ Distinct(list) /\ AskedPath \notin ToSet(list)
    BY <1>4, <2>1, <2>2 DEF SearchListed
  <2>4. /\ pc' = "find" /\ UNCHANGED <<stack, missed>>
        /\ list' = IF b THEN <<AskedPath>> \o list ELSE list
    BY <1>4 DEF Answer, calls, AskedPath
  <2>5. /\ list' \in Seq(before) /\ Distinct(list')
        /\ \A p : p \in ToSet(list') <=> p \in ToSet(list) \/ (b /\ p = AskedPath)
    <3>1. CASE b
      BY <2>1, <2>3, <2>4, <3>1, Prepended
    <3>2. CASE ~b
      BY <2>3, <2>4, <3>2
    <3> QED
      BY <3>1, <3>2
  <2>6. \A p \in before : p \in ToSet(list) <=>
          Listable(p) /\ ~Pending(p) /\ ~(pc = "match" /\ p = AskedPath)
    BY <2>2 DEF SearchListed
  <2>7. Listable(AskedPath) <=> b
    BY <1>4, <2>1 DEF Listable
  <2>8. \A p \in before : p \in ToSet(list') <=> Listable(p) /\ ~Pending(p)
    BY <1>4, <2>1, <2>5, <2>6, <2>7
  <2>9. \A p : Pending(p)' <=> Pending(p)
    BY <2>4 DEF Pending, Lost
  <2> QED
    BY <1>1, <1>2, <2>4, <2>5, <2>8, <2>9 DEF SearchListed
<1>5. ASSUME pc = "match", pc' = "match", UNCHANGED <<str, stack, list, result, missed>>
      PROVE  SearchListed'
  <2>1. Succeeds' <=> Succeeds
    BY <1>1, <1>5 DEF Succeeds
  <2>2. AskedPath' = AskedPath /\ \A p : Pending(p)' <=> Pending(p)
    BY <1>5 DEF AskedPath, Pending, Lost
  <2> QED
    BY <1>1, <1>2, <1>5, <2>1, <2>2 DEF SearchListed
<1>6. Cursor /\ Matching
  BY DEF MatchInv
<1>7. CASE MatchEnds
  BY <1>4, <1>6, <1>7, AnswersTakes DEF MatchEnds
<1>8. CASE MatchStar
  <2> DEFINE e == TokenEnd(mask, pos + 1)
  <2>1. pc = "match" /\ pos <= Len(mask) /\ str_pos <= Len(str) /\ mask[pos] = "*"
    BY <1>8 DEF MatchStar
  <2>2. CASE e = pos + 1 /\ Answer(TRUE)
    BY <1>4, <1>6, <2>1, <2>2, AnswersTakes
  <2>3. CASE e # pos + 1 /\ ~Found(str, str_pos, mask, pos + 1, e) /\ Answer(FALSE)
    BY <1>4, <1>6, <2>1, <2>3, AnswersTakes
  <2>4. CASE Compare(After(str, str_pos, mask, pos + 1, e), e)
    BY <1>5, <2>1, <2>4 DEF Compare, calls
  <2> QED
    BY <1>8, <2>2, <2>3, <2>4 DEF MatchStar
<1>9. CASE MatchOne
  <2>1. pc = "match" /\ pos <= Len(mask) /\ str_pos <= Len(str) /\ mask[pos] # "*"
    BY <1>9 DEF MatchOne
  <2>2. CASE Compare(str_pos + 1, pos + 1)
    BY <1>5, <2>1, <2>2 DEF Compare, calls
  <2>3. CASE mask[pos] \notin {"?", str[str_pos]} /\ Answer(FALSE)
    BY <1>4, <1>6, <2>1, <2>3, AnswersTakes
  <2> QED
    BY <1>9, <2>2, <2>3 DEF MatchOne
<1>10. CASE Call
  <2>1. pc = "call" /\ Enter(stack, <<>>) /\ stack = <<>> /\ list = <<>> /\ list' = list
    BY <1>10 DEF Call, Frames, SearchListed
  <2>2. tree = before /\ recurse_level = 0
    BY <2>1 DEF Contents, Frames
  <2>3. \/ pc' = "error"
        \/ /\ pc' = "find"
           /\ stack' = Append(stack, [dir |-> <<>>, left |-> Children(tree, <<>>)])
    BY <2>1, <2>2, RootEntered, ReachedIs, EnterFails
  <2>4. CASE pc' = "error"
    BY <2>4 DEF SearchListed, Succeeds
  <2>5. CASE pc' = "find"
    <3>1. stack' = <<[dir |-> <<>>, left |-> Children(before, <<>>)]>>
      BY <2>1, <2>2, <2>3, <2>5
    <3>2. \A r \in before : Pending(r)'
      BY <3>1, AfterCalled DEF Pending
    <3>3. list' \in Seq(before) /\ Distinct(list') /\ ToSet(list') = {}
      BY <2>1, EmptySeq DEF Distinct, ToSet
    <3> QED
      BY <1>1, <2>5, <3>2, <3>3 DEF SearchListed
  <2> QED
    BY <2>3, <2>4, <2>5
<1>11. CASE SkipDir
  <2>1. PICK p \in Left : IsDir(p) /\ ~Enters(p) /\ stack' = Without(p)
    BY <1>11 DEF SkipDir
  <2>2. pc = "find" /\ pc' = "find" /\ UNCHANGED <<list, result, missed>>
    BY <1>11 DEF SkipDir, Left
  <2>3. ASSUME NEW r \in before, Listable(r) PROVE Pending(r)' <=> Pending(r)
    <3>1. ~Under(p, r)
      BY <2>1, <2>2, <2>3, Skipped DEF Listable
    <3> QED
      BY <2>1, <2>2, <3>1, AfterFound
  <2>4. Succeeds' => Succeeds
    BY <1>1, <2>2 DEF Succeeds
  <2> QED
    BY <1>3, <2>2, <2>3, <2>4
<1>12. CASE EnterDir
  <2>1. PICK p \in Left : /\ Enters(p) /\ Enter(Without(p), p) /\ pc = "find"
                          /\ UNCHANGED <<list, missed>>
    BY <1>12 DEF EnterDir, Left
  <2>2. p \in Reached /\ tree = before
    BY <2>1, FoundReached, FoundNext
  <2>3. Len(p) = recurse_level
    BY <2>1, FoundNext, Foremost DEF Frames
  <2>4. \/ pc' = "error"
        \/ /\ pc' = "find" /\ result' = result /\ Openable(p)
           /\ stack' = Append(Without(p), [dir |-> p, left |-> Children(tree, p)])
    BY <2>1, <2>2, <2>3, EnterFails
  <2>5. CASE pc' = "error"
    BY <2>5 DEF SearchListed, Succeeds
  <2>6. CASE /\ pc' = "find" /\ result' = result /\ Openable(p)
             /\ stack' = Append(Without(p), [dir |-> p, left |-> Children(tree, p)])
    <3>1. \A r \in before : Pending(r)' <=> Pending(r) /\ r # p
      BY <2>1, <2>6, AfterEntered DEF Openable
    <3>2. \A r \in before : Listable(r) => (Pending(r)' <=> Pending(r))
      BY <2>1, <3>1 DEF Listable, Enters
    <3>3. Succeeds' => Succeeds
      BY <1>1, <2>1, <2>6 DEF Succeeds
    <3> QED
      BY <1>3, <2>1, <2>6, <3>2, <3>3
  <2> QED
    BY <2>4, <2>5, <2>6
<1>13. CASE AskFile
  <2>1. PICK p \in Left : /\ ~IsDir(p) /\ stack' = Without(p) /\ pc' = "match" /\ str' = Last(p)
                          /\ pc = "find" /\ UNCHANGED <<list, result, missed>>
    BY <1>13 DEF AskFile, Left
  <2>2. /\ \A r \in before : Pending(r)' <=> Pending(r) /\ ~Under(p, r)
        /\ \A r \in before : Under(p, r) => Pending(r)
        /\ Last(stack').dir = Last(stack).dir
    BY <2>1, AfterFound
  <2>3. /\ stack # <<>> /\ Last(stack) = stack[Len(stack)] /\ Len(stack) \in 1..Len(stack)
        /\ p \in before /\ p \in Path /\ p # <<>> /\ Parent(p) = stack[Len(stack)].dir
    BY <2>1, FoundNext, Foremost
  <2>4. Parent(p) \in Dirs
    BY <2>3 DEF Frames, Nested
  <2>5. AskedPath' = p
    BY <2>1, <2>2, <2>3, Paths DEF AskedPath
  <2>6. \A r \in before : Under(p, r) <=> r = p
    BY <2>1, FileAlone DEF Under, Contents, IsTree
  <2>7. Succeeds /\ \A r \in before : r \in ToSet(list) <=> Listable(r) /\ ~Pending(r)
    BY <2>1 DEF SearchListed, Opened, Succeeds
  <2>8. \A r \in before : r \in ToSet(list') <=> Listable(r) /\ ~Pending(r)' /\ r # p
    BY <2>1, <2>2, <2>3, <2>6, <2>7
  <2>9. list' \in Seq(before) /\ Distinct(list')
    BY <2>1, <2>7 DEF SearchListed
  <2>10. ~Pending(p)'
    BY <2>2, <2>3, <2>6
  <2> QED
    BY <1>1, <1>2, <2>1, <2>3, <2>4, <2>5, <2>8, <2>9, <2>10 DEF SearchListed
<1>14. CASE Return
  <2>1. /\ pc = "find" /\ stack' = Front(stack) /\ missed' = missed \cup Left
        /\ result' = result /\ list' = list /\ pc' \in {"find", "clean", "done"}
    BY <1>14 DEF Return
  <2>2. \A r : Pending(r)' <=> Pending(r)
    BY <2>1, AfterReturned
  <2>3. Succeeds' => Succeeds
    BY <1>1, <2>1 DEF Succeeds
  <2> QED
    BY <1>3, <2>1, <2>2, <2>3
<1>15. CASE Unwind \/ Failed
  <2>1. pc = "error" /\ result # 0
    BY <1>15 DEF Unwind, Failed, Opened
  <2>2. pc' \in {"error", "done"} /\ result' # 0
    BY <1>15, <2>1 DEF Unwind, Failed, calls
  <2> QED
    BY <2>2 DEF SearchListed, Succeeds
<1>16. CASE UNCHANGED vars
  <2>1. UNCHANGED <<pc, stack, list, result, missed, str>>
    BY <1>16 DEF vars, calls, matching
  <2>2. Succeeds' <=> Succeeds
    BY <1>1, <2>1 DEF Succeeds
  <2>3. AskedPath' = AskedPath /\ \A p : Pending(p)' <=> Pending(p)
    BY <2>1 DEF AskedPath, Pending, Lost
  <2> QED
    BY <1>1, <1>2, <2>1, <2>2, <2>3 DEF SearchListed
<1>17. ~Match /\ ~PutFile /\ ~DeleteNext /\ ~Cleaned /\ ~UserAdds
  BY DEF Match, PutFile, DeleteNext, Cleaned, UserAdds, Flags
<1> QED
  BY <1>7, <1>8, <1>9, <1>10, <1>11, <1>12, <1>13, <1>14, <1>15, <1>16, <1>17 DEF Next, Done

-----------------------------------------------------------------------------
(* file_del and the cleaning.                                              *)

\* What has been found and left again is listed, children first.
DelListed ==
  op = "file_del" =>
    /\ pc = "call" => list = <<>>
    /\ pc = "find" =>
         /\ list \in Seq(before) /\ Distinct(list) /\ ChildrenFirst(list)
         /\ \A p \in before : p \in ToSet(list) <=> ~InDotted(p) /\ ~Pending(p) /\ ~Open(p)

Kept  == added \cup (before \cap locked) \cup {p \in before : InDotted(p) \/ Lost(p)}
Stays == Kept \cup UNION {Above(p) : p \in Kept}

\* What the cleaning has passed is there if and only if it has to stay.
Cleaning ==
  op = "file_del" /\ pc = "clean" =>
    /\ list \in Seq(before) /\ Distinct(list) /\ ChildrenFirst(list)
    /\ \A p \in ToSet(list) : ~InDotted(p) /\ ~Lost(p)
    /\ ToSet(list) \subseteq tree \ added
    /\ tree \subseteq before \cup added /\ added \subseteq tree
    /\ \A p \in before \ ToSet(list) : p \in tree <=> p \in Stays

AllCleaned ==
  op = "file_del" /\ pc = "done" => tree = IF Fails(Reached) THEN before ELSE Stays

LEMMA Tailed ==
  ASSUME NEW S, NEW s \in Seq(S), s # <<>>, Distinct(s), ChildrenFirst(s)
  PROVE  /\ Tail(s) \in Seq(S) /\ Distinct(Tail(s)) /\ ChildrenFirst(Tail(s))
         /\ ToSet(s) = ToSet(Tail(s)) \cup {Head(s)} /\ Head(s) \notin ToSet(Tail(s))
         /\ Head(s) \in S
         /\ \A q \in ToSet(s) : Head(s) \notin Above(q) \/ q = Head(s)
<1> DEFINE w == Tail(s)
           n == Len(s)
<1>1. n \in Nat /\ n >= 1 /\ DOMAIN s = 1..n
  BY EmptySeq
<1>2. w \in Seq(S) /\ Len(w) = n - 1 /\ \A i \in 1..n - 1 : w[i] = s[i + 1]
  BY HeadTailProperties
<1>3. Head(s) = s[1] /\ Head(s) \in S
  BY HeadTailProperties
<1> HIDE DEF w, n
<1>4. DOMAIN w = 1..n - 1
  BY <1>1, <1>2
<1>5. /\ \A i \in 1..n - 1 : i + 1 \in 1..n /\ i + 1 # 1
      /\ \A i \in 1..n : i = 1 \/ (i - 1 \in 1..n - 1 /\ i - 1 + 1 = i)
      /\ 1 \in 1..n
  BY <1>1
<1>6. Distinct(w)
  <2> SUFFICES ASSUME NEW i \in 1..n - 1, NEW j \in 1..n - 1, w[i] = w[j] PROVE i = j
    BY <1>4 DEF Distinct
  <2>1. i + 1 \in DOMAIN s /\ j + 1 \in DOMAIN s /\ s[i + 1] = s[j + 1]
    BY <1>1, <1>2, <1>5
  <2>2. i + 1 = j + 1
    BY <2>1 DEF Distinct
  <2> QED
    BY <1>1, <2>2
<1>7. ChildrenFirst(w)
  <2> SUFFICES ASSUME NEW i \in 1..n - 1, NEW j \in 1..n - 1, i < j PROVE w[i] \notin Above(w[j])
    BY <1>4 DEF ChildrenFirst
  <2>1. i + 1 \in DOMAIN s /\ j + 1 \in DOMAIN s /\ i + 1 < j + 1
    BY <1>1, <1>5
  <2>2. s[i + 1] \notin Above(s[j + 1])
    BY <2>1 DEF ChildrenFirst
  <2> QED
    BY <1>2, <2>2
<1>8. ToSet(s) = ToSet(w) \cup {s[1]}
  <2>1. ASSUME NEW y \in ToSet(s) PROVE y \in ToSet(w) \cup {s[1]}
    <3>1. PICK i \in 1..n : y = s[i]
      BY <1>1, <2>1 DEF ToSet
    <3>2. CASE i # 1
      <4>1. i - 1 \in 1..n - 1 /\ w[i - 1] = s[i]
        BY <1>2, <1>5, <3>2
      <4> QED
        BY <1>4, <3>1, <4>1 DEF ToSet
    <3> QED
      BY <3>1, <3>2
  <2>2. ASSUME NEW y \in ToSet(w) PROVE y \in ToSet(s)
    <3>1. PICK i \in 1..n - 1 : y = s[i + 1]
      BY <1>2, <1>4, <2>2 DEF ToSet
    <3> QED
      BY <1>1, <1>5, <3>1 DEF ToSet
  <2>3. s[1] \in ToSet(s)
    BY <1>1, <1>5 DEF ToSet
  <2> QED
    BY <2>1, <2>2, <2>3
<1>9. s[1] \notin ToSet(w)
  <2> SUFFICES ASSUME NEW i \in 1..n - 1, s[1] = s[i + 1] PROVE FALSE
    BY <1>2, <1>4 DEF ToSet
  <2> QED
    BY <1>1, <1>5 DEF Distinct
<1>10. ASSUME NEW q \in ToSet(s), q # s[1] PROVE s[1] \notin Above(q)
  <2>1. PICK i \in 1..n : q = s[i] /\ i # 1
    BY <1>1, <1>10 DEF ToSet
  <2>2. 1 < i
    BY <1>1, <2>1
  <2> QED
    BY <1>1, <1>5, <2>1, <2>2 DEF ChildrenFirst
<1> QED
  BY <1>2, <1>3, <1>6, <1>7, <1>8, <1>9, <1>10 DEF w

\* What cannot be deleted is what has to stay.
LEMMA StaysIfKept ==
  ASSUME Contents, Cleaning, op = "file_del", pc = "clean", NEW p \in ToSet(list),
         \A q \in ToSet(list) : p \notin Above(q) \/ q = p
  PROVE  p \in Stays <=> IF IsDir(p) THEN Children(tree, p) # {} ELSE p \in locked
<1>1. /\ p \in tree /\ p \in before /\ p \notin added /\ ~InDotted(p) /\ ~Lost(p)
      /\ tree \subseteq before \cup added /\ added \subseteq tree
      /\ \A q \in before \ ToSet(list) : q \in tree <=> q \in Stays
      /\ ToSet(list) \subseteq tree
  BY DEF Cleaning
<1>2. IsTree(tree) /\ p \in Path /\ p # <<>>
  BY <1>1 DEF Contents, IsTree, IsPlace
<1>3. Kept \subseteq tree
  <2> SUFFICES ASSUME NEW q \in Kept, q \notin added PROVE q \in tree
    BY <1>1
  <2>1. q \in before /\ q \in Stays
    BY DEF Kept, Stays
  <2> QED
    BY <1>1, <2>1
<1>4. CASE ~IsDir(p)
  <2>1. \A q \in Kept : p \notin Above(q)
    BY <1>2, <1>3, <1>4 DEF IsTree, IsPlace
  <2>2. p \in Stays <=> p \in Kept
    BY <2>1 DEF Stays
  <2> QED
    BY <1>1, <1>4, <2>2 DEF Kept
<1>5. CASE IsDir(p)
  <2>1. p \notin Kept
    BY <1>1, <1>5 DEF Kept, Contents
  <2>2. ASSUME p \in Stays PROVE Children(tree, p) # {}
    <3>1. PICK q \in Kept : p \in Above(q)
      BY <2>1, <2>2 DEF Stays
    <3>2. q \in tree /\ q \in Path /\ Above(q) \subseteq tree
      BY <1>2, <1>3, <3>1 DEF IsTree, IsPlace
    <3>3. PICK c \in Path \ {<<>>} : Parent(c) = p /\ (c = q \/ c \in Above(q))
      BY <1>2, <3>1, <3>2, Toward
    <3> QED
      BY <3>2, <3>3 DEF Children
  <2>3. ASSUME NEW c \in Children(tree, p) PROVE p \in Stays
    <3>1. c \in tree /\ Parent(c) = p /\ c \in Path /\ c # <<>>
      BY <1>2 DEF Children, IsTree, IsPlace
    <3>2. p \in Above(c)
      BY <1>2, <3>1, AboveParent
    <3>3. c # p
      BY <1>2, <3>1, <3>2, AboveIs
    <3>4. CASE c \in added
      BY <3>2, <3>4 DEF Stays, Kept
    <3>5. CASE c \in before /\ c \notin added
      <4>1. c \notin ToSet(list)
        BY <3>2, <3>3
      <4>2. c \in Stays
        BY <1>1, <3>1, <3>5, <4>1
      <4>3. PICK q \in Kept : c = q \/ c \in Above(q)
        BY <4>2 DEF Stays
      <4>4. q \in Path
        BY <1>2, <1>3 DEF IsTree, IsPlace
      <4>5. p \in Above(q)
        <5>1. CASE c = q
          BY <3>2, <5>1
        <5>2. CASE c \in Above(q)
          BY <3>2, <4>4, <5>2, AboveAbove
        <5> QED
          BY <4>3, <5>1, <5>2
      <4> QED
        BY <4>5 DEF Stays
    <3> QED
      BY <1>1, <3>1, <3>4, <3>5
  <2> QED
    BY <1>5, <2>2, <2>3
<1> QED
  BY <1>4, <1>5

DelInv == DelListed /\ Cleaning /\ AllCleaned

LEMMA DelInvInit == Init => DelInv
BY DEF Init, DelInv, DelListed, Cleaning, AllCleaned

\* What is found, and not a directory, is none of the directories entered.
LEMMA FileFound ==
  ASSUME Flags, Contents, Frames, pc = "find", NEW p \in Left, ~IsDir(p)
  PROVE  p \in before /\ ~InDotted(p) /\ ~Open(p) /\ Pending(p) /\ \A r \in before : Under(p, r) <=> r = p
<1>1. /\ stack # <<>> /\ Last(stack) = stack[Len(stack)] /\ Len(stack) \in 1..Len(stack)
      /\ p \in before /\ p \in Path /\ p # <<>> /\ Parent(p) = stack[Len(stack)].dir
      /\ p \in stack[Len(stack)].left
  BY FoundNext, Foremost
<1>2. Nested(stack)
  BY DEF Frames
<1>3. Parent(p) \in Dirs
  BY <1>1, <1>2 DEF Nested
<1>4. ~InDotted(p)
  BY <1>1, <1>3, Dotted DEF IsDotted, Dirs
<1>5. ~Open(p)
  BY <1>1, <1>2 DEF Open, Nested, Dirs
<1>6. \A r \in before : Under(p, r) <=> r = p
  BY FileAlone DEF Under, Contents, IsTree
<1>7. Pending(p)
  BY <1>1 DEF Pending, Awaits, Under
<1> QED
  BY <1>1, <1>4, <1>5, <1>6, <1>7

LEMMA FindsForDel ==
  ASSUME Flags, Contents, Frames, Apart, Opened, DelInv, [Next]_vars, op = "file_del", pc = "find"
  PROVE  DelInv'
<1>1. Dirs' = Dirs /\ op' = op /\ before' = before /\ locked' = locked
  BY InputKept, DirsKept
<1>2. /\ list \in Seq(before) /\ Distinct(list) /\ ChildrenFirst(list)
      /\ \A p \in before : p \in ToSet(list) <=> ~InDotted(p) /\ ~Pending(p) /\ ~Open(p)
  BY DEF DelInv, DelListed
<1>3. ASSUME pc' = "find", list' \in Seq(before), Distinct(list'), ChildrenFirst(list'),
             \A r \in before : r \in ToSet(list') <=>
               /\ ~InDotted(r) /\ ~Pending(r)'
               /\ ~\E i \in 1..Len(stack') : stack'[i].dir = r
      PROVE  DelInv'
  BY <1>1, <1>3 DEF DelInv, DelListed, Cleaning, AllCleaned, Open
<1>4. CASE SkipDir
  <2>1. PICK p \in Left : /\ IsDir(p) /\ ~Enters(p) /\ stack' = Without(p)
                          /\ UNCHANGED <<list, pc, missed>>
    BY <1>4 DEF SkipDir
  <2>2. /\ \A r \in before : Pending(r)' <=> Pending(r) /\ ~Under(p, r)
        /\ \A r : (\E i \in 1..Len(stack') : stack'[i].dir = r) <=> Open(r)
    BY <2>1, AfterFound
  <2>3. \A r \in before : Under(p, r) => InDotted(r)
    BY <2>1, Skipped
  <2> QED
    BY <1>2, <1>3, <2>1, <2>2, <2>3
<1>5. CASE EnterDir
  <2>1. PICK p \in Left : /\ Enters(p) /\ Enter(Without(p), p) /\ UNCHANGED <<list, missed>>
    BY <1>5 DEF EnterDir
  <2>2. p \in Reached /\ tree = before
    BY <2>1, FoundReached, FoundNext
  <2>3. Len(p) = recurse_level
    BY FoundNext, Foremost DEF Frames
  <2>4. \/ pc' = "error"
        \/ /\ pc' = "find" /\ result' = result /\ Openable(p)
           /\ stack' = Append(Without(p), [dir |-> p, left |-> Children(tree, p)])
    BY <2>1, <2>2, <2>3, EnterFails
  <2>5. CASE pc' = "error"
    BY <2>5 DEF DelInv, DelListed, Cleaning, AllCleaned
  <2>6. CASE /\ pc' = "find" /\ result' = result /\ Openable(p)
             /\ stack' = Append(Without(p), [dir |-> p, left |-> Children(tree, p)])
    <3>1. /\ \A r \in before : Pending(r)' <=> Pending(r) /\ r # p
          /\ \A r : (\E i \in 1..Len(stack') : stack'[i].dir = r) <=> Open(r) \/ r = p
          /\ Pending(p)
      BY <2>1, <2>6, AfterEntered DEF Openable
    <3> QED
      BY <1>2, <1>3, <2>1, <2>6, <3>1
  <2> QED
    BY <2>4, <2>5, <2>6
<1>6. CASE PutFile
  <2>1. PICK p \in Left : /\ ~IsDir(p) /\ stack' = Without(p) /\ list' = Put(p)
                          /\ UNCHANGED <<pc, missed>>
    BY <1>6 DEF PutFile
  <2>2. /\ \A r \in before : Pending(r)' <=> Pending(r) /\ ~Under(p, r)
        /\ \A r : (\E i \in 1..Len(stack') : stack'[i].dir = r) <=> Open(r)
    BY <2>1, AfterFound
  <2>3. p \in before /\ ~InDotted(p) /\ ~Open(p) /\ Pending(p) /\ \A r \in before : Under(p, r) <=> r = p
    BY <2>1, FileFound
  <2>4. \A r \in Above(p) : Open(r)
    BY AboveLeft
  <2>5. p \notin ToSet(list) /\ \A y \in ToSet(list) : y \in before /\ y \notin Above(p)
    BY <1>2, <2>3, <2>4 DEF ToSet
  <2>6. /\ list' \in Seq(before) /\ Distinct(list') /\ ChildrenFirst(list')
        /\ ToSet(list') = ToSet(list) \cup {p}
    BY <1>2, <2>1, <2>3, <2>5, Appended DEF Put
  <2>7. \A r \in before : r \in ToSet(list') <=>
          /\ ~InDotted(r) /\ ~Pending(r)'
          /\ ~\E i \in 1..Len(stack') : stack'[i].dir = r
    BY <1>2, <2>2, <2>3, <2>6
  <2> QED
    BY <1>3, <2>1, <2>6, <2>7
<1>7. CASE Return
  <2> DEFINE d == Last(stack).dir
  <2>1. /\ stack' = Front(stack) /\ missed' = missed \cup Left
        /\ list' = (IF d # <<>> THEN Put(d) ELSE list)
        /\ pc' = (IF Len(stack) > 1 THEN "find" ELSE "clean") /\ tree' = tree /\ added' = added
    BY <1>7 DEF Return
  <2>2. /\ \A r : Pending(r)' <=> Pending(r)
        /\ \A r : (\E i \in 1..Len(stack') : stack'[i].dir = r) <=> Open(r) /\ r # d
        /\ Open(d) /\ d \in Dirs /\ (d \in before => ~Pending(d))
        /\ \A r \in Above(d) : Open(r)
    BY <2>1, AfterReturned
  <2> HIDE DEF d
  <2>3. d # <<>> => d \in before /\ ~InDotted(d)
    BY <2>2 DEF Dirs
  <2>4. d # <<>> => d \notin ToSet(list) /\ \A y \in ToSet(list) : y \in before /\ y \notin Above(d)
    BY <1>2, <2>2, <2>3 DEF ToSet
  <2>5. /\ list' \in Seq(before) /\ Distinct(list') /\ ChildrenFirst(list')
        /\ \A r \in before : r \in ToSet(list') <=> r \in ToSet(list) \/ r = d
    <3>1. CASE d = <<>>
      <4>1. <<>> \notin before
        BY DEF Contents, IsTree, IsPlace
      <4> QED
        BY <1>2, <2>1, <3>1, <4>1
    <3>2. CASE d # <<>>
      BY <1>2, <2>1, <2>3, <2>4, <3>2, Appended DEF Put
    <3> QED
      BY <3>1, <3>2
  <2>6. \A r \in before : r \in ToSet(list') <=>
          /\ ~InDotted(r) /\ ~Pending(r)'
          /\ ~\E i \in 1..Len(stack') : stack'[i].dir = r
    <3> SUFFICES ASSUME NEW r \in before
                 PROVE  r \in ToSet(list') <=>
                          /\ ~InDotted(r) /\ ~Pending(r)'
                          /\ ~\E i \in 1..Len(stack') : stack'[i].dir = r
      OBVIOUS
    <3>1. CASE r = d
      <4>1. d # <<>>
        BY <3>1 DEF Contents, IsTree, IsPlace
      <4> QED
        BY <2>2, <2>3, <2>5, <3>1, <4>1
    <3>2. CASE r # d
      BY <1>2, <2>2, <2>5, <3>2
    <3> QED
      BY <3>1, <3>2
  <2>7. CASE pc' = "find"
    BY <1>3, <2>5, <2>6, <2>7
  <2>8. CASE pc' = "clean"
    <3>1. stack' = <<>>
      BY <2>8, FramesNext DEF Frames
    <3>2. \A r \in before : r \in ToSet(list') <=> ~InDotted(r) /\ ~Lost(r)'
      BY <2>6, <3>1 DEF Pending, Awaits
    <3>3. ToSet(list') \subseteq before
      BY <2>5 DEF ToSet
    <3>4. tree' = before /\ added' = {}
      BY <2>1 DEF Contents
    <3>5. \A p \in before : p \notin ToSet(list') => p \in Stays'
      BY <1>1, <3>2 DEF Stays, Kept
    <3>6. Cleaning'
      BY <1>1, <2>5, <3>2, <3>3, <3>4, <3>5 DEF Cleaning
    <3> QED
      BY <1>1, <2>8, <3>6 DEF DelInv, DelListed, AllCleaned
  <2> QED
    BY <2>1, <2>7, <2>8
<1>8. CASE UNCHANGED vars
  <2>1. UNCHANGED <<pc, stack, list, missed>>
    BY <1>8 DEF vars, calls
  <2> QED
    BY <1>2, <1>3, <2>1 DEF Pending, Lost, Open
<1>9. /\ ~Match /\ ~MatchEnds /\ ~MatchStar /\ ~MatchOne /\ ~Call /\ ~AskFile
      /\ ~Unwind /\ ~Failed /\ ~DeleteNext /\ ~Cleaned /\ ~UserAdds /\ ~Done
  BY DEF Match, MatchEnds, MatchStar, MatchOne, Call, AskFile, Unwind, Failed, DeleteNext,
    Cleaned, UserAdds, Done
<1> QED
  BY <1>4, <1>5, <1>6, <1>7, <1>8, <1>9 DEF Next

LEMMA Cleans ==
  ASSUME Flags, Contents, Frames, Apart, Opened, DelInv, [Next]_vars, op = "file_del", pc = "clean"
  PROVE  DelInv'
<1>1. Dirs' = Dirs /\ op' = op /\ before' = before /\ locked' = locked
      /\ missed' = missed /\ (Fails(Reached)' <=> Fails(Reached))
  <2>1. missed' = missed
    BY DEF Next, vars, calls, Match, MatchEnds, MatchStar, MatchOne, Call, SkipDir, EnterDir,
      AskFile, PutFile, Return, Unwind, Failed, DeleteNext, Cleaned, UserAdds, Done, Left
  <2> QED
    BY <2>1, InputKept, DirsKept, FailsKept
<1>2. /\ list \in Seq(before) /\ Distinct(list) /\ ChildrenFirst(list)
      /\ \A p \in ToSet(list) : ~InDotted(p) /\ ~Lost(p)
      /\ ToSet(list) \subseteq tree \ added
      /\ tree \subseteq before \cup added /\ added \subseteq tree
      /\ \A p \in before \ ToSet(list) : p \in tree <=> p \in Stays
  BY DEF DelInv, Cleaning
<1>3. CASE DeleteNext
  <2> DEFINE p == Head(list)
  <2>1. /\ list # <<>> /\ pc' = "clean" /\ list' = Tail(list) /\ added' = added
        /\ tree' = IF (IF IsDir(p) THEN Children(tree, p) # {} ELSE p \in locked)
                   THEN tree ELSE tree \ {p}
    BY <1>3 DEF DeleteNext
  <2>2. /\ list' \in Seq(before) /\ Distinct(list') /\ ChildrenFirst(list')
        /\ ToSet(list) = ToSet(list') \cup {p} /\ p \notin ToSet(list') /\ p \in before
        /\ \A q \in ToSet(list) : p \notin Above(q) \/ q = p
    BY <1>2, <2>1, Tailed
  <2> HIDE DEF p
  <2>3. p \in Stays <=> IF IsDir(p) THEN Children(tree, p) # {} ELSE p \in locked
    BY <2>2, StaysIfKept DEF DelInv
  <2>4. Stays' = Stays
    BY <1>1, <2>1 DEF Stays, Kept, Lost
  <2>5. p \in tree /\ p \notin added
    BY <1>2, <2>2
  <2>6. tree' = IF p \in Stays THEN tree ELSE tree \ {p}
    BY <2>1, <2>3
  <2>7. \A q \in before \ ToSet(list') : q \in tree' <=> q \in Stays
    <3> SUFFICES ASSUME NEW q \in before \ ToSet(list') PROVE q \in tree' <=> q \in Stays
      OBVIOUS
    <3>1. CASE q = p
      BY <2>5, <2>6, <3>1
    <3>2. CASE q # p
      BY <1>2, <2>2, <2>6, <3>2
    <3> QED
      BY <3>1, <3>2
  <2>8. ToSet(list') \subseteq tree' \ added /\ added \subseteq tree' /\ tree' \subseteq before \cup added
    BY <1>2, <2>2, <2>5, <2>6
  <2>9. \A q \in ToSet(list') : ~InDotted(q) /\ ~Lost(q)
    BY <1>2, <2>2
  <2>10. Cleaning'
    BY <1>1, <2>1, <2>2, <2>4, <2>7, <2>8, <2>9 DEF Cleaning, Lost
  <2> QED
    BY <1>1, <2>1, <2>10 DEF DelInv, DelListed, AllCleaned
<1>4. CASE UserAdds
  <2>1. PICK p \in Additions \ tree :
          /\ Parent(p) \in tree \cup {<<>>} /\ tree' = tree \cup {p} /\ added' = {p}
    BY <1>4 DEF UserAdds
  <2>2. added = {} /\ list' = list /\ pc' = pc /\ IsPlace(p)
    BY <1>4, SearchAssumption DEF UserAdds
  <2>3. Stays' = Stays \cup {p} \cup Above(p)
    <3>1. Kept' = Kept \cup {p}
      BY <1>1, <2>1, <2>2 DEF Kept, Lost
    <3> QED
      BY <3>1 DEF Stays
  <2>4. Above(p) \subseteq tree'
    <3>1. Contents'
      BY ContentsNext
    <3> QED
      BY <2>1, <3>1 DEF Contents, IsTree
  <2>5. \A q \in before \ ToSet(list) : q \in tree' <=> q \in Stays'
    BY <1>2, <2>1, <2>3, <2>4
  <2>6. ToSet(list) \subseteq tree' \ added' /\ added' \subseteq tree' /\ tree' \subseteq before \cup added'
    BY <1>2, <2>1, <2>2
  <2>7. Cleaning'
    BY <1>1, <1>2, <2>2, <2>5, <2>6 DEF Cleaning, Lost
  <2> QED
    BY <1>1, <2>2, <2>7 DEF DelInv, DelListed, AllCleaned
<1>5. CASE Cleaned
  <2>1. list = <<>> /\ pc' = "done" /\ tree' = tree /\ added' = added
    BY <1>5 DEF Cleaned
  <2>2. ToSet(list) = {}
    BY <2>1 DEF ToSet
  <2>3. ~Fails(Reached)
    BY NotFailed DEF Opened, Frames, Succeeds
  <2>4. tree = Stays
    <3>1. ASSUME NEW q \in Stays PROVE q \in tree
      <4>1. Kept \subseteq tree
        <5> SUFFICES ASSUME NEW k \in Kept, k \notin added PROVE k \in tree
          BY <1>2
        <5>1. k \in before /\ k \in Stays
          BY DEF Kept, Stays
        <5> QED
          BY <1>2, <2>2, <5>1
      <4> QED
        BY <3>1, <4>1 DEF Stays, Contents, IsTree
    <3>2. ASSUME NEW q \in tree PROVE q \in Stays
      BY <1>2, <2>2, <3>2 DEF Stays, Kept, Lost
    <3> QED
      BY <3>1, <3>2
  <2>5. Stays' = Stays
    BY <1>1, <2>1 DEF Stays, Kept, Lost
  <2>6. AllCleaned'
    BY <1>1, <2>1, <2>3, <2>4, <2>5 DEF AllCleaned
  <2> QED
    BY <1>1, <2>1, <2>6 DEF DelInv, DelListed, Cleaning
<1>6. CASE UNCHANGED vars
  <2>1. UNCHANGED <<pc, list, tree, added>>
    BY <1>6 DEF vars
  <2>2. Stays' = Stays
    BY <1>1, <2>1 DEF Stays, Kept, Lost
  <2>3. Cleaning'
    BY <1>1, <1>2, <2>1, <2>2 DEF Cleaning, Lost
  <2> QED
    BY <1>1, <2>1, <2>3 DEF DelInv, DelListed, AllCleaned
<1>7. /\ ~Match /\ ~MatchEnds /\ ~MatchStar /\ ~MatchOne /\ ~Call /\ ~SkipDir /\ ~EnterDir
      /\ ~AskFile /\ ~PutFile /\ ~Return /\ ~Unwind /\ ~Failed /\ ~Done
  BY DEF Match, MatchEnds, MatchStar, MatchOne, Call, SkipDir, EnterDir, AskFile, PutFile,
    Return, Unwind, Failed, Done, Left
<1> QED
  BY <1>3, <1>4, <1>5, <1>6, <1>7 DEF Next

LEMMA DelInvNext ==
  ASSUME Flags, Contents, Frames, Apart, Opened, DelInv, [Next]_vars
  PROVE  DelInv'
<1>1. Dirs' = Dirs /\ op' = op /\ before' = before /\ locked' = locked
      /\ (missed' = missed => (Fails(Reached)' <=> Fails(Reached)))
  BY InputKept, DirsKept, FailsKept
<1> SUFFICES ASSUME op = "file_del" PROVE DelInv'
  BY <1>1 DEF DelInv, DelListed, Cleaning, AllCleaned
<1>2. CASE pc = "find"
  BY <1>2, FindsForDel
<1>3. CASE pc = "clean"
  BY <1>3, Cleans
<1>4. CASE pc = "call" /\ ~UNCHANGED vars
  <2>1. Call
    BY <1>4 DEF Next, Match, MatchEnds, MatchStar, MatchOne, SkipDir, EnterDir, AskFile, PutFile,
      Return, Unwind, Failed, DeleteNext, Cleaned, UserAdds, Done, Left
  <2>2. Enter(stack, <<>>) /\ stack = <<>> /\ list = <<>> /\ list' = list
    BY <1>4, <2>1 DEF Call, Frames, DelInv, DelListed
  <2>3. tree = before /\ recurse_level = 0
    BY <1>4 DEF Contents, Frames
  <2>4. \/ pc' = "error"
        \/ /\ pc' = "find"
           /\ stack' = Append(stack, [dir |-> <<>>, left |-> Children(tree, <<>>)])
    BY <2>2, <2>3, RootEntered, ReachedIs, EnterFails
  <2>5. CASE pc' = "error"
    BY <2>5 DEF DelInv, DelListed, Cleaning, AllCleaned
  <2>6. CASE pc' = "find"
    <3>1. stack' = <<[dir |-> <<>>, left |-> Children(before, <<>>)]>>
      BY <2>2, <2>3, <2>4, <2>6
    <3>2. \A r \in before : Pending(r)'
      BY <3>1, AfterCalled DEF Pending
    <3>3. list' \in Seq(before) /\ Distinct(list') /\ ChildrenFirst(list') /\ ToSet(list') = {}
      BY <2>2, EmptySeq DEF Distinct, ChildrenFirst, ToSet
    <3> QED
      BY <1>1, <2>6, <3>2, <3>3 DEF DelInv, DelListed, Cleaning, AllCleaned
  <2> QED
    BY <2>4, <2>5, <2>6
<1>5. CASE pc = "error" /\ ~UNCHANGED vars
  <2>1. Unwind \/ Failed
    BY <1>5 DEF Next, Match, MatchEnds, MatchStar, MatchOne, Call, SkipDir, EnterDir, AskFile,
      PutFile, Return, DeleteNext, Cleaned, UserAdds, Done, Left
  <2>2. Fails(Reached) /\ tree' = before /\ pc' \in {"error", "done"} /\ missed' = missed
    BY <1>5, <2>1 DEF Opened, Contents, Unwind, Failed, calls
  <2> QED
    BY <1>1, <2>2 DEF DelInv, DelListed, Cleaning, AllCleaned
<1>6. CASE pc = "done" \/ UNCHANGED vars
  <2>1. UNCHANGED vars
    BY <1>6 DEF Next, Match, MatchEnds, MatchStar, MatchOne, Call, SkipDir, EnterDir, AskFile,
      PutFile, Return, Unwind, Failed, DeleteNext, Cleaned, UserAdds, Done, Left
  <2>2. UNCHANGED <<pc, list, tree, added, stack, missed>>
    BY <2>1 DEF vars, calls
  <2>3. Stays' = Stays
    BY <1>1, <2>2 DEF Stays, Kept, Lost
  <2>4. \A p : (Pending(p)' <=> Pending(p)) /\ (Open(p)' <=> Open(p))
    BY <2>2 DEF Pending, Lost, Open
  <2>5. DelListed'
    BY <1>1, <2>2, <2>4 DEF DelInv, DelListed
  <2>6. Cleaning'
    BY <1>1, <2>2, <2>3 DEF DelInv, Cleaning, Lost
  <2>7. AllCleaned'
    BY <1>1, <2>2, <2>3 DEF DelInv, AllCleaned
  <2> QED
    BY <2>5, <2>6, <2>7 DEF DelInv
<1> QED
  BY <1>2, <1>3, <1>4, <1>5, <1>6 DEF Flags

-----------------------------------------------------------------------------
(* The theorems.                                                           *)

SearchInv ==
  Flags /\ Contents /\ Frames /\ Apart /\ MatchInv /\ Opened /\ SearchListed /\ DelInv

\* The calls of a search are directories one in another, no deeper than the
\* limit, and what it has listed is what they have found and left, and nothing
\* that FindNextFile did not give; string_match has come to its place by the
\* first place of each token; a cleaning has passed nothing that it should have
\* deleted (support.cpp 1244, 1325, 1407).
THEOREM SearchInvariant == Spec => []SearchInv
<1>1. Init => SearchInv
  BY FlagsInit, ContentsInit, FramesInit, ApartInit, MatchInvInit, OpenedInit, SearchListedInit,
     DelInvInit
    DEF SearchInv
<1>2. SearchInv /\ [Next]_vars => SearchInv'
  BY FlagsNext, ContentsNext, FramesNext, ApartNext, MatchInvNext, OpenedNext, SearchListedNext,
     DelInvNext
    DEF SearchInv
<1> QED
  BY <1>1, <1>2, PTL DEF Spec

\* string_match, with any mask without "**" and without a '?' after a '*',
\* takes every name the mask stands for, and takes no other but one that goes
\* on after the mask or ends before it (support.cpp 1244).
THEOREM StringMatchRight == Spec => []MatchesMask
<1>1. SearchInv => MatchesMask
  BY DEF SearchInv, MatchInv
<1> QED
  BY <1>1, SearchInvariant, PTL

\* file_search, of any directory however deep, lists each file that string_match
\* takes once, in the directories it enters and nowhere else, or fails because
\* one of them cannot be opened or is too deep (support.cpp 1300, 1338).  What
\* FindNextFile did not give when it failed, and nothing else, is not in the list
\* of a search that says it has succeeded (1360).
THEOREM SearchFindsExactly == Spec => []FindsExactly
<1>1. SearchInv => FindsExactly
  <2> SUFFICES ASSUME SearchInv, op = "file_search", pc = "done" PROVE FindsExactly
    BY DEF FindsExactly
  <2>1. Entered(recursive) = Reached
    <3>1. (op = "file_search" => recursive) <=> recursive
      BY Zenon
    <3> QED
      BY <3>1 DEF Reached, Entered
  <2>2. Contents /\ Opened /\ stack = <<>> /\ SearchListed
    BY DEF SearchInv, Frames
  <2> DEFINE found == {p \in before : /\ ~IsDir(p) /\ Parent(p) \in Reached /\ ~Lost(p)
                                      /\ Takes(Last(p), mask)}
  <2>3. result = 0 <=> ~Fails(Reached)
    <3>1. result = 0 => Succeeds
      BY DEF Succeeds
    <3>2. result # 0 => Fails(Reached)
      BY <2>2 DEF Opened
    <3> QED
      BY <2>2, <3>1, <3>2, NotFailed
  <2>4. ASSUME result = 0 PROVE ToSet(list) = found /\ Len(list) = Cardinality(found)
    <3>1. Succeeds /\ \A p : Pending(p) <=> Lost(p)
      BY <2>2, <2>4 DEF Succeeds, Pending, Awaits
    <3>2. /\ list \in Seq(before) /\ Distinct(list)
          /\ \A p \in before : p \in ToSet(list) <=> Listable(p) /\ ~Lost(p)
      BY <2>2, <3>1 DEF SearchListed
    <3>3. ToSet(list) \subseteq before
      BY <3>2 DEF ToSet
    <3>4. \A p \in before : ~Lost(p) => (Parent(p) \in Dirs <=> Parent(p) \in Reached)
      BY <2>2, ParentReached
    <3>5. ToSet(list) = found
      BY <3>2, <3>3, <3>4 DEF Listable
    <3>6. Len(list) = Cardinality(ToSet(list))
      BY <3>2, Counted
    <3> QED
      BY <3>5, <3>6
  <2> HIDE DEF found
  <2>5. /\ result = 0 <=> ~Fails(Reached)
        /\ result = 0 => ToSet(list) = found /\ Len(list) = Cardinality(found)
    BY <2>3, <2>4
  <2> QED
    BY <2>1, <2>5 DEF FindsExactly, found
<1> QED
  BY <1>1, SearchInvariant, PTL

\* A cleaning of any directory deletes all of it but what is in use, what lies in
\* a directory with a dot, what FindNextFile did not give, what came after the
\* listing, and the directories above these; a search that failed deletes nothing (mainclass.cpp 1356).
THEOREM CleaningCleansAll == Spec => []CleansAll
<1>1. SearchInv => CleansAll
  <2> SUFFICES ASSUME SearchInv, op = "file_del", pc = "done" PROVE CleansAll
    BY DEF CleansAll
  <2>1. Entered(TRUE) = Reached
    BY DEF Reached, Entered
  <2>2. tree = IF Fails(Reached) THEN before ELSE Stays
    BY DEF SearchInv, DelInv, AllCleaned
  <2> QED
    BY <2>1, <2>2 DEF CleansAll, Stays, Kept
<1> QED
  BY <1>1, SearchInvariant, PTL

=============================================================================
