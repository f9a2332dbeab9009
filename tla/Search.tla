------------------------------- MODULE Search -------------------------------
(***************************************************************************)
(* The files an object stands for: string_match, file_search and file_del  *)
(* of support.cpp, and the cleaning that deletes what file_del lists       *)
(* (command_clean_files, and the end of do_put_file), one call for each,   *)
(* while a user adds a file.                                               *)
(*                                                                         *)
(* A name is a sequence of characters, all of one case; a path is a        *)
(* sequence of names, <<>> for the directory that is searched.  The calls  *)
(* of the two recursive functions are a stack of frames, the last one      *)
(* running.                                                                *)
(***************************************************************************)
EXTENDS Naturals, FiniteSets, SequencesExt

CONSTANTS
  DirNames,            \* the names of directories
  Trees,               \* the contents a directory may have
  Names, Masks,        \* what string_match is given
  ObjectMasks,         \* the masks of the objects that are searched
  Additions,           \* the files a user may add during the cleaning
  MaxLevel             \* MAX_RECURSE_LEVEL

VARIABLES
  op,         \* the function that is called
  pc,         \* "call", "find", "match", "error", "clean" or "done"
  str, mask,  \* the name and the mask string_match is given
  str_pos,    \* its place in the name
  pos,        \* its place in the mask
  matched,    \* its value
  recursive,  \* the object's flag
  tree,       \* the paths that exist
  unreadable, \* directories that cannot be opened
  torn,       \* directories in which FindNextFile may fail
  locked,     \* files that cannot be deleted
  drive,      \* the directory is the root of a drive: no "." is found in it
  stack,      \* the calls that run: a directory and what is left to find in it
  recurse_level,
  result,     \* the value of file_search or file_del
  missed,     \* history: what FindNextFile did not give when it failed
  list,       \* files_list or del_files, from its head
  before,     \* history: the tree that was searched
  added       \* history: the files a user has added

input    == <<op, mask, recursive, unreadable, torn, locked, drive, before>>
matching == <<str, str_pos, pos, matched>>
calls    == <<stack, recurse_level, result, missed>>
vars     == <<input, matching, calls, pc, tree, list, added>>

Word   == Seq(STRING)
Path   == Seq(Word)

IsDir(p)       == Last(p) \in DirNames
Parent(p)      == Front(p)
Children(t, p) == {q \in t : Parent(q) = p}
Above(p)       == {SubSeq(p, 1, k) : k \in 1..Len(p) - 1}

\* The first character of a directory is '.'.
IsDotted(p) == IsDir(p) /\ Head(Last(p)) = "."

\* A path of a file system goes through directories.
IsPlace(p) == p \in Path \ {<<>>} /\ \A q \in Above(p) : IsDir(q)

ASSUME SearchAssumption ==
  /\ Names \subseteq Word /\ Masks \subseteq Word /\ ObjectMasks \subseteq Word
  /\ \A t \in Trees : \A p \in t : IsPlace(p) /\ Above(p) \subseteq t
  /\ \A p \in Additions : IsPlace(p) /\ ~IsDir(p)
  /\ MaxLevel \in Nat

\* string_match and the two searches, on anything they may be given.
Init ==
  /\ recursive \in BOOLEAN /\ pc = "call"
  /\ str_pos = 1 /\ pos = 1 /\ matched = FALSE
  /\ stack = <<>> /\ recurse_level = 0 /\ result = 0 /\ missed = {}
  /\ list = <<>> /\ added = {}
  /\ \/ /\ op = "string_match" /\ str \in Names /\ mask \in Masks
        /\ recursive = FALSE /\ drive = FALSE
        /\ tree = {} /\ locked = {} /\ unreadable = {} /\ torn = {}
     \/ /\ op = "file_search" /\ str = <<>> /\ mask \in ObjectMasks
        /\ tree \in Trees /\ locked = {} /\ drive \in BOOLEAN
     \/ /\ op = "file_del" /\ str = <<>> /\ mask = <<>> /\ recursive = FALSE
        /\ tree \in Trees /\ drive \in BOOLEAN
        /\ locked \in {{}} \cup {{p} : p \in {q \in tree : ~IsDir(q)}}
  /\ op # "string_match" =>
       LET faults == {{}, {<<>>}} \cup {{p} : p \in {q \in tree : IsDir(q)}}
       IN  \/ unreadable \in faults /\ torn = {}
           \/ torn \in faults /\ unreadable = {}
  /\ before = tree

-----------------------------------------------------------------------------
(* string_match.                                                           *)

Wild == {"*", "?"}

\* The end of the literal characters of m from place j on.
TokenEnd(m, j) ==
  CHOOSE i \in j..Len(m) + 1 :
    (i <= Len(m) => m[i] \in Wild) /\ \A k \in j..i - 1 : m[k] \notin Wild

\* The characters from j to before e of m are those from i on of s.
Occurs(s, i, m, j, e) ==
  i + e - j <= Len(s) + 1 /\ \A k \in j..e - 1 : s[i + k - j] = m[k]

\* StrStrI: the first place from i on where they are, and what follows it.
Found(s, i, m, j, e) == \E h \in i..Len(s) : Occurs(s, h, m, j, e)
Place(s, i, m, j, e) ==
  CHOOSE h \in i..Len(s) : Occurs(s, h, m, j, e) /\ \A k \in i..h - 1 : ~Occurs(s, k, m, j, e)

\* Mutant: the token is found but not skipped.
AfterNotSkipped(s, i, m, j, e) == Place(s, i, m, j, e)

After(s, i, m, j, e) == Place(s, i, m, j, e) + (e - j)

\* string_match returns; file_search lists the file it asked about.
Answer(b) ==
  /\ matched' = b
  /\ IF op = "string_match"
     THEN pc' = "done" /\ UNCHANGED list
     ELSE /\ pc' = "find"
          /\ list' = IF b THEN <<Append(Last(stack).dir, str)>> \o list ELSE list
  /\ UNCHANGED <<input, calls, str, str_pos, pos, tree, added>>

Compare(s, p) ==
  /\ str_pos' = s /\ pos' = p
  /\ UNCHANGED <<input, calls, pc, str, matched, tree, list, added>>

Match ==
  /\ pc = "call" /\ op = "string_match" /\ pc' = "match"
  /\ UNCHANGED <<input, matching, calls, tree, list, added>>

\* The loop ends when the name or the mask is used up.
MatchEnds ==
  /\ pc = "match" /\ (pos > Len(mask) \/ str_pos > Len(str))
  /\ Answer(TRUE)

\* A '*' and the token after it; without a token nothing else is looked at.
MatchStar ==
  /\ pc = "match" /\ pos <= Len(mask) /\ str_pos <= Len(str) /\ mask[pos] = "*"
  /\ LET j == pos + 1
         e == TokenEnd(mask, j)
     IN  \/ e = j /\ Answer(TRUE)
         \/ e # j /\ ~Found(str, str_pos, mask, j, e) /\ Answer(FALSE)
         \/ /\ e # j /\ Found(str, str_pos, mask, j, e)
            /\ Compare(After(str, str_pos, mask, j, e), e)

MatchOne ==
  /\ pc = "match" /\ pos <= Len(mask) /\ str_pos <= Len(str) /\ mask[pos] # "*"
  /\ IF mask[pos] \in {"?", str[str_pos]} THEN Compare(str_pos + 1, pos + 1) ELSE Answer(FALSE)

-----------------------------------------------------------------------------
(* file_search and file_del: FindFirstFile and FindNextFile.               *)

\* What FindFirstFile fails with: nothing is found in the empty root of a drive.
FindError(p) ==
  CASE p \in unreadable -> 3
    [] p \notin unreadable /\ p = <<>> /\ drive /\ Children(tree, p) = {} -> 100
    [] OTHER -> 0

\* Mutant: a call leaves the level as it is.
LeaveAtLevel(n) == n

\* The end of a call, at the label out.
Leave(n) == n - 1

\* A call for the directory p, made from the calls in s.
Enter(s, p) ==
  IF recurse_level > MaxLevel
  THEN pc' = "error" /\ result' = 2 /\ stack' = s /\ UNCHANGED recurse_level
  ELSE IF FindError(p) # 0
       THEN /\ pc' = "error" /\ result' = FindError(p) /\ stack' = s
            /\ recurse_level' = Leave(recurse_level + 1)
       ELSE /\ pc' = "find" /\ stack' = Append(s, [dir |-> p, left |-> Children(tree, p)])
            /\ recurse_level' = recurse_level + 1 /\ UNCHANGED result

\* The first call, as command_enum_files and command_clean_files make it.
Call ==
  /\ pc = "call" /\ op \in {"file_search", "file_del"} /\ Enter(stack, <<>>)
  /\ UNCHANGED <<input, matching, missed, tree, list, added>>

\* What the running call has not found yet, and the calls when it has found p.
Left       == IF pc = "find" THEN Last(stack).left ELSE {}
Without(p) == [stack EXCEPT ![Len(stack)].left = @ \ {p}]
Enters(p)  == IsDir(p) /\ ~IsDotted(p) /\ (op = "file_search" => recursive)

SkipDir ==
  \E p \in Left :
    /\ IsDir(p) /\ ~Enters(p)
    /\ stack' = Without(p)
    /\ UNCHANGED <<input, matching, recurse_level, result, missed, pc, tree, list, added>>

EnterDir ==
  \E p \in Left :
    /\ Enters(p) /\ Enter(Without(p), p)
    /\ UNCHANGED <<input, matching, missed, tree, list, added>>

\* file_search asks string_match about a file.
AskFile ==
  \E p \in Left :
    /\ op = "file_search" /\ ~IsDir(p)
    /\ stack' = Without(p) /\ pc' = "match" /\ str' = Last(p) /\ str_pos' = 1 /\ pos' = 1
    /\ UNCHANGED <<input, matched, recurse_level, result, missed, tree, list, added>>

\* Mutant: at the head, as file_search does.
PutAtHead(p) == <<p>> \o list

\* Where file_del puts an entry: at the tail.
Put(p) == Append(list, p)

PutFile ==
  \E p \in Left :
    /\ op = "file_del" /\ ~IsDir(p)
    /\ stack' = Without(p) /\ list' = Put(p)
    /\ UNCHANGED <<input, matching, recurse_level, result, missed, pc, tree, added>>

\* FindNextFile fails before its end: after the first entry, and the root of a
\* drive has no "." to begin with.
Breaks(p) == p \in torn /\ (p = <<>> /\ drive => Left # Children(tree, p))

\* FindNextFile gives no more: the call has found everything, or it takes an
\* error for the end.  It returns what it has; file_del puts the directory.
Return ==
  /\ pc = "find" /\ (Left = {} \/ Breaks(Last(stack).dir)) /\ missed' = missed \cup Left
  /\ stack' = Front(stack) /\ recurse_level' = Leave(recurse_level)
  /\ list' = IF op = "file_del" /\ Last(stack).dir # <<>> THEN Put(Last(stack).dir) ELSE list
  /\ pc' = IF Len(stack) > 1 THEN pc ELSE IF op = "file_del" THEN "clean" ELSE "done"
  /\ UNCHANGED <<input, matching, result, tree, added>>

\* A call in which another one failed fails too.
Unwind ==
  /\ pc = "error" /\ stack # <<>>
  /\ stack' = Front(stack) /\ recurse_level' = Leave(recurse_level) /\ result' = 4
  /\ UNCHANGED <<input, matching, missed, pc, tree, list, added>>

\* After an error nothing is deleted or sent.
Failed ==
  /\ pc = "error" /\ stack = <<>> /\ pc' = "done"
  /\ UNCHANGED <<input, matching, calls, tree, list, added>>

-----------------------------------------------------------------------------
(* The cleaning.                                                           *)

\* DeleteFile fails for a file in use, RemoveDirectory for a directory with
\* something in it; neither result is looked at.
DeleteNext ==
  /\ pc = "clean" /\ list # <<>>
  /\ LET p == Head(list)
         keeps == IF IsDir(p) THEN Children(tree, p) # {} ELSE p \in locked
     IN tree' = IF keeps THEN tree ELSE tree \ {p}
  /\ list' = Tail(list)
  /\ UNCHANGED <<input, matching, calls, pc, added>>

Cleaned ==
  /\ pc = "clean" /\ list = <<>> /\ pc' = "done"
  /\ UNCHANGED <<input, matching, calls, tree, list, added>>

\* A user puts a file in a directory that is there.
UserAdds ==
  /\ pc = "clean" /\ added = {}
  /\ \E p \in Additions \ tree :
       /\ Parent(p) \in tree \cup {<<>>}
       /\ tree' = tree \cup {p} /\ added' = {p}
  /\ UNCHANGED <<input, matching, calls, pc, list>>

Done == pc = "done" /\ UNCHANGED vars

Next ==
  \/ Match \/ MatchEnds \/ MatchStar \/ MatchOne
  \/ Call \/ SkipDir \/ EnterDir \/ AskFile \/ PutFile \/ Return \/ Unwind \/ Failed
  \/ DeleteNext \/ Cleaned \/ UserAdds \/ Done

Spec == Init /\ [][Next]_vars

-----------------------------------------------------------------------------
(* Properties.                                                             *)

\* The places of s at which m may be: t[j] is where the character j of m begins.
Track(s, n) == {t \in [1..n -> 1..Len(s) + 1] : t[1] = 1}

\* What a mask means: '*' is anything, '?' is one character.
Fits(s, m, t, n) ==
  \A j \in 1..n :
    \/ m[j] = "*" /\ t[j] <= t[j + 1]
    \/ t[j] <= Len(s) /\ m[j] \in {"?", s[t[j]]} /\ t[j + 1] = t[j] + 1
Glob(s, m) ==
  \E t \in Track(s, Len(m) + 1) : t[Len(m) + 1] = Len(s) + 1 /\ Fits(s, m, t, Len(m))

\* Masks without "**", and without a '?' after a '*': there the search for the
\* first place of a token may miss a match, and "*?" takes every name.
Plain(m) ==
  \A i, j \in DOMAIN m :
    i < j /\ m[i] = "*" => m[j] # "?" /\ (m[j] = "*" => j > i + 1)

\* A name the mask stands for is never missed, although each token is searched
\* for once and from the left only (1264); and a name that is taken is one the
\* mask stands for but for its end: the name may go on, or may end first
\* (1244).
MatchesMask ==
  op = "string_match" /\ pc = "done" /\ Plain(mask) =>
    /\ Glob(str, mask) => matched
    /\ matched =>
         \/ Glob(str, Append(mask, "*"))
         \/ \E k \in 0..Len(mask) :
              (k = 0 \/ mask[k] # "*") /\ Glob(str, SubSeq(mask, 1, k))

\* The first k - 1 characters of m, each token at the first place there is.
Greedy(s, m, t, k) ==
  \A j \in 1..k - 1 :
    LET e == TokenEnd(m, j + 1)
    IN  IF m[j] = "*"
        THEN /\ e # j + 1 /\ Found(s, t[j], m, j + 1, e)
             /\ t[j + 1] = Place(s, t[j], m, j + 1, e)
        ELSE t[j] <= Len(s) /\ m[j] \in {"?", s[t[j]]} /\ t[j + 1] = t[j] + 1

\* What string_match takes, of any mask: it looks as far as the mask goes or the
\* name, or up to a '*' without a token.
Takes(s, m) ==
  \E k \in 1..Len(m) + 1 : \E t \in Track(s, k) :
    /\ Greedy(s, m, t, k)
    /\ k = Len(m) + 1 \/ t[k] = Len(s) + 1 \/ (m[k] = "*" /\ TokenEnd(m, k + 1) = k + 1)

InDotted(p)  == \E q \in Above(p) \cup {p} : IsDotted(q)

\* What was not given, and what lies in it.
Lost(p) == \E q \in missed : p = q \/ q \in Above(p)

\* The directories a search reaches.
Entered(all) ==
  {<<>>} \cup {p \in before : all /\ IsDir(p) /\ ~InDotted(p) /\ ~Lost(p)}
Fails(dirs) ==
  \/ \E p \in dirs : p \in unreadable \/ Len(p) > MaxLevel
  \/ drive /\ before = {}

\* file_search finds each matching file of the directories it enters once, in
\* whatever order they are found and however many directories there are, and
\* fails where a directory cannot be opened or is too deep (1300, 1338).  It
\* does not fail when FindNextFile does: the list then lacks what it did not
\* give, and nothing else (1360).
FindsExactly ==
  LET dirs == Entered(recursive)
      found == {p \in before : /\ ~IsDir(p) /\ Parent(p) \in dirs /\ ~Lost(p)
                               /\ Takes(Last(p), mask)}
  IN  op = "file_search" /\ pc = "done" =>
        /\ result = 0 <=> ~Fails(dirs)
        /\ result = 0 => ToSet(list) = found /\ Len(list) = Cardinality(found)

\* A cleaning deletes everything the directory had, whole directories too,
\* except what is in use, what is in directories with a dot, what FindNextFile
\* did not give (1451) and what lies above these; a file that came after the
\* listing survives.  A search that failed deletes nothing (mainclass.cpp 1356).
CleansAll ==
  LET kept  == added \cup (before \cap locked) \cup {p \in before : InDotted(p) \/ Lost(p)}
      above == UNION {Above(p) : p \in kept}
  IN  op = "file_del" /\ pc = "done" =>
        tree = IF Fails(Entered(TRUE)) THEN before ELSE kept \cup above
=============================================================================
