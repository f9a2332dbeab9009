--------------------------- MODULE SchedulerProofs ---------------------------
(***************************************************************************)
(* Scheduler for any number of jobs, slots, threads, reloads and faults,   *)
(* and for every interleaving of the main thread, the scheduler, the       *)
(* updater and the threads up to a clash: the counts and slots of both     *)
(* lists are exact, a job has one task at work, a reload has ended what    *)
(* the sleeping owners held, and a service that stops leaves no thread it  *)
(* knows of.                                                               *)
(***************************************************************************)
EXTENDS Scheduler, FiniteSetTheorems, WellFoundedInduction, TLAPS

-----------------------------------------------------------------------------
(* The inductive invariant.                                                *)

ConfTypes ==
  /\ jobs \subseteq Jobs /\ event \in BOOLEAN
  /\ terminated \in [Owners -> BOOLEAN] /\ reloads \in 0..MaxReloads

\* Only the scheduler is killed, only the main thread joins, and only the
\* updater replaces the configuration.
AgentTypes ==
  /\ pc \in [Agents -> Walking \cup {"wait", "join", "stopped", "killed",
                                     "idle", "clear", "load", "set"}]
  /\ pc["main"] \in Walking \cup {"wait", "join", "stopped"}
  /\ pc["sched"] \in Walking \cup {"wait", "stopped", "killed"}
  /\ pc["upd"] \in Deleting \cup {"scan", "idle", "clear", "load", "set"}
  /\ todo \in [Owners -> SUBSET (Jobs \cup {Client})]
  /\ todo["main"] \subseteq {Client} /\ todo["sched"] \subseteq Jobs
  /\ hand \in [Agents -> Threads \cup {None}] /\ drain \in [Owners -> BOOLEAN]
  /\ list \in [Agents -> Owners] /\ \A o \in Owners : list[o] = o
  /\ slot \in [Agents -> 1..MaxSlots + 1]

SlotTypes ==
  /\ slots \in [Owners -> [Indices -> Threads \cup {None}]]
  /\ count \in [Owners -> Int]

ThreadTypes ==
  /\ made \in 0..MaxThreads
  /\ work \in [Threads -> Jobs \cup {Client, None}]
  /\ tpc \in [Threads -> {"none", "suspended", "running", "exited"}]
  /\ state \in [Threads -> {"none", "suspended", "running", "ended"}]
  /\ obj \in [Threads -> {"none", "alive", "finished", "bare", "freed"}]
  /\ lost \subseteq Threads /\ faults \in 0..MaxFaults

MarkTypes == slept \in [Owners -> BOOLEAN] /\ clashed \in BOOLEAN

Types == ConfTypes /\ AgentTypes /\ SlotTypes /\ ThreadTypes /\ MarkTypes

\* The counts are the numbers of slots in use.
Counted ==
  \A o \in Owners : count[o] = Cardinality(Indices) - Cardinality(FreeSlots(o))

\* The thread an owner has created and not yet added.
Carried(t)  == \E o \in Owners : hand[o] = t /\ pc[o] \in Creating
Placed(t)   == \E o \in Owners, i \in Indices : slots[o][i] = t
\* A scheduler that is killed keeps what it carried.
Orphaned(t) == hand["sched"] = t /\ pc["sched"] = "killed"

\* A slot in use holds a thread that no other slot holds.
Exact ==
  /\ \A o \in Owners, i \in Indices : slots[o][i] # None => slots[o][i] <= made
  /\ \A o, p \in Owners, i, j \in Indices :
       slots[o][i] # None /\ slots[o][i] = slots[p][j] => o = p /\ i = j

\* A thread that is carried is new and in no list; one that is deleted is
\* the one in the slot the agent stands at.
Carries ==
  \A o \in Owners : pc[o] \in Creating =>
    /\ hand[o] \in 1..made /\ obj[hand[o]] = "alive" /\ hand[o] \notin lost
    /\ ~Placed(hand[o])
    /\ work[hand[o]] \in IF o = "main" THEN {Client} ELSE Jobs
    /\ pc[o] = "resume" => tpc[hand[o]] = "suspended"

Stands ==
  \A a \in Agents : pc[a] \in Deleting =>
    /\ slot[a] \in Indices /\ hand[a] # None
    /\ hand[a] = slots[list[a]][slot[a]]

\* Two agents never delete the same thread.
Apart ==
  \A a, b \in Agents : pc[a] \in Deleting /\ pc[b] \in Deleting /\ a # b => hand[a] # hand[b]

\* The object of a thread is gone only when its deletion has come so far, and
\* a slot holds it no longer than that.
Gone ==
  /\ \A a \in Agents : pc[a] \in Deleting => (obj[hand[a]] = "freed" <=> pc[a] = "empty")
  /\ \A o \in Owners, i \in Indices :
       slots[o][i] # None /\ obj[slots[o][i]] = "freed" =>
         \E a \in Agents : hand[a] = slots[o][i] /\ pc[a] \in {"empty", "killed"}

\* The lists share the threads by what they work for.
Shared ==
  \A i \in Indices :
    /\ slots["main"][i] # None => work[slots["main"][i]] = Client
    /\ slots["sched"][i] # None => work[slots["sched"][i]] \in Jobs

\* Hands are full only at work, or when the scheduler was killed at it; then
\* it had not slept.
Hands ==
  /\ \A a \in Agents : hand[a] # None => pc[a] \in Creating \cup Deleting \cup {"killed"}
  /\ pc["sched"] = "killed" => pc["main"] = "stopped"
  /\ pc["sched"] = "killed" /\ hand["sched"] # None =>
       /\ work[hand["sched"]] \in Jobs
       /\ pc["upd"] # "idle" => ~slept["sched"]

\* No thread is forgotten, and one that found no room is in no list.
Known ==
  /\ \A t \in 1..made : obj[t] = "freed" \/ t \in lost \/ Placed(t) \/ Carried(t) \/ Orphaned(t)
  /\ \A t \in lost : t \in 1..made /\ ~Placed(t) /\ obj[t] # "freed"

Live(t) == tpc[t] \in {"suspended", "running"}

\* A thread is known to have ended only after it has, is freed only after it
\* has, and a new one is the only one of its job.
Lives ==
  /\ \A t \in Threads : /\ state[t] = "ended" \/ obj[t] = "freed" => tpc[t] = "exited"
                        /\ t > made => tpc[t] = "none" /\ obj[t] = "none"
  /\ \A t, u \in Threads :
       t < u /\ work[t] = work[u] /\ work[t] \in Jobs /\ Live(t) /\ Live(u) => t \in lost

\* What an owner that ends has passed is empty.
Empty(o) == \A i \in Indices : slots[o][i] = None
Sweeps(a) == pc[a] \in Deleting \cup {"scan"}
Passed(a) == \A i \in Indices : i < slot[a] => slots[list[a]][i] = None

Swept ==
  /\ \A o \in Owners :
       /\ drain[o] => pc[o] \in Deleting \cup {"scan", "join", "stopped", "killed"}
       /\ drain[o] /\ Sweeps(o) => Passed(o)
       /\ pc[o] \in {"join", "stopped"} => drain[o] /\ Empty(o)
  /\ pc["main"] = "stopped" => pc["sched"] \in {"stopped", "killed"}

\* So is what the updater has passed of the lists of those who sleep.
Asleep(o) == pc[o] \in {"wait", "stopped", "killed"}

Slept ==
  /\ pc["upd"] # "idle" => ~event /\ \A o \in Owners : slept[o] => Asleep(o)
  /\ Sweeps("upd") => /\ slept[list["upd"]] => Passed("upd")
                      /\ list["upd"] = "sched" /\ slept["main"] => Empty("main")
  /\ pc["upd"] \in {"clear", "load", "set"} => \A o \in Owners : slept[o] => Empty(o)

SchedInv ==
  /\ Types /\ Counted /\ Exact /\ Carries /\ Stands /\ Apart /\ Gone /\ Shared
  /\ Known /\ Lives /\ Hands /\ Swept /\ Slept

-----------------------------------------------------------------------------
(* Numbers: the least of a set, and how many slots are free.               *)

LEMMA Least ==
  ASSUME NEW S \in SUBSET Nat, S # {}
  PROVE  \E x \in S : \A y \in S : x <= y
<1> DEFINE F == {0..k : k \in S}
           Less == StrictSubsetOrdering(Nat)
<1>1. IsWellFoundedOn(Less, FiniteSubsetsOf(Nat))
  BY FS_StrictSubsetOrderingWellFounded
<1>2. F \subseteq FiniteSubsetsOf(Nat) /\ F # {}
  <2>1. \A k \in S : k \in Nat /\ IsFiniteSet(0..k) /\ 0..k \in SUBSET Nat
    BY FS_Interval
  <2> QED
    BY <2>1 DEF FiniteSubsetsOf
<1> HIDE DEF F, Less
<1>3. PICK T \in F : \A U \in F : <<U, T>> \notin Less
  BY <1>1, <1>2, WFMin
<1>4. PICK x \in S : T = 0..x
  BY DEF F
<1>5. \A y \in S : ~(y < x)
  <2> SUFFICES ASSUME NEW y \in S, y < x PROVE FALSE
    OBVIOUS
  <2>1. x \in Nat /\ y \in Nat
    OBVIOUS
  <2>2. 0..y \subseteq 0..x /\ 0..y # 0..x
    <3>1. x \in 0..x /\ x \notin 0..y /\ \A z \in 0..y : z \in 0..x
      BY <2>1
    <3> QED
      BY <3>1
  <2>3. 0..y \in F /\ 0..y \in SUBSET Nat /\ 0..x \in SUBSET Nat
    BY <2>1 DEF F
  <2>4. <<0..y, 0..x>> \in Less
    BY <2>2, <2>3 DEF Less, StrictSubsetOrdering
  <2> QED
    BY <1>3, <1>4, <2>3, <2>4
<1> QED
  BY <1>5

\* add_task takes a free slot when there is one.
LEMMA FirstFreeFacts ==
  ASSUME NEW l \in Owners, FreeSlots(l) # {}
  PROVE  FirstFree(l) \in FreeSlots(l) /\ FirstFree(l) \in Indices
<1>1. FreeSlots(l) \in SUBSET Nat /\ FreeSlots(l) \subseteq Indices
  BY SchedulerAssumption DEF FreeSlots, Indices
<1>2. \E k \in FreeSlots(l) : \A m \in FreeSlots(l) : k <= m
  BY <1>1, Least
<1> QED
  BY <1>1, <1>2 DEF FirstFree

LEMMA FreeFinite ==
  /\ IsFiniteSet(Indices) /\ Cardinality(Indices) = MaxSlots
  /\ \A l \in Owners : IsFiniteSet(FreeSlots(l)) /\ Cardinality(FreeSlots(l)) \in 0..MaxSlots
<1>1. IsFiniteSet(Indices) /\ Cardinality(Indices) = MaxSlots
  BY FS_Interval, SchedulerAssumption DEF Indices
<1>2. ASSUME NEW l \in Owners
      PROVE  IsFiniteSet(FreeSlots(l)) /\ Cardinality(FreeSlots(l)) \in 0..MaxSlots
  <2>1. FreeSlots(l) \in SUBSET Indices
    BY DEF FreeSlots
  <2>2. IsFiniteSet(FreeSlots(l)) /\ Cardinality(FreeSlots(l)) <= MaxSlots
    BY <1>1, <2>1, FS_Subset
  <2>3. Cardinality(FreeSlots(l)) \in Nat
    BY <2>2, FS_CardinalityType
  <2> QED
    BY <2>2, <2>3, SchedulerAssumption
<1> QED
  BY <1>1, <1>2

-----------------------------------------------------------------------------
(* The steps, and the types they keep.                                     *)

LEMMA Two ==
  /\ Owners = {"main", "sched"} /\ Agents = {"main", "sched", "upd"}
  /\ Owners \subseteq Agents
  BY DEF Owners, Agents

LEMMA Cases ==
  ASSUME [Next]_vars
  PROVE  \/ \E o \in Owners : \/ BeginPass(o) \/ Resume(o) \/ Add(o) \/ EndPass(o) \/ OwnerScanned(o)
                             \/ \E w \in Jobs \cup {Client} : Skip(o, w) \/ Create(o, w)
         \/ \E a \in Agents : \/ ScanNext(a) \/ ScanFound(a)
                             \/ DeleteEnd(a) \/ DeleteAwait(a) \/ DeleteFree(a) \/ DeleteEmpty(a)
                             \/ Clash(a)
         \/ Join \/ BeginReload \/ ReloadScanned \/ Clear \/ Load \/ EndReload
         \/ UpdateExe \/ Stop
         \/ \E t \in Threads : ThreadEnd(t)
         \/ UNCHANGED vars
<1>1. \A o \in Owners : Owner(o) =>
        \/ BeginPass(o) \/ Resume(o) \/ Add(o) \/ EndPass(o) \/ OwnerScanned(o)
        \/ ScanNext(o) \/ ScanFound(o) \/ DeleteEnd(o) \/ DeleteAwait(o) \/ DeleteFree(o)
        \/ DeleteEmpty(o) \/ Clash(o)
        \/ \E w \in Jobs \cup {Client} : Skip(o, w) \/ Create(o, w)
  BY DEF Owner, Scan
<1>2. Next => \/ \E o \in Owners : Owner(o)
              \/ Join \/ Scan("upd") \/ Clash("upd") \/ BeginReload \/ ReloadScanned \/ Clear \/ Load \/ EndReload
              \/ UpdateExe \/ Stop \/ (\E t \in Threads : ThreadEnd(t)) \/ UNCHANGED vars
  BY DEF Next, MainThread, SchedThread, Reload, Begin, Work, Owners, Finished
<1>3. Owners \subseteq Agents /\ "upd" \in Agents
  BY DEF Agents
<1> QED
  BY <1>1, <1>2, <1>3 DEF Scan

LEMMA Living ==
  ASSUME [Next]_vars
  PROVE  (~clashed /\ pc["main"] # "stopped") \/ UNCHANGED vars
  BY DEF Next, MainThread, SchedThread, Reload, Begin, Work, Finished, Alive

LEMMA MarkTypesStep ==
  ASSUME Types, [Next]_vars
  PROVE  MarkTypes'
<1> USE DEF Types
<1>1. ASSUME NEW o \in Owners, BeginPass(o)
      PROVE  MarkTypes'
  <2>1. slept' = [slept EXCEPT ![o] = @ /\ event] /\ clashed' = clashed
    BY <1>1 DEF BeginPass
  <2>2. slept[o] \in BOOLEAN /\ event \in BOOLEAN
    BY DEF MarkTypes, ConfTypes
  <2>3. (slept[o] /\ event) \in BOOLEAN
    OBVIOUS
  <2> QED
    BY <2>1, <2>3 DEF MarkTypes
<1>2. CASE BeginReload
  <2>1. slept' = [o \in Owners |-> pc[o] \notin Walking] /\ clashed' = clashed
    BY <1>2 DEF BeginReload
  <2>2. \A o \in Owners : (pc[o] \notin Walking) \in BOOLEAN
    OBVIOUS
  <2> QED
    BY <2>1, <2>2 DEF MarkTypes
<1>3. CASE EndReload
  BY <1>3 DEF EndReload, MarkTypes
<1>4. ASSUME NEW a \in Agents, Clash(a)
      PROVE  MarkTypes'
  BY <1>4 DEF Clash, MarkTypes
<1>5. CASE UNCHANGED <<slept, clashed>>
  BY <1>5 DEF MarkTypes
<1> QED
  BY <1>1, <1>2, <1>3, <1>4, <1>5, Cases
     DEF Skip, Create, Resume, Add, EndPass, ScanNext, ScanFound, DeleteEnd, DeleteAwait,
          DeleteFree, DeleteEmpty, OwnerScanned, Join, ReloadScanned, Clear, Load,
               UpdateExe, Stop, ThreadEnd, vars, marks

LEMMA ConfTypesStep ==
  ASSUME Types, [Next]_vars
  PROVE  ConfTypes'
<1> USE DEF Types
<1>1. ASSUME NEW o \in Owners, OwnerScanned(o)
      PROVE  ConfTypes'
  BY <1>1 DEF OwnerScanned, ConfTypes, Owners
<1>2. CASE BeginReload
  <2>1. reloads < MaxReloads /\ reloads' = reloads + 1 /\ event' = FALSE
    BY <1>2 DEF BeginReload
  <2>2. UNCHANGED <<jobs, terminated>>
    BY <1>2 DEF BeginReload
  <2>3. reloads' \in 0..MaxReloads
    BY <2>1, SchedulerAssumption DEF ConfTypes
  <2>4. event' \in BOOLEAN
    BY <2>1
  <2> QED
    BY <2>2, <2>3, <2>4 DEF ConfTypes
<1>3. CASE Clear
  BY <1>3 DEF Clear, ConfTypes, Owners
<1>4. CASE Load
  BY <1>4 DEF Load, ConfTypes, Owners
<1>5. CASE EndReload
  BY <1>5 DEF EndReload, ConfTypes, Owners
<1>6. CASE UpdateExe
  BY <1>6 DEF UpdateExe, ConfTypes, Owners
<1>7. CASE Stop
  BY <1>7 DEF Stop, ConfTypes, Owners
<1>8. CASE UNCHANGED <<conf>>
  BY <1>8 DEF ConfTypes, conf
<1> QED
  BY <1>1, <1>2, <1>3, <1>4, <1>5, <1>6, <1>7, <1>8, Cases
     DEF BeginPass, Skip, Create, Resume, Add, EndPass, ScanNext, ScanFound, DeleteEnd,
          DeleteAwait, DeleteFree, DeleteEmpty, Clash, Join, ReloadScanned, ThreadEnd,
               vars, conf, agents, lists, threads

LEMMA SlotTypesStep ==
  ASSUME Types, [Next]_vars
  PROVE  SlotTypes'
<1> USE DEF Types
<1>1. ASSUME NEW o \in Owners, Add(o)
      PROVE  SlotTypes'
  <2>1. hand[o] \in Threads \cup {None}
    BY DEF AgentTypes, Agents
  <2>2. slots' = slots \/ \E i \in Indices : slots' = [slots EXCEPT ![o][i] = hand[o]]
    BY <1>1, FirstFreeFacts DEF Add, lists
  <2>3. count' = count \/ count' = [count EXCEPT ![o] = @ + 1]
    BY <1>1 DEF Add, lists
  <2> QED
    BY <2>1, <2>2, <2>3 DEF SlotTypes
<1>2. ASSUME NEW a \in Agents, DeleteEmpty(a)
      PROVE  SlotTypes'
  <2>1. PICK l \in Owners : l = list[a]
    BY Two DEF AgentTypes
  <2>2. slots' = [slots EXCEPT ![l] = [@ EXCEPT ![slot[a]] = None]]
    BY <1>2, <2>1 DEF DeleteEmpty
  <2>3. count' = [count EXCEPT ![l] = @ - 1]
    BY <1>2, <2>1 DEF DeleteEmpty
  <2>4. [slots[l] EXCEPT ![slot[a]] = None] \in [Indices -> Threads \cup {None}]
    BY DEF SlotTypes
  <2>5. slots' \in [Owners -> [Indices -> Threads \cup {None}]]
    BY <2>2, <2>4 DEF SlotTypes
  <2>6. count' \in [Owners -> Int]
    BY <2>3 DEF SlotTypes
  <2> QED
    BY <2>5, <2>6 DEF SlotTypes
<1>3. CASE UNCHANGED <<slots, count>>
  BY <1>3 DEF SlotTypes
<1> QED
  BY <1>1, <1>2, <1>3, Cases
     DEF BeginPass, Skip, Create, Resume, EndPass, ScanNext, ScanFound, DeleteEnd,
          DeleteAwait, DeleteFree, Clash, OwnerScanned, Join, BeginReload, ReloadScanned, Clear, Load,
               EndReload, UpdateExe, Stop, ThreadEnd, vars, conf, agents, lists, threads

LEMMA ThreadTypesStep ==
  ASSUME Types, Carries, Stands, [Next]_vars
  PROVE  ThreadTypes'
<1> USE DEF Types
<1>0. /\ \A o \in Owners : pc[o] \in Creating => hand[o] \in Threads
      /\ \A a \in Agents : pc[a] \in Deleting => hand[a] \in Threads
  BY SchedulerAssumption DEF Carries, Stands, AgentTypes, ThreadTypes, Threads
<1>1. ASSUME NEW o \in Owners, NEW w \in Jobs \cup {Client}, Create(o, w)
      PROVE  ThreadTypes'
  BY <1>1, SchedulerAssumption DEF Create, Threads, ThreadTypes
<1>2. ASSUME NEW o \in Owners, Resume(o)
      PROVE  ThreadTypes'
  BY <1>2, <1>0 DEF Resume, Creating, ThreadTypes
<1>3. ASSUME NEW o \in Owners, Add(o)
      PROVE  ThreadTypes'
  BY <1>3, <1>0 DEF Add, Creating, ThreadTypes
<1>4. ASSUME NEW a \in Agents, DeleteEnd(a)
      PROVE  ThreadTypes'
  BY <1>4, <1>0 DEF DeleteEnd, Deleting, ThreadTypes
<1>5. ASSUME NEW a \in Agents, DeleteAwait(a)
      PROVE  ThreadTypes'
  BY <1>5, <1>0, SchedulerAssumption DEF DeleteAwait, Deleting, Fault, ThreadTypes
<1>6. ASSUME NEW a \in Agents, DeleteFree(a)
      PROVE  ThreadTypes'
  BY <1>6, <1>0 DEF DeleteFree, Deleting, ThreadTypes
<1>7. CASE Join
  BY <1>7, SchedulerAssumption DEF Join, Fault, threads, ThreadTypes
<1>8. ASSUME NEW t \in Threads, ThreadEnd(t)
      PROVE  ThreadTypes'
  BY <1>8 DEF ThreadEnd, ThreadTypes
<1>9. CASE UNCHANGED <<threads, faults>>
  BY <1>9 DEF ThreadTypes, threads
<1> QED
  BY <1>1, <1>2, <1>3, <1>4, <1>5, <1>6, <1>7, <1>8, <1>9, Cases
     DEF BeginPass, Skip, EndPass, ScanNext, ScanFound, DeleteEmpty, Clash, OwnerScanned,
          BeginReload,
          ReloadScanned, Clear, Load, EndReload, UpdateExe, Stop, vars, conf, agents,
               lists, threads

\* An agent that stands at a slot goes on to one that is in range.
LEMMA SlotRange ==
  ASSUME Types, NEW a \in Agents, slot[a] <= MaxSlots, ScanOn(a)
  PROVE  slot' \in [Agents -> 1..MaxSlots + 1]
<1>1. slot[a] + 1 \in 1..MaxSlots + 1
  BY SchedulerAssumption DEF Types, AgentTypes
<1> QED
  BY <1>1 DEF ScanOn, Types, AgentTypes

LEMMA StartRange ==
  ASSUME Types, NEW a \in Agents, NEW l \in Owners, StartScan(a, l), a \in Owners => l = a
  PROVE  /\ list' \in [Agents -> Owners] /\ \A o \in Owners : list'[o] = o
         /\ slot' \in [Agents -> 1..MaxSlots + 1]
<1>1. 1 \in 1..MaxSlots + 1
  BY SchedulerAssumption
<1> QED
  BY <1>1 DEF StartScan, Types, AgentTypes, Agents

LEMMA AgentTypesStep ==
  ASSUME Types, Carries, Stands, [Next]_vars
  PROVE  AgentTypes'
<1> USE DEF Types
<1>0. Owners = {"main", "sched"} /\ Agents = {"main", "sched", "upd"}
  BY DEF Owners, Agents
<1>1. ASSUME NEW o \in Owners, BeginPass(o)
      PROVE  AgentTypes'
  <2>1. CASE StartScan(o, o) /\ Goto(o, "scan")
    <3>1. /\ list' \in [Agents -> Owners] /\ \A p \in Owners : list'[p] = p
          /\ slot' \in [Agents -> 1..MaxSlots + 1]
      BY <2>1, StartRange DEF Agents
    <3>3. hand' = hand /\ pc' = [pc EXCEPT ![o] = "scan"]
      BY <1>1, <2>1 DEF BeginPass, Goto
    <3>4. drain' \in [Owners -> BOOLEAN] /\ todo' = todo
      BY <1>1, <2>1, <3>3, <1>0 DEF BeginPass, Goto, AgentTypes
    <3> QED
      BY <3>1, <3>3, <3>4, <1>0 DEF AgentTypes, Walking
  <2>2. CASE ~(StartScan(o, o) /\ Goto(o, "scan"))
    <3>1. /\ pc' = [pc EXCEPT ![o] = "pass"] /\ UNCHANGED <<hand, drain, list, slot>>
          /\ todo' = [todo EXCEPT ![o] = IF o = "sched" THEN jobs ELSE {Client}]
      BY <1>1, <2>2 DEF BeginPass, Goto
    <3> QED
      BY <3>1, <1>0 DEF AgentTypes, ConfTypes, Walking
  <2> QED
    BY <2>1, <2>2
<1>2. ASSUME NEW o \in Owners, NEW w \in Jobs \cup {Client}, Skip(o, w)
      PROVE  AgentTypes'
  BY <1>2, <1>0 DEF Skip, AgentTypes, Goto, Walking, Creating, Deleting
<1>3. ASSUME NEW o \in Owners, NEW w \in Jobs \cup {Client}, Create(o, w)
      PROVE  AgentTypes'
  <2>1. pc' = [pc EXCEPT ![o] = "resume"] /\ UNCHANGED <<drain, list, slot>>
    BY <1>3 DEF Create, Goto
  <2>2. hand' = [hand EXCEPT ![o] = made + 1] /\ made + 1 \in Threads
    BY <1>3, SchedulerAssumption DEF Create, ThreadTypes, Threads
  <2>3. todo' = [todo EXCEPT ![o] = @ \ {w}]
    BY <1>3 DEF Create
  <2> QED
    BY <2>1, <2>2, <2>3, <1>0 DEF AgentTypes, Walking, Creating
<1>4. ASSUME NEW o \in Owners, Resume(o)
      PROVE  AgentTypes'
  BY <1>4, <1>0 DEF Resume, AgentTypes, Goto, Walking, Creating, Deleting
<1>5. ASSUME NEW o \in Owners, Add(o)
      PROVE  AgentTypes'
  BY <1>5, <1>0 DEF Add, AgentTypes, Goto, Walking, Creating, Deleting
<1>6. ASSUME NEW o \in Owners, EndPass(o)
      PROVE  AgentTypes'
  BY <1>6, <1>0, StartRange DEF EndPass, AgentTypes, Goto, Walking, Creating, Deleting
<1>7. ASSUME NEW a \in Agents, ScanNext(a)
      PROVE  AgentTypes'
  BY <1>7, <1>0, SlotRange DEF ScanNext, AgentTypes, Goto, Walking, Creating, Deleting
<1>8. ASSUME NEW a \in Agents, ScanFound(a)
      PROVE  AgentTypes'
  <2>1. pc' = [pc EXCEPT ![a] = "end"] /\ UNCHANGED <<todo, drain, list, slot>>
    BY <1>8 DEF ScanFound, Goto
  <2>2. hand' = [hand EXCEPT ![a] = Found(a)]
    BY <1>8 DEF ScanFound
  <2>3. slot[a] \in Indices /\ list[a] \in Owners
    BY <1>8, SchedulerAssumption DEF ScanFound, AgentTypes, Indices
  <2>4. Found(a) \in Threads \cup {None}
    BY <2>3 DEF Found, SlotTypes
  <2> QED
    BY <2>1, <2>2, <2>4, <1>0 DEF AgentTypes, Walking, Deleting
<1>9. ASSUME NEW a \in Agents, DeleteEnd(a)
      PROVE  AgentTypes'
  BY <1>9, <1>0 DEF DeleteEnd, AgentTypes, Goto, Walking, Creating, Deleting
<1>10. ASSUME NEW a \in Agents, DeleteAwait(a)
      PROVE  AgentTypes'
  BY <1>10, <1>0 DEF DeleteAwait, AgentTypes, Goto, Walking, Creating, Deleting
<1>11. ASSUME NEW a \in Agents, DeleteEmpty(a)
      PROVE  AgentTypes'
  <2>1. slot[a] <= MaxSlots
    BY <1>11 DEF DeleteEmpty, Stands, Deleting, Indices
  <2>2. slot' \in [Agents -> 1..MaxSlots + 1]
    BY <1>11, <2>1, SlotRange DEF DeleteEmpty
  <2>3. pc' = [pc EXCEPT ![a] = "scan"] /\ hand' = [hand EXCEPT ![a] = None]
    BY <1>11 DEF DeleteEmpty, Goto
  <2>4. UNCHANGED <<todo, drain, list>>
    BY <1>11 DEF DeleteEmpty
  <2> QED
    BY <2>2, <2>3, <2>4, <1>0 DEF AgentTypes, Walking
<1>12. ASSUME NEW o \in Owners, OwnerScanned(o)
      PROVE  AgentTypes'
  BY <1>12, <1>0 DEF OwnerScanned, AgentTypes, Goto, Walking, Creating, Deleting
<1>13. CASE Join
  BY <1>13, <1>0 DEF Join, AgentTypes, Goto, Walking, Creating, Deleting
<1>14. CASE BeginReload
  BY <1>14, <1>0, StartRange DEF BeginReload, AgentTypes, Goto, Walking, Creating, Deleting
<1>15. CASE ReloadScanned
  BY <1>15, <1>0, StartRange DEF ReloadScanned, AgentTypes, Goto, Walking, Creating,
       Deleting
<1>16. CASE Clear
  BY <1>16, <1>0 DEF Clear, AgentTypes, Goto, Walking, Creating, Deleting
<1>17. CASE Load
  BY <1>17, <1>0 DEF Load, AgentTypes, Goto, Walking, Creating, Deleting
<1>18. CASE EndReload
  BY <1>18, <1>0 DEF EndReload, AgentTypes, Goto, Walking, Creating, Deleting
<1>20. ASSUME NEW a \in Agents, DeleteFree(a)
      PROVE  AgentTypes'
  BY <1>20, <1>0 DEF DeleteFree, AgentTypes, Goto, Walking, Creating, Deleting
<1>19. CASE UNCHANGED <<agents>>
  BY <1>19 DEF AgentTypes, agents
<1> QED
  BY <1>1, <1>2, <1>3, <1>4, <1>5, <1>6, <1>7, <1>8, <1>9, <1>10, <1>11, <1>12, <1>13,
       <1>14, <1>15, <1>16, <1>17, <1>18, <1>19, <1>20, Cases
     DEF Clash, UpdateExe, Stop, ThreadEnd, vars, conf, agents, lists, threads

-----------------------------------------------------------------------------
(* What each part of the invariant needs to be kept.                       *)

LEMMA CountedStep ==
  ASSUME SchedInv, [Next]_vars
  PROVE  Counted'
<1> USE DEF SchedInv, Types
<1>0. \A l \in Owners : \A i \in Indices : i \in FreeSlots(l) <=> slots[l][i] = None
  BY DEF FreeSlots
<1>1. ASSUME NEW o \in Owners, Add(o)
      PROVE  Counted'
  <2>1. CASE UNCHANGED lists
    BY <2>1 DEF lists, Counted, FreeSlots
  <2>2. CASE ~UNCHANGED lists
    <3>1. /\ slots' = [slots EXCEPT ![o][FirstFree(o)] = hand[o]]
          /\ count' = [count EXCEPT ![o] = @ + 1] /\ FreeSlots(o) # {}
      BY <1>1, <2>2 DEF Add
    <3>2. FirstFree(o) \in FreeSlots(o) /\ FirstFree(o) \in Indices
      BY <3>1, FirstFreeFacts
    <3>3. hand[o] # None
      BY <1>1, SchedulerAssumption DEF Add, Creating, Carries, ThreadTypes
    <3>4. FreeSlots(o)' = FreeSlots(o) \ {FirstFree(o)}
      BY <3>1, <3>2, <3>3 DEF FreeSlots, SlotTypes
    <3>5. Cardinality(FreeSlots(o)') = Cardinality(FreeSlots(o)) - 1
      BY <3>2, <3>4, FreeFinite, FS_RemoveElement
    <3>6. \A p \in Owners \ {o} : FreeSlots(p)' = FreeSlots(p)
      BY <3>1 DEF FreeSlots, SlotTypes
    <3>7. count'[o] = Cardinality(Indices) - Cardinality(FreeSlots(o)')
      BY <3>1, <3>5, FreeFinite, SchedulerAssumption DEF Counted, SlotTypes
    <3>8. \A p \in Owners \ {o} : count'[p] = Cardinality(Indices) - Cardinality(FreeSlots(p)')
      BY <3>1, <3>6 DEF Counted, SlotTypes
    <3> QED
      BY <3>7, <3>8 DEF Counted
  <2> QED
    BY <2>1, <2>2
<1>2. ASSUME NEW a \in Agents, DeleteEmpty(a)
      PROVE  Counted'
  <2>1. PICK l \in Owners : l = list[a]
    BY Two DEF AgentTypes
  <2>2. PICK i \in Indices : i = slot[a] /\ slots[l][i] # None
    BY <1>2, <2>1 DEF DeleteEmpty, Stands, Deleting
  <2>3. slots' = [slots EXCEPT ![l][i] = None] /\ count' = [count EXCEPT ![l] = @ - 1]
    BY <1>2, <2>1, <2>2 DEF DeleteEmpty
  <2>4. FreeSlots(l)' = FreeSlots(l) \cup {i} /\ i \notin FreeSlots(l)
    BY <2>2, <2>3 DEF FreeSlots, SlotTypes
  <2>5. Cardinality(FreeSlots(l)') = Cardinality(FreeSlots(l)) + 1
    BY <2>4, FreeFinite, FS_AddElement
  <2>6. \A p \in Owners \ {l} : FreeSlots(p)' = FreeSlots(p)
    BY <2>3 DEF FreeSlots, SlotTypes
  <2>7. count'[l] = Cardinality(Indices) - Cardinality(FreeSlots(l)')
    BY <2>3, <2>5, FreeFinite, SchedulerAssumption DEF Counted, SlotTypes
  <2>8. \A p \in Owners \ {l} : count'[p] = Cardinality(Indices) - Cardinality(FreeSlots(p)')
    BY <2>3, <2>6 DEF Counted, SlotTypes
  <2> QED
    BY <2>7, <2>8 DEF Counted
<1>3. CASE UNCHANGED <<slots, count>>
  BY <1>3 DEF Counted, FreeSlots
<1> QED
  BY <1>1, <1>2, <1>3, Cases
     DEF BeginPass, Skip, Create, Resume, EndPass, ScanNext, ScanFound, DeleteEnd,
          DeleteAwait, DeleteFree, Clash, OwnerScanned, Join, BeginReload, ReloadScanned, Clear, Load,
               EndReload, UpdateExe, Stop, ThreadEnd, vars, conf, agents, lists, threads

LEMMA ExactStep ==
  ASSUME SchedInv, [Next]_vars
  PROVE  Exact'
<1> USE DEF SchedInv, Types
<1>1. ASSUME NEW o \in Owners, NEW w \in Jobs \cup {Client}, Create(o, w)
      PROVE  Exact'
  BY <1>1, SchedulerAssumption DEF Create, lists, Exact, SlotTypes, ThreadTypes, Threads
<1>2. ASSUME NEW o \in Owners, Add(o)
      PROVE  Exact'
  <2>1. CASE UNCHANGED slots
    BY <1>2, <2>1 DEF Add, Exact
  <2>2. CASE ~UNCHANGED slots
    <3>1. PICK i \in FreeSlots(o) : slots' = [slots EXCEPT ![o][i] = hand[o]]
      BY <1>2, <2>2, FirstFreeFacts DEF Add, lists
    <3>2. hand[o] \in 1..made /\ ~Placed(hand[o])
      BY <1>2 DEF Add, Creating, Carries
    <3>3. \A p \in Owners, j \in Indices : slots[p][j] # hand[o]
      BY <3>2 DEF Placed
    <3>4. \A p \in Owners, j \in Indices :
            slots'[p][j] = IF p = o /\ j = i THEN hand[o] ELSE slots[p][j]
      BY <3>1 DEF FreeSlots, SlotTypes
    <3>5. made' = made
      BY <1>2 DEF Add
    <3>6. ASSUME NEW p \in Owners, NEW j \in Indices, slots'[p][j] # None
          PROVE  slots'[p][j] <= made'
      BY <3>2, <3>4, <3>5, <3>6, SchedulerAssumption DEF Exact, ThreadTypes
    <3>7. ASSUME NEW p \in Owners, NEW q \in Owners, NEW j \in Indices, NEW k \in Indices,
                 slots'[p][j] # None, slots'[p][j] = slots'[q][k]
          PROVE  p = q /\ j = k
      BY <3>3, <3>4, <3>7 DEF Exact
    <3> QED
      BY <3>6, <3>7 DEF Exact
  <2> QED
    BY <2>1, <2>2
<1>3. ASSUME NEW a \in Agents, DeleteEmpty(a)
      PROVE  Exact'
  <2>1. made' = made
    BY <1>3 DEF DeleteEmpty, threads
  <2>2. \A p \in Owners, j \in Indices : slots'[p][j] \in {slots[p][j], None}
    BY <1>3 DEF DeleteEmpty, SlotTypes
  <2> QED
    BY <2>1, <2>2 DEF Exact
<1>4. CASE UNCHANGED <<slots, made>>
  BY <1>4 DEF Exact
<1> QED
  BY <1>1, <1>2, <1>3, <1>4, Cases
     DEF BeginPass, Skip, Resume, EndPass, ScanNext, ScanFound, DeleteEnd, DeleteAwait,
          DeleteFree, Clash, OwnerScanned, Join, BeginReload, ReloadScanned, Clear, Load,
               EndReload, UpdateExe, Stop, ThreadEnd, vars, conf, agents, lists, threads

\* What is carried is in no list, what is deleted is in one.
LEMMA HandsApart ==
  ASSUME SchedInv
  PROVE  /\ \A a \in Agents : pc[a] \in Deleting =>
              /\ list[a] \in Owners /\ slot[a] \in Indices
              /\ hand[a] \in 1..made /\ hand[a] \in Threads /\ hand[a] # None
              /\ slots[list[a]][slot[a]] = hand[a]
              /\ Placed(hand[a]) /\ hand[a] \notin lost
         /\ \A p \in Owners : pc[p] \in Creating =>
              /\ hand[p] \in Threads /\ hand[p] # None
              /\ \A a \in Agents : pc[a] \in Deleting => hand[a] # hand[p]
              /\ \A q \in Owners : pc[q] \in Creating /\ hand[q] = hand[p] => p = q
<1> USE DEF SchedInv, Types
<1>1. ASSUME NEW a \in Agents, pc[a] \in Deleting
      PROVE  /\ list[a] \in Owners /\ slot[a] \in Indices
             /\ hand[a] \in 1..made /\ hand[a] \in Threads /\ hand[a] # None
             /\ slots[list[a]][slot[a]] = hand[a]
             /\ Placed(hand[a]) /\ hand[a] \notin lost
  <2>1. list[a] \in Owners /\ slot[a] \in Indices /\ hand[a] # None
    BY <1>1 DEF AgentTypes, Stands
  <2>2. slots[list[a]][slot[a]] = hand[a] /\ hand[a] \in Threads
    BY <1>1, <2>1 DEF Stands, AgentTypes
  <2>3. Placed(hand[a])
    BY <2>1, <2>2 DEF Placed
  <2>4. hand[a] <= made
    BY <2>1, <2>2 DEF Exact
  <2> QED
    BY <2>1, <2>2, <2>3, <2>4, SchedulerAssumption DEF Known, ThreadTypes, Threads
<1>2. ASSUME NEW p \in Owners, pc[p] \in Creating
      PROVE  /\ hand[p] \in Threads /\ hand[p] # None
             /\ \A a \in Agents : pc[a] \in Deleting => hand[a] # hand[p]
             /\ \A q \in Owners : pc[q] \in Creating /\ hand[q] = hand[p] => p = q
  <2>1. hand[p] \in Threads /\ hand[p] # None
    BY <1>2, SchedulerAssumption DEF Carries, ThreadTypes, Threads
  <2>2. \A a \in Agents : pc[a] \in Deleting => hand[a] # hand[p]
    BY <1>1, <1>2 DEF Carries
  <2>3. \A q \in Owners : pc[q] \in Creating /\ hand[q] = hand[p] => p = q
    BY <1>2, Two, SchedulerAssumption DEF Carries
  <2> QED
    BY <2>1, <2>2, <2>3
<1> QED
  BY <1>1, <1>2

\* A step that creates nothing and adds nothing leaves what is carried.
LEMMA CarriesKept ==
  ASSUME Carries, UNCHANGED <<made, work, lost>>,
         \A p \in Owners, i \in Indices : slots'[p][i] \in {slots[p][i], None},
         \A p \in Owners : pc'[p] \in Creating =>
           /\ pc'[p] = pc[p] /\ hand'[p] = hand[p] /\ hand[p] # None
           /\ obj'[hand[p]] = obj[hand[p]]
           /\ pc[p] = "resume" => tpc'[hand[p]] = tpc[hand[p]]
  PROVE  Carries'
  BY DEF Carries, Placed, Creating

LEMMA CarriesStep ==
  ASSUME SchedInv, [Next]_vars
  PROVE  Carries'
<1> USE DEF SchedInv, Types
<1>0. \A p \in Owners : pc[p] \in Creating => hand[p] # None
  BY HandsApart
<1>1. ASSUME NEW o \in Owners, BeginPass(o)
      PROVE  Carries'
  BY <1>1, <1>0, CarriesKept, Two DEF BeginPass, AgentTypes, Goto, Creating, lists, threads
<1>2. ASSUME NEW o \in Owners, NEW w \in Jobs \cup {Client}, Create(o, w)
      PROVE  Carries'
  <2>1. /\ made' = made + 1 /\ hand' = [hand EXCEPT ![o] = made + 1]
        /\ work' = [work EXCEPT ![made + 1] = w]
        /\ tpc' = [tpc EXCEPT ![made + 1] = "suspended"]
        /\ obj' = [obj EXCEPT ![made + 1] = "alive"]
        /\ pc' = [pc EXCEPT ![o] = "resume"] /\ UNCHANGED <<slots, lost>>
    BY <1>2 DEF Create, Goto, lists
  <2>2. made \in Nat /\ made + 1 \in Threads
    BY <1>2, SchedulerAssumption DEF Create, ThreadTypes, Threads
  <2>3. made + 1 \notin lost /\ ~Placed(made + 1)
    <3>1. made + 1 # None
      BY <2>2, SchedulerAssumption DEF Threads
    <3> QED
      BY <2>2, <3>1 DEF Known, Placed, Exact
  <2>4. w \in IF o = "main" THEN {Client} ELSE Jobs
    BY <1>2, Two DEF Create, AgentTypes
  <2>5. \A p \in Owners \ {o} : pc[p] \in Creating => hand[p] # made + 1 /\ hand[p] \in Threads
    BY <2>2, HandsApart DEF Carries
  <2>6. ASSUME NEW p \in Owners \ {o}, pc'[p] \in Creating
        PROVE  /\ hand'[p] \in 1..made' /\ obj'[hand'[p]] = "alive" /\ hand'[p] \notin lost'
               /\ ~Placed(hand[p])
               /\ work'[hand'[p]] \in IF p = "main" THEN {Client} ELSE Jobs
               /\ pc'[p] = "resume" => tpc'[hand'[p]] = "suspended"
    <3>1. pc'[p] = pc[p] /\ hand'[p] = hand[p]
      BY <2>1, Two DEF AgentTypes
    <3> QED
      BY <2>1, <2>2, <2>5, <2>6, <3>1 DEF Carries, ThreadTypes
  <2>7. /\ hand'[o] = made + 1 /\ obj'[made + 1] = "alive" /\ work'[made + 1] = w
        /\ tpc'[made + 1] = "suspended"
    BY <2>1, <2>2, Two DEF AgentTypes, ThreadTypes
  <2>8. \A p \in Owners : hand'[p] = hand[p] \/ p = o
    BY <2>1, Two DEF AgentTypes
  <2>9. \A t : Placed(t)' <=> Placed(t)
    BY <2>1 DEF Placed
  <2> QED
    BY <2>1, <2>2, <2>3, <2>4, <2>6, <2>7, <2>8, <2>9 DEF Carries
<1>3. ASSUME NEW o \in Owners, Resume(o)
      PROVE  Carries'
  <2>1. pc' = [pc EXCEPT ![o] = "add"] /\ pc[o] \in Creating
    BY <1>3 DEF Resume, Goto, Creating
  <2>2. UNCHANGED <<hand, slots, made, work, obj, lost>>
    BY <1>3 DEF Resume, lists
  <2>3. \A p \in Owners \ {o} : pc[p] = "resume" => tpc'[hand[p]] = tpc[hand[p]]
    BY <1>3, <2>1, HandsApart DEF Resume, ThreadTypes, Creating
  <2> QED
    BY <2>1, <2>2, <2>3, Two DEF Carries, Placed, AgentTypes, Creating
<1>4. ASSUME NEW o \in Owners, Add(o)
      PROVE  Carries'
  <2>1. /\ pc' = [pc EXCEPT ![o] = "pass"] /\ hand' = [hand EXCEPT ![o] = None]
        /\ UNCHANGED <<made, work, tpc, obj>> /\ pc[o] \in Creating
    BY <1>4 DEF Add, Goto, Creating
  <2>2. \A p \in Owners : pc'[p] \in Creating =>
          /\ p # o /\ pc'[p] = pc[p] /\ hand'[p] = hand[p] /\ hand[p] # hand[o] /\ hand[p] # None
    BY <2>1, <1>0, Two, HandsApart DEF AgentTypes, Creating
  <2>3. \A p \in Owners, i \in Indices : slots'[p][i] \in {slots[p][i], hand[o]}
    <3>1. UNCHANGED slots \/ \E i \in Indices : slots' = [slots EXCEPT ![o][i] = hand[o]]
      BY <1>4, FirstFreeFacts DEF Add, lists
    <3> QED
      BY <3>1 DEF SlotTypes
  <2>4. lost' \subseteq lost \cup {hand[o]}
    BY <1>4 DEF Add
  <2> QED
    BY <2>1, <2>2, <2>3, <2>4 DEF Carries, Placed
<1>5. ASSUME NEW o \in Owners, EndPass(o)
      PROVE  Carries'
  BY <1>5, <1>0, CarriesKept, Two DEF EndPass, AgentTypes, Goto, Creating, lists, threads
<1>6. ASSUME NEW a \in Agents, ScanFound(a)
      PROVE  Carries'
  BY <1>6, <1>0, CarriesKept, Two DEF ScanFound, AgentTypes, Goto, Creating, conf,
       lists, threads
<1>7. ASSUME NEW a \in Agents, DeleteEnd(a)
      PROVE  Carries'
  <2>1. pc[a] \in Deleting
    BY <1>7 DEF DeleteEnd, Deleting
  <2>2. \A p \in Owners : pc[p] \in Creating => hand[p] # hand[a] /\ hand[p] \in Threads
    BY <2>1, HandsApart
  <2>3. \A p \in Owners : pc[p] \in Creating => obj'[hand[p]] = obj[hand[p]]
    BY <1>7, <2>2 DEF DeleteEnd, ThreadTypes
  <2>4. \A p \in Owners : pc'[p] \in Creating => pc'[p] = pc[p] /\ hand'[p] = hand[p]
    BY <1>7, Two DEF DeleteEnd, AgentTypes, Goto, Creating
  <2> QED
    BY <1>7, <1>0, <2>3, <2>4, CarriesKept DEF DeleteEnd, lists
<1>8. ASSUME NEW a \in Agents, DeleteAwait(a)
      PROVE  Carries'
  <2>1. pc[a] \in Deleting
    BY <1>8 DEF DeleteAwait, Deleting
  <2>2. \A p \in Owners : pc[p] \in Creating => hand[p] # hand[a] /\ hand[p] \in Threads
    BY <2>1, HandsApart
  <2>3. \A p \in Owners : pc[p] \in Creating => obj'[hand[p]] = obj[hand[p]]
    BY <1>8, <2>2 DEF DeleteAwait, ThreadTypes
  <2>4. \A p \in Owners : pc'[p] \in Creating => pc'[p] = pc[p] /\ hand'[p] = hand[p]
    BY <1>8, Two DEF DeleteAwait, AgentTypes, Goto, Creating
  <2> QED
    BY <1>8, <1>0, <2>3, <2>4, CarriesKept DEF DeleteAwait, lists
<1>9. ASSUME NEW a \in Agents, DeleteFree(a)
      PROVE  Carries'
  <2>1. pc[a] \in Deleting
    BY <1>9 DEF DeleteFree, Deleting
  <2>2. \A p \in Owners : pc[p] \in Creating => hand[p] # hand[a] /\ hand[p] \in Threads
    BY <2>1, HandsApart
  <2>3. \A p \in Owners : pc[p] \in Creating =>
          obj'[hand[p]] = obj[hand[p]] /\ tpc'[hand[p]] = tpc[hand[p]]
    BY <1>9, <2>2 DEF DeleteFree, ThreadTypes
  <2>4. \A p \in Owners : pc'[p] \in Creating => pc'[p] = pc[p] /\ hand'[p] = hand[p]
    BY <1>9, Two DEF DeleteFree, AgentTypes, Goto, Creating
  <2> QED
    BY <1>9, <1>0, <2>3, <2>4, CarriesKept DEF DeleteFree, lists
<1>19. ASSUME NEW a \in Agents, DeleteEmpty(a)
      PROVE  Carries'
  <2>4. \A p \in Owners : pc'[p] \in Creating => pc'[p] = pc[p] /\ hand'[p] = hand[p]
    BY <1>19, Two DEF DeleteEmpty, AgentTypes, Goto, Creating
  <2>5. \A p \in Owners, i \in Indices : slots'[p][i] \in {slots[p][i], None}
    BY <1>19 DEF DeleteEmpty, SlotTypes
  <2> QED
    BY <1>19, <1>0, <2>4, <2>5, CarriesKept DEF DeleteEmpty, threads
<1>10. ASSUME NEW o \in Owners, OwnerScanned(o)
      PROVE  Carries'
  BY <1>10, <1>0, CarriesKept, Two DEF OwnerScanned, AgentTypes, Goto, Creating, conf,
       lists, threads
<1>11. CASE Join
  BY <1>11, <1>0, CarriesKept, Two DEF Join, AgentTypes, Goto, Creating, conf, lists,
       threads
<1>12. CASE BeginReload
  BY <1>12, <1>0, CarriesKept, Two DEF BeginReload, AgentTypes, Goto, Creating, conf,
       lists, threads
<1>13. CASE ReloadScanned
  BY <1>13, <1>0, CarriesKept, Two DEF ReloadScanned, AgentTypes, Goto, Creating, conf,
       lists, threads
<1>14. CASE Clear
  BY <1>14, <1>0, CarriesKept, Two DEF Clear, AgentTypes, Goto, Creating, lists, threads
<1>15. CASE Load
  BY <1>15, <1>0, CarriesKept, Two DEF Load, AgentTypes, Goto, Creating, lists, threads
<1>16. CASE EndReload
  BY <1>16, <1>0, CarriesKept, Two DEF EndReload, AgentTypes, Goto, Creating, lists, threads
<1>17. ASSUME NEW t \in Threads, ThreadEnd(t)
      PROVE  Carries'
  <2>1. \A p \in Owners : pc[p] = "resume" => tpc'[hand[p]] = tpc[hand[p]]
    BY <1>17 DEF ThreadEnd, ThreadTypes, Carries, Creating
  <2> QED
    BY <1>17, <1>0, <2>1, CarriesKept DEF ThreadEnd, agents, lists
<1>18. CASE UNCHANGED <<pc, hand, made, obj, work, slots, lost, tpc>>
  BY <1>18 DEF Carries, Placed
<1> QED
  BY <1>1, <1>2, <1>3, <1>4, <1>5, <1>6, <1>7, <1>8, <1>9, <1>10, <1>11, <1>12, <1>13,
       <1>14, <1>15, <1>16, <1>17, <1>18, <1>19, Cases
     DEF Skip, ScanNext, Clash, UpdateExe, Stop, vars, conf, agents, lists, threads

LEMMA StandsStep ==
  ASSUME SchedInv, [Next]_vars
  PROVE  Stands'
<1> USE DEF SchedInv, Types
<1>1. ASSUME NEW o \in Owners, BeginPass(o)
      PROVE  Stands'
  BY <1>1, Two DEF BeginPass, Stands, AgentTypes, Goto, Deleting, StartScan, conf, lists
<1>2. ASSUME NEW o \in Owners, NEW w \in Jobs \cup {Client}, Create(o, w)
      PROVE  Stands'
  <2>1. \A a \in Agents : pc'[a] \in Deleting => pc[a] \in Deleting /\ hand'[a] = hand[a]
    BY <1>2, Two DEF Create, AgentTypes, Goto, Deleting
  <2> QED
    BY <1>2, <2>1 DEF Create, Stands, lists
<1>3. ASSUME NEW o \in Owners, Resume(o)
      PROVE  Stands'
  BY <1>3, Two DEF Resume, Stands, AgentTypes, Goto, Deleting, StartScan, conf, lists
<1>4. ASSUME NEW o \in Owners, Add(o)
      PROVE  Stands'
  <2>1. \A a \in Agents : pc'[a] \in Deleting => pc[a] \in Deleting /\ hand'[a] = hand[a]
    BY <1>4, Two DEF Add, AgentTypes, Goto, Deleting
  <2>2. \A p \in Owners, i \in Indices : slots[p][i] # None => slots'[p][i] = slots[p][i]
    <3>1. UNCHANGED slots \/ \E i \in FreeSlots(o) : slots' = [slots EXCEPT ![o][i] = hand[o]]
      BY <1>4, FirstFreeFacts DEF Add, lists
    <3> QED
      BY <3>1 DEF FreeSlots, SlotTypes
  <2>3. \A a \in Agents : pc[a] \in Deleting => slots'[list[a]][slot[a]] = hand[a]
    BY <2>2, HandsApart
  <2> QED
    BY <1>4, <2>1, <2>3 DEF Add, Stands
<1>5. ASSUME NEW o \in Owners, EndPass(o)
      PROVE  Stands'
  BY <1>5, Two DEF EndPass, Stands, AgentTypes, Goto, Deleting, StartScan, conf, lists
<1>6. ASSUME NEW a \in Agents, ScanNext(a)
      PROVE  Stands'
  <2>1. \A b \in Agents : pc[b] \in Deleting => slot'[b] = slot[b]
    BY <1>6 DEF ScanNext, ScanOn, AgentTypes, Deleting
  <2> QED
    BY <1>6, <2>1 DEF ScanNext, Stands, lists
<1>7. ASSUME NEW a \in Agents, ScanFound(a)
      PROVE  Stands'
  <2>1. pc' = [pc EXCEPT ![a] = "end"] /\ hand' = [hand EXCEPT ![a] = Found(a)]
    BY <1>7 DEF ScanFound, Goto
  <2>2. slot[a] \in Indices /\ Found(a) # None /\ Found(a) = slots[list[a]][slot[a]]
    BY <1>7, SchedulerAssumption DEF ScanFound, Found, Collects, AgentTypes, Indices
  <2>3. UNCHANGED <<list, slot, slots>>
    BY <1>7 DEF ScanFound, lists
  <2>4. \A b \in Agents \ {a} : pc'[b] = pc[b] /\ hand'[b] = hand[b]
    BY <2>1 DEF AgentTypes
  <2> QED
    BY <2>1, <2>2, <2>3, <2>4 DEF Stands, AgentTypes
<1>8. ASSUME NEW a \in Agents, DeleteEnd(a)
      PROVE  Stands'
  BY <1>8, Two DEF DeleteEnd, Stands, AgentTypes, Goto, Deleting, StartScan, conf, lists
<1>9. ASSUME NEW a \in Agents, DeleteAwait(a)
      PROVE  Stands'
  BY <1>9, Two DEF DeleteAwait, Stands, AgentTypes, Goto, Deleting, StartScan, conf, lists
<1>10. ASSUME NEW a \in Agents, DeleteFree(a)
      PROVE  Stands'
  BY <1>10, Two DEF DeleteFree, Stands, AgentTypes, Goto, Deleting, StartScan, conf, lists
<1>19. ASSUME NEW a \in Agents, DeleteEmpty(a)
      PROVE  Stands'
  <2>1. pc[a] \in Deleting /\ pc' = [pc EXCEPT ![a] = "scan"]
    BY <1>19 DEF DeleteEmpty, Goto, Deleting
  <2>2. ASSUME NEW b \in Agents, pc'[b] \in Deleting
        PROVE  /\ b # a /\ pc[b] \in Deleting /\ list'[b] = list[b]
               /\ slot'[b] = slot[b] /\ hand'[b] = hand[b]
    BY <1>19, <2>1, <2>2 DEF DeleteEmpty, ScanOn, AgentTypes, Deleting
  <2>3. \A p \in Owners, i \in Indices :
          p # list[a] \/ i # slot[a] => slots'[p][i] = slots[p][i]
    BY <1>19 DEF DeleteEmpty, SlotTypes
  <2>4. ASSUME NEW b \in Agents, pc'[b] \in Deleting
        PROVE  /\ list[b] # list[a] \/ slot[b] # slot[a]
               /\ list[b] \in Owners /\ slot[b] \in Indices
    <3>1. hand[b] # hand[a]
      BY <2>1, <2>2, <2>4 DEF Apart
    <3> QED
      BY <2>1, <2>2, <2>4, <3>1, HandsApart
  <2> QED
    BY <2>2, <2>3, <2>4 DEF Stands
<1>11. ASSUME NEW o \in Owners, OwnerScanned(o)
      PROVE  Stands'
  BY <1>11, Two DEF OwnerScanned, Stands, AgentTypes, Goto, Deleting, StartScan, conf, lists
<1>12. CASE Join
  BY <1>12, Two DEF Join, Stands, AgentTypes, Goto, Deleting, StartScan, conf, lists
<1>13. CASE BeginReload
  BY <1>13, Two DEF BeginReload, Stands, AgentTypes, Goto, Deleting, StartScan, conf, lists
<1>14. CASE ReloadScanned
  BY <1>14, Two DEF ReloadScanned, Stands, AgentTypes, Goto, Deleting, StartScan, conf,
       lists
<1>15. CASE Clear
  BY <1>15, Two DEF Clear, Stands, AgentTypes, Goto, Deleting, StartScan, conf, lists
<1>16. CASE Load
  BY <1>16, Two DEF Load, Stands, AgentTypes, Goto, Deleting, StartScan, conf, lists
<1>17. CASE EndReload
  BY <1>17, Two DEF EndReload, Stands, AgentTypes, Goto, Deleting, StartScan, conf, lists
<1>18. CASE UNCHANGED <<pc, hand, slot, list, slots>>
  BY <1>18 DEF Stands
<1> QED
  BY <1>1, <1>2, <1>3, <1>4, <1>5, <1>6, <1>7, <1>8, <1>9, <1>10, <1>11, <1>12, <1>13,
       <1>14, <1>15, <1>16, <1>17, <1>18, <1>19, Cases
     DEF Skip, Clash, UpdateExe, Stop, ThreadEnd, vars, conf, agents, lists, threads

LEMMA SharedStep ==
  ASSUME SchedInv, [Next]_vars
  PROVE  Shared'
<1> USE DEF SchedInv, Types
<1>1. ASSUME NEW o \in Owners, NEW w \in Jobs \cup {Client}, Create(o, w)
      PROVE  Shared'
  <2>1. \A p \in Owners, i \in Indices : slots[p][i] # None => work'[slots[p][i]] = work[slots[p][i]]
    <3>1. \A p \in Owners, i \in Indices : slots[p][i] # None =>
            slots[p][i] \in Threads /\ slots[p][i] <= made
      BY DEF SlotTypes, Exact
    <3>2. \A t \in Threads : t # made + 1 => work'[t] = work[t]
      BY <1>1 DEF Create, ThreadTypes
    <3> QED
      BY <3>1, <3>2 DEF ThreadTypes, Threads
  <2> QED
    BY <1>1, <2>1, Two DEF Create, Shared, lists
<1>2. ASSUME NEW o \in Owners, Add(o)
      PROVE  Shared'
  <2>1. UNCHANGED slots \/ \E i \in Indices : slots' = [slots EXCEPT ![o][i] = hand[o]]
    BY <1>2, FirstFreeFacts DEF Add, lists
  <2>2. work[hand[o]] \in IF o = "main" THEN {Client} ELSE Jobs
    BY <1>2 DEF Add, Carries, Creating
  <2>3. \A p \in Owners, i \in Indices :
          slots'[p][i] = slots[p][i] \/ (p = o /\ slots'[p][i] = hand[o])
    BY <2>1 DEF SlotTypes
  <2> QED
    BY <1>2, <2>2, <2>3, Two DEF Add, Shared
<1>3. ASSUME NEW a \in Agents, DeleteEmpty(a)
      PROVE  Shared'
  <2>1. \A p \in Owners, i \in Indices : slots'[p][i] \in {slots[p][i], None}
    BY <1>3 DEF DeleteEmpty, SlotTypes
  <2> QED
    BY <1>3, <2>1, Two DEF DeleteEmpty, Shared, threads
<1>4. CASE UNCHANGED <<slots, work>>
  BY <1>4 DEF Shared
<1> QED
  BY <1>1, <1>2, <1>3, <1>4, Cases
     DEF BeginPass, Skip, Resume, EndPass, ScanNext, ScanFound, DeleteEnd, DeleteAwait,
          DeleteFree, Clash, OwnerScanned, Join, BeginReload, ReloadScanned, Clear, Load, EndReload,
               UpdateExe, Stop, ThreadEnd, vars, conf, agents, lists, threads

\* A step that only moves threads between the hands and the lists loses none.
LEMMA KnownKept ==
  ASSUME Known, UNCHANGED <<made, slots, lost>>,
         \A t \in 1..made : obj'[t] = obj[t] \/ (obj[t] # "freed" /\ obj'[t] # "freed" /\ Placed(t)),
         \A p \in Owners : pc[p] \in Creating => pc'[p] \in Creating /\ hand'[p] = hand[p],
         pc["sched"] = "killed" => pc'["sched"] = "killed" /\ hand'["sched"] = hand["sched"],
         lost \subseteq 1..made
  PROVE  Known'
<1>1. \A t : (Placed(t) => Placed(t)') /\ (Placed(t)' => Placed(t)) /\ (Carried(t) => Carried(t)')
             /\ (Orphaned(t) => Orphaned(t)')
  BY DEF Placed, Carried, Orphaned
<1>2. \A t \in 1..made : obj[t] = "freed" => obj'[t] = "freed"
  OBVIOUS
<1>3. \A t \in lost : obj'[t] # "freed"
  BY DEF Known
<1> QED
  BY <1>1, <1>2, <1>3 DEF Known

LEMMA KnownStep ==
  ASSUME SchedInv, [Next]_vars
  PROVE  Known'
<1> USE DEF SchedInv, Types
<1>0. lost \subseteq 1..made
  BY DEF Known
<1>1. ASSUME NEW o \in Owners, BeginPass(o)
      PROVE  Known'
  BY <1>1, <1>0, KnownKept, Two DEF BeginPass, AgentTypes, Goto, Creating, conf, lists,
       threads
<1>2. ASSUME NEW o \in Owners, NEW w \in Jobs \cup {Client}, Create(o, w)
      PROVE  Known'
  <2>1. /\ made' = made + 1 /\ hand' = [hand EXCEPT ![o] = made + 1]
        /\ obj' = [obj EXCEPT ![made + 1] = "alive"]
        /\ pc[o] = "pass" /\ pc' = [pc EXCEPT ![o] = "resume"] /\ UNCHANGED <<slots, lost>>
    BY <1>2 DEF Create, Goto, lists
  <2>2. made \in Nat /\ made + 1 \in Threads /\ 1..made \subseteq Threads
    BY <1>2, SchedulerAssumption DEF Create, ThreadTypes, Threads
  <2>3. \A t \in 1..made : obj'[t] = obj[t]
    BY <2>1, <2>2 DEF ThreadTypes
  <2>4. \A t : /\ Carried(t) => Carried(t)'
               /\ Orphaned(t) => Orphaned(t)'
               /\ Placed(t)' <=> Placed(t)
    BY <2>1, Two DEF Carried, Orphaned, Placed, AgentTypes, Creating
  <2>5. \A t : t = made + 1 => Carried(t)'
    BY <2>1, <2>2, Two DEF Carried, AgentTypes, Creating
  <2>6. \A t \in 1..made' : t \in 1..made \/ t = made + 1
    BY <2>1, <2>2
  <2> QED
    BY <2>1, <2>2, <2>3, <2>4, <2>5, <2>6 DEF Known
<1>3. ASSUME NEW o \in Owners, Resume(o)
      PROVE  Known'
  BY <1>3, <1>0, KnownKept, Two DEF Resume, AgentTypes, Goto, Creating, conf, lists, threads
<1>4. ASSUME NEW o \in Owners, Add(o)
      PROVE  Known'
  <2>1. /\ pc' = [pc EXCEPT ![o] = "pass"] /\ hand' = [hand EXCEPT ![o] = None]
        /\ UNCHANGED <<made, obj>> /\ pc[o] \in Creating
    BY <1>4 DEF Add, Goto, Creating
  <2>2. /\ hand[o] \in 1..made /\ obj[hand[o]] = "alive" /\ hand[o] \notin lost
        /\ ~Placed(hand[o]) /\ hand[o] # None
    BY <2>1, HandsApart DEF Carries
  <2>3. \A t : /\ Carried(t) => Carried(t)' \/ t = hand[o]
               /\ Orphaned(t) => Orphaned(t)'
    BY <2>1, Two DEF Carried, Orphaned, AgentTypes, Creating
  <2>4. CASE lost' = lost \cup {hand[o]} /\ UNCHANGED slots
    <3>1. \A t : Placed(t)' <=> Placed(t)
      BY <2>4 DEF Placed
    <3> QED
      BY <2>1, <2>2, <2>3, <2>4, <3>1 DEF Known
  <2>5. CASE lost' = lost /\ \E i \in FreeSlots(o) : slots' = [slots EXCEPT ![o][i] = hand[o]]
    <3>1. PICK i \in FreeSlots(o) : slots' = [slots EXCEPT ![o][i] = hand[o]]
      BY <2>5
    <3>2. \A p \in Owners, j \in Indices :
            slots'[p][j] = IF p = o /\ j = i THEN hand[o] ELSE slots[p][j]
      BY <3>1 DEF FreeSlots, SlotTypes
    <3>3. i \in Indices /\ slots[o][i] = None
      BY DEF FreeSlots
    <3>4. \A t \in 1..made : t # None
      BY SchedulerAssumption DEF ThreadTypes
    <3>5. \A t \in 1..made : Placed(t)' <=> Placed(t) \/ t = hand[o]
      BY <3>2, <3>3, <3>4 DEF Placed
    <3> QED
      BY <1>0, <2>1, <2>2, <2>3, <2>5, <3>5 DEF Known
  <2> QED
    BY <1>4, <2>4, <2>5, FirstFreeFacts DEF Add, lists
<1>5. ASSUME NEW o \in Owners, EndPass(o)
      PROVE  Known'
  BY <1>5, <1>0, KnownKept, Two DEF EndPass, AgentTypes, Goto, Creating, conf, lists,
       threads
<1>6. ASSUME NEW a \in Agents, ScanFound(a)
      PROVE  Known'
  BY <1>6, <1>0, KnownKept, Two DEF ScanFound, AgentTypes, Goto, Creating, conf, lists,
       threads
<1>7. ASSUME NEW a \in Agents, DeleteEnd(a)
      PROVE  Known'
  <2>1. pc[a] \in Deleting
    BY <1>7 DEF DeleteEnd, Deleting
  <2>2. hand[a] \in Threads /\ Placed(hand[a]) /\ obj[hand[a]] # "freed"
    BY <1>7, <2>1, HandsApart DEF DeleteEnd, Gone
  <2>3. \A t \in Threads : obj'[t] = obj[t] \/ (t = hand[a] /\ obj'[t] # "freed")
    BY <1>7 DEF DeleteEnd, ThreadTypes
  <2>4. \A p \in Owners : /\ pc[p] \in Creating => pc'[p] = pc[p] /\ hand'[p] = hand[p]
                          /\ pc[p] = "killed" => pc'[p] = pc[p] /\ hand'[p] = hand[p]
    BY <1>7, Two DEF DeleteEnd, AgentTypes, Goto, Creating
  <2>5. 1..made \subseteq Threads
    BY SchedulerAssumption DEF ThreadTypes, Threads
  <2> QED
    BY <1>7, <1>0, <2>2, <2>3, <2>4, <2>5, Two, KnownKept DEF DeleteEnd, lists
<1>8. ASSUME NEW a \in Agents, DeleteAwait(a)
      PROVE  Known'
  <2>1. pc[a] \in Deleting
    BY <1>8 DEF DeleteAwait, Deleting
  <2>2. hand[a] \in Threads /\ Placed(hand[a]) /\ obj[hand[a]] # "freed"
    BY <1>8, <2>1, HandsApart DEF DeleteAwait, Gone
  <2>3. \A t \in Threads : obj'[t] = obj[t] \/ (t = hand[a] /\ obj'[t] # "freed")
    BY <1>8 DEF DeleteAwait, ThreadTypes
  <2>4. \A p \in Owners : /\ pc[p] \in Creating => pc'[p] = pc[p] /\ hand'[p] = hand[p]
                          /\ pc[p] = "killed" => pc'[p] = pc[p] /\ hand'[p] = hand[p]
    BY <1>8, Two DEF DeleteAwait, AgentTypes, Goto, Creating
  <2>5. 1..made \subseteq Threads
    BY SchedulerAssumption DEF ThreadTypes, Threads
  <2> QED
    BY <1>8, <1>0, <2>2, <2>3, <2>4, <2>5, Two, KnownKept DEF DeleteAwait, lists
<1>9. ASSUME NEW a \in Agents, DeleteFree(a)
      PROVE  Known'
  <2>1. /\ pc[a] \in Deleting /\ pc' = [pc EXCEPT ![a] = "empty"]
        /\ obj' = [obj EXCEPT ![hand[a]] = "freed"] /\ UNCHANGED <<made, lost, hand, slots>>
    BY <1>9 DEF DeleteFree, Goto, Deleting, lists
  <2>2. hand[a] \in Threads /\ hand[a] \notin lost
    BY <2>1, HandsApart
  <2>3. \A t : /\ Carried(t) => Carried(t)'
               /\ Orphaned(t) => Orphaned(t)'
               /\ Placed(t)' <=> Placed(t)
    BY <2>1, Two DEF Carried, Orphaned, Placed, AgentTypes, Creating, Deleting
  <2>4. 1..made \subseteq Threads
    BY SchedulerAssumption DEF ThreadTypes, Threads
  <2>5. \A t \in 1..made : obj'[t] = IF t = hand[a] THEN "freed" ELSE obj[t]
    BY <2>1, <2>2, <2>4 DEF ThreadTypes
  <2> QED
    BY <1>0, <2>1, <2>2, <2>3, <2>5 DEF Known
<1>18. ASSUME NEW a \in Agents, DeleteEmpty(a)
      PROVE  Known'
  <2>1. /\ pc[a] \in Deleting /\ pc' = [pc EXCEPT ![a] = "scan"]
        /\ hand' = [hand EXCEPT ![a] = None] /\ obj[hand[a]] = "freed"
        /\ slots' = [slots EXCEPT ![list[a]][slot[a]] = None] /\ UNCHANGED <<made, lost, obj>>
    BY <1>18 DEF DeleteEmpty, Goto, Deleting, Gone, threads
  <2>2. /\ list[a] \in Owners /\ slot[a] \in Indices /\ hand[a] \in Threads
        /\ hand[a] \notin lost /\ slots[list[a]][slot[a]] = hand[a]
    BY <2>1, HandsApart
  <2>3. \A t : /\ Carried(t) => Carried(t)'
               /\ Orphaned(t) => Orphaned(t)'
    BY <2>1, Two DEF Carried, Orphaned, AgentTypes, Creating, Deleting
  <2>4. \A p \in Owners, i \in Indices :
          slots'[p][i] = IF p = list[a] /\ i = slot[a] THEN None ELSE slots[p][i]
    BY <2>1, <2>2 DEF SlotTypes
  <2>5. 1..made \subseteq Threads /\ \A t \in 1..made : t # None
    BY SchedulerAssumption DEF ThreadTypes, Threads
  <2>6. \A t \in 1..made : /\ Placed(t) /\ t # hand[a] => Placed(t)'
                           /\ Placed(t)' => Placed(t)
    BY <2>2, <2>4, <2>5 DEF Placed
  <2> QED
    BY <1>0, <2>1, <2>2, <2>3, <2>6 DEF Known
<1>10. ASSUME NEW o \in Owners, OwnerScanned(o)
      PROVE  Known'
  BY <1>10, <1>0, KnownKept, Two DEF OwnerScanned, AgentTypes, Goto, Creating, conf,
       lists, threads
<1>11. CASE Join
  <2>1. /\ UNCHANGED <<hand, slots, made, obj, lost>> /\ pc["main"] = "join"
        /\ pc' \in {[pc EXCEPT !["main"] = "stopped"],
                    [pc EXCEPT !["main"] = "stopped", !["sched"] = "killed"]}
    BY <1>11 DEF Join, Goto, lists, threads
  <2>2. \A t : Carried(t) => Carried(t)' \/ Orphaned(t)'
    BY <2>1, Two DEF Carried, Orphaned, AgentTypes, Creating
  <2>3. \A t : Orphaned(t) => Orphaned(t)'
    BY <2>1, Two DEF Orphaned, AgentTypes
  <2>4. \A t : Placed(t)' <=> Placed(t)
    BY <2>1 DEF Placed
  <2> QED
    BY <2>1, <2>2, <2>3, <2>4 DEF Known
<1>12. CASE BeginReload
  BY <1>12, <1>0, KnownKept, Two DEF BeginReload, AgentTypes, Goto, Creating, conf,
       lists, threads
<1>13. CASE ReloadScanned
  BY <1>13, <1>0, KnownKept, Two DEF ReloadScanned, AgentTypes, Goto, Creating, conf,
       lists, threads
<1>14. CASE Clear
  BY <1>14, <1>0, KnownKept, Two DEF Clear, AgentTypes, Goto, Creating, conf, lists, threads
<1>15. CASE Load
  BY <1>15, <1>0, KnownKept, Two DEF Load, AgentTypes, Goto, Creating, conf, lists, threads
<1>16. CASE EndReload
  BY <1>16, <1>0, KnownKept, Two DEF EndReload, AgentTypes, Goto, Creating, conf,
       lists, threads
<1>17. CASE UNCHANGED <<pc, hand, made, obj, slots, lost>>
  BY <1>17 DEF Known, Placed, Carried, Orphaned
<1> QED
  BY <1>1, <1>2, <1>3, <1>4, <1>5, <1>6, <1>7, <1>8, <1>9, <1>10, <1>11, <1>12, <1>13,
       <1>14, <1>15, <1>16, <1>17, <1>18, Cases
     DEF Skip, ScanNext, Clash, UpdateExe, Stop, ThreadEnd, vars, conf, agents, lists, threads

\* A step that starts nobody keeps what is known of the ended threads.
LEMMA LivesKept ==
  ASSUME Lives, UNCHANGED <<made, work>>, lost \subseteq lost',
         \A t \in Threads :
           /\ Live(t)' => Live(t)
           /\ state'[t] = "ended" \/ obj'[t] = "freed" => tpc'[t] = "exited"
           /\ t > made => tpc'[t] = "none" /\ obj'[t] = "none"
  PROVE  Lives'
  BY DEF Lives

LEMMA LivesStep ==
  ASSUME SchedInv, [Next]_vars
  PROVE  Lives'
<1> USE DEF SchedInv, Types
<1>0. 1..made \subseteq Threads /\ \A t \in Threads : t \in Nat /\ (t > made => t \notin 1..made)
  BY SchedulerAssumption DEF ThreadTypes, Threads
<1>1. ASSUME NEW o \in Owners, NEW w \in Jobs \cup {Client}, Create(o, w)
      PROVE  Lives'
  <2>1. /\ made' = made + 1 /\ work' = [work EXCEPT ![made + 1] = w]
        /\ tpc' = [tpc EXCEPT ![made + 1] = "suspended"]
        /\ state' = [state EXCEPT ![made + 1] = "suspended"]
        /\ obj' = [obj EXCEPT ![made + 1] = "alive"] /\ lost' = lost
    BY <1>1 DEF Create
  <2>2. made \in Nat /\ made + 1 \in Threads
    BY <1>1, SchedulerAssumption DEF Create, ThreadTypes, Threads
  <2>3. \A t \in Threads : t # made + 1 =>
          /\ work'[t] = work[t] /\ tpc'[t] = tpc[t] /\ state'[t] = state[t] /\ obj'[t] = obj[t]
    BY <2>1 DEF ThreadTypes
  <2>4. \A t \in Threads : t = made + 1 =>
          /\ work'[t] = w /\ tpc'[t] = "suspended" /\ state'[t] = "suspended" /\ obj'[t] = "alive"
    BY <2>1 DEF ThreadTypes
  <2>5. \A t \in Threads :
          /\ state'[t] = "ended" \/ obj'[t] = "freed" => tpc'[t] = "exited"
          /\ t > made' => tpc'[t] = "none" /\ obj'[t] = "none"
    BY <1>0, <2>1, <2>2, <2>3, <2>4 DEF Lives
  <2>6. \A t \in Threads : Live(t) => t \in 1..made
    BY <1>0, <2>2, SchedulerAssumption DEF Lives, Live, Threads
  <2>7. ASSUME NEW t \in Threads, work[t] = w, w \in Jobs, Live(t)
        PROVE  t \in lost
    <3>1. o = "sched" /\ pc["sched"] = "pass" /\ ~TaskIsRunning(w)
      BY <1>1, <2>7, Two, SchedulerAssumption DEF Create, AgentTypes
    <3>2. t \in 1..made /\ obj[t] # "freed"
      BY <2>6, <2>7 DEF Lives, Live
    <3>3. ~Orphaned(t)
      BY <3>1 DEF Orphaned
    <3>4. ~Carried(t)
      BY <2>7, <3>1, Two, SchedulerAssumption DEF Carried, Carries, Creating
    <3>5. ~Placed(t)
      <4>1. ASSUME NEW i \in Indices, slots["main"][i] = t
            PROVE  FALSE
        BY <1>0, <2>7, <3>2, <4>1, SchedulerAssumption DEF Shared, ThreadTypes, Threads
      <4>2. ASSUME NEW i \in Indices, slots["sched"][i] = t
            PROVE  FALSE
        <5>1. t # None
          BY SchedulerAssumption DEF Threads
        <5>2. state[t] # "ended"
          BY <2>7 DEF Lives, Live
        <5>3. i \notin FreeSlots("sched")
          BY <4>2, <5>1 DEF FreeSlots
        <5>4. FreeSlots("sched") # Indices /\ FreeSlots("sched") \in SUBSET Indices
          BY <5>3 DEF FreeSlots
        <5>5. Cardinality(FreeSlots("sched")) # Cardinality(Indices)
          BY <5>4, FreeFinite, FS_Subset
        <5>6. count["sched"] # 0
          BY <5>5, FreeFinite, Two, SchedulerAssumption DEF Counted, SlotTypes
        <5> QED
          BY <2>7, <3>1, <4>2, <5>1, <5>2, <5>6 DEF TaskIsRunning
      <4> QED
        BY <4>1, <4>2, Two DEF Placed
    <3> QED
      BY <3>2, <3>3, <3>4, <3>5 DEF Known
  <2>8. ASSUME NEW t \in Threads, NEW u \in Threads, t < u,
               work'[t] = work'[u], work'[t] \in Jobs, Live(t)', Live(u)'
        PROVE  t \in lost'
    <3>1. t # made + 1
      <4>1. u \in 1..made \/ u = made + 1
        BY <2>3, <2>6, <2>8 DEF Live
      <4> QED
        BY <1>0, <2>2, <2>8, <4>1
    <3>2. Live(t) /\ work[t] = work'[t]
      BY <2>3, <2>8, <3>1 DEF Live
    <3>3. CASE u = made + 1
      BY <2>1, <2>4, <2>7, <2>8, <3>2, <3>3
    <3>4. CASE u # made + 1
      <4>1. Live(u) /\ work[u] = work'[u]
        BY <2>3, <2>8, <3>4 DEF Live
      <4> QED
        BY <2>1, <2>8, <3>2, <4>1 DEF Lives
    <3> QED
      BY <3>3, <3>4
  <2> QED
    BY <2>5, <2>8 DEF Lives
<1>2. ASSUME NEW o \in Owners, Resume(o)
      PROVE  Lives'
  <2>1. /\ UNCHANGED <<made, work, lost, state, obj>> /\ pc[o] = "resume"
        /\ tpc' = [tpc EXCEPT ![hand[o]] = "running"]
    BY <1>2 DEF Resume
  <2>2. hand[o] \in 1..made /\ tpc[hand[o]] = "suspended"
    BY <2>1 DEF Carries, Creating
  <2>3. \A t \in Threads : tpc'[t] = IF t = hand[o] THEN "running" ELSE tpc[t]
    BY <2>1 DEF ThreadTypes
  <2> QED
    BY <1>0, <2>1, <2>2, <2>3, LivesKept DEF Lives, Live
<1>3. ASSUME NEW o \in Owners, Add(o)
      PROVE  Lives'
  <2>1. UNCHANGED <<made, work, obj, tpc>> /\ lost \subseteq lost'
    BY <1>3 DEF Add
  <2>2. \A t \in Threads : state'[t] = state[t] \/ state'[t] = "running"
    BY <1>3 DEF Add, ThreadTypes
  <2> QED
    BY <2>1, <2>2, LivesKept DEF Lives, Live
<1>4. ASSUME NEW a \in Agents, DeleteEnd(a)
      PROVE  Lives'
  <2>1. UNCHANGED <<made, work, lost, tpc, state>> /\ pc[a] \in Deleting
    BY <1>4 DEF DeleteEnd, Deleting
  <2>2. hand[a] \in 1..made
    BY <2>1, HandsApart
  <2>3. \A t \in Threads : obj'[t] = obj[t] \/ (t = hand[a] /\ obj'[t] # "freed")
    BY <1>4 DEF DeleteEnd, ThreadTypes
  <2> QED
    BY <1>0, <2>1, <2>2, <2>3, LivesKept DEF Lives, Live
<1>5. ASSUME NEW a \in Agents, DeleteAwait(a)
      PROVE  Lives'
  <2>1. UNCHANGED <<made, work, lost, tpc, state>> /\ pc[a] \in Deleting
    BY <1>5 DEF DeleteAwait, Deleting
  <2>2. hand[a] \in 1..made
    BY <2>1, HandsApart
  <2>3. \A t \in Threads : obj'[t] = obj[t] \/ (t = hand[a] /\ obj'[t] # "freed")
    BY <1>5 DEF DeleteAwait, ThreadTypes
  <2> QED
    BY <1>0, <2>1, <2>2, <2>3, LivesKept DEF Lives, Live
<1>6. ASSUME NEW a \in Agents, DeleteFree(a)
      PROVE  Lives'
  <2>1. UNCHANGED <<made, work, lost, state>> /\ pc[a] \in Deleting
    BY <1>6 DEF DeleteFree, Deleting
  <2>2. hand[a] \in 1..made
    BY <2>1, HandsApart
  <2>3. \A t \in Threads : /\ obj'[t] = IF t = hand[a] THEN "freed" ELSE obj[t]
                           /\ tpc'[t] = IF t = hand[a] THEN "exited" ELSE tpc[t]
    BY <1>6 DEF DeleteFree, ThreadTypes
  <2> QED
    BY <1>0, <2>1, <2>2, <2>3, LivesKept DEF Lives, Live
<1>7. ASSUME NEW t \in Threads, ThreadEnd(t)
      PROVE  Lives'
  <2>1. UNCHANGED <<made, work, lost, obj>> /\ tpc[t] = "running"
    BY <1>7 DEF ThreadEnd
  <2>2. \A u \in Threads : /\ tpc'[u] = IF u = t THEN "exited" ELSE tpc[u]
                           /\ state'[u] = IF u = t THEN "ended" ELSE state[u]
    BY <1>7 DEF ThreadEnd, ThreadTypes
  <2> QED
    BY <2>1, <2>2, LivesKept DEF Lives, Live
<1>8. CASE UNCHANGED <<threads>>
  BY <1>8 DEF Lives, Live, threads
<1> QED
  BY <1>1, <1>2, <1>3, <1>4, <1>5, <1>6, <1>7, <1>8, Cases
     DEF BeginPass, Skip, EndPass, ScanNext, ScanFound, DeleteEmpty, Clash, OwnerScanned,
          Join, BeginReload, ReloadScanned, Clear, Load, EndReload, UpdateExe, Stop, vars,
               conf, agents, lists, threads

\* Only ScanFound takes a thread to delete it, and none that is taken.
LEMMA ApartStep ==
  ASSUME SchedInv, [Next]_vars
  PROVE  Apart'
<1> USE DEF SchedInv, Types
<1>1. ASSUME NEW a \in Agents, ScanFound(a)
      PROVE  Apart'
  <2>1. pc' = [pc EXCEPT ![a] = "end"] /\ hand' = [hand EXCEPT ![a] = Found(a)]
    BY <1>1 DEF ScanFound, Goto
  <2>2. \A b \in Agents \ {a} : pc'[b] = pc[b] /\ hand'[b] = hand[b]
    BY <2>1 DEF AgentTypes
  <2>3. \A b \in Agents \ {a} : pc[b] \in Deleting => hand[b] # Found(a)
    BY <1>1 DEF ScanFound, Taken
  <2>4. hand'[a] = Found(a)
    BY <2>1 DEF AgentTypes
  <2> QED
    BY <2>2, <2>3, <2>4 DEF Apart
<1>2. ASSUME \A b \in Agents : pc'[b] \in Deleting => pc[b] \in Deleting /\ hand'[b] = hand[b]
      PROVE  Apart'
  BY <1>2 DEF Apart
<1>3. \/ \E a \in Agents : ScanFound(a)
      \/ \A b \in Agents : pc'[b] \in Deleting => pc[b] \in Deleting /\ hand'[b] = hand[b]
  <2> SUFFICES ASSUME ~ \E a \in Agents : ScanFound(a), NEW b \in Agents, pc'[b] \in Deleting
               PROVE  pc[b] \in Deleting /\ hand'[b] = hand[b]
    OBVIOUS
  <2> USE Two DEF AgentTypes, Goto, Deleting
  <2>1. ASSUME NEW o \in Owners, BeginPass(o) \/ Resume(o) \/ Add(o) \/ EndPass(o) \/ OwnerScanned(o)
        PROVE  pc[b] \in Deleting /\ hand'[b] = hand[b]
    BY <2>1 DEF BeginPass, Resume, Add, EndPass, OwnerScanned
  <2>2. ASSUME NEW o \in Owners, NEW w \in Jobs \cup {Client}, Create(o, w)
        PROVE  pc[b] \in Deleting /\ hand'[b] = hand[b]
    BY <2>2 DEF Create
  <2>3. ASSUME NEW a \in Agents, DeleteEnd(a) \/ DeleteAwait(a) \/ DeleteFree(a) \/ DeleteEmpty(a)
        PROVE  pc[b] \in Deleting /\ hand'[b] = hand[b]
    BY <2>3 DEF DeleteEnd, DeleteAwait, DeleteFree, DeleteEmpty
  <2>4. CASE Join \/ BeginReload \/ ReloadScanned \/ Clear \/ Load \/ EndReload
    BY <2>4 DEF Join, BeginReload, ReloadScanned, Clear, Load, EndReload
  <2>5. CASE UNCHANGED <<pc, hand>>
    BY <2>5
  <2> QED
    BY <2>1, <2>2, <2>3, <2>4, <2>5, Cases
       DEF Skip, ScanNext, Clash, UpdateExe, Stop, ThreadEnd, vars, agents
<1> QED
  BY <1>1, <1>2, <1>3

\* A step that neither adds, deletes nor creates keeps what is gone.
LEMMA GoneKept ==
  ASSUME Gone, UNCHANGED <<slots, obj>>,
         \A a \in Agents :
           /\ pc'[a] \in Deleting => pc'[a] = pc[a] /\ hand'[a] = hand[a]
           /\ pc[a] \in {"empty", "killed"} => pc'[a] \in {"empty", "killed"} /\ hand'[a] = hand[a]
  PROVE  Gone'
  BY DEF Gone, Deleting

LEMMA GoneStep ==
  ASSUME SchedInv, [Next]_vars
  PROVE  Gone'
<1> USE DEF SchedInv, Types
<1>0. \A a \in Agents : pc[a] \in {"empty", "killed"} => pc[a] \notin {"scan", "add", "pass"}
  OBVIOUS
<1>1. ASSUME NEW o \in Owners, NEW w \in Jobs \cup {Client}, Create(o, w)
      PROVE  Gone'
  <2>1. /\ UNCHANGED slots /\ hand' = [hand EXCEPT ![o] = made + 1]
        /\ obj' = [obj EXCEPT ![made + 1] = "alive"] /\ made + 1 \in Threads
        /\ pc[o] = "pass" /\ pc' = [pc EXCEPT ![o] = "resume"]
    BY <1>1, SchedulerAssumption DEF Create, Goto, lists, ThreadTypes, Threads
  <2>2. \A b \in Agents \ {o} : pc'[b] = pc[b] /\ hand'[b] = hand[b]
    BY <2>1, Two DEF AgentTypes
  <2>3. pc'[o] = "resume"
    BY <2>1, Two DEF AgentTypes
  <2>4. \A t \in Threads : t # made + 1 => obj'[t] = obj[t]
    BY <2>1 DEF ThreadTypes
  <2>5. \A a \in Agents : pc[a] \in Deleting => hand[a] \in Threads /\ hand[a] # made + 1
    BY HandsApart DEF ThreadTypes
  <2>6. \A p \in Owners, i \in Indices :
          slots[p][i] # None => slots[p][i] \in Threads /\ slots[p][i] # made + 1
    BY DEF Exact, SlotTypes, ThreadTypes
  <2>7. \A a \in Agents : pc'[a] \in Deleting => (obj'[hand'[a]] = "freed" <=> pc'[a] = "empty")
    BY <2>2, <2>3, <2>4, <2>5 DEF Gone, Deleting
  <2>8. ASSUME NEW p \in Owners, NEW i \in Indices,
               slots[p][i] # None, obj'[slots[p][i]] = "freed"
        PROVE  \E a \in Agents : hand'[a] = slots[p][i] /\ pc'[a] \in {"empty", "killed"}
    <3>1. PICK a \in Agents : hand[a] = slots[p][i] /\ pc[a] \in {"empty", "killed"}
      BY <2>4, <2>6, <2>8 DEF Gone
    <3> QED
      BY <2>1, <2>2, <3>1
  <2> QED
    BY <2>1, <2>7, <2>8 DEF Gone
<1>2. ASSUME NEW o \in Owners, Add(o)
      PROVE  Gone'
  <2>1. /\ pc[o] = "add" /\ pc' = [pc EXCEPT ![o] = "pass"] /\ hand' = [hand EXCEPT ![o] = None]
        /\ obj' = obj
    BY <1>2 DEF Add, Goto
  <2>2. \A b \in Agents \ {o} : pc'[b] = pc[b] /\ hand'[b] = hand[b]
    BY <2>1, Two DEF AgentTypes
  <2>3. pc'[o] = "pass"
    BY <2>1, Two DEF AgentTypes
  <2>4. obj[hand[o]] = "alive"
    BY <2>1 DEF Carries, Creating
  <2>5. \A p \in Owners, i \in Indices : slots'[p][i] \in {slots[p][i], hand[o]}
    <3>1. UNCHANGED slots \/ \E i \in Indices : slots' = [slots EXCEPT ![o][i] = hand[o]]
      BY <1>2, FirstFreeFacts DEF Add, lists
    <3> QED
      BY <3>1 DEF SlotTypes
  <2>6. \A a \in Agents : pc'[a] \in Deleting => (obj'[hand'[a]] = "freed" <=> pc'[a] = "empty")
    BY <2>1, <2>2, <2>3 DEF Gone, Deleting
  <2>7. ASSUME NEW p \in Owners, NEW i \in Indices,
               slots'[p][i] # None, obj'[slots'[p][i]] = "freed"
        PROVE  \E a \in Agents : hand'[a] = slots'[p][i] /\ pc'[a] \in {"empty", "killed"}
    <3>1. slots'[p][i] = slots[p][i]
      BY <2>1, <2>4, <2>5, <2>7
    <3>2. PICK a \in Agents : hand[a] = slots[p][i] /\ pc[a] \in {"empty", "killed"}
      BY <2>1, <2>7, <3>1 DEF Gone
    <3> QED
      BY <2>1, <2>2, <3>1, <3>2
  <2> QED
    BY <2>6, <2>7 DEF Gone
<1>3. ASSUME NEW a \in Agents, ScanFound(a)
      PROVE  Gone'
  <2>1. /\ pc[a] = "scan" /\ pc' = [pc EXCEPT ![a] = "end"] /\ hand' = [hand EXCEPT ![a] = Found(a)]
        /\ UNCHANGED <<slots, obj>>
    BY <1>3 DEF ScanFound, Goto, lists, threads
  <2>2. \A b \in Agents \ {a} : pc'[b] = pc[b] /\ hand'[b] = hand[b]
    BY <2>1 DEF AgentTypes
  <2>3. obj[Found(a)] # "freed"
    BY <1>3 DEF ScanFound, Collects, Freed
  <2>4. pc'[a] = "end" /\ hand'[a] = Found(a)
    BY <2>1 DEF AgentTypes
  <2> QED
    BY <2>1, <2>2, <2>3, <2>4 DEF Gone, Deleting
<1>4. ASSUME NEW a \in Agents, DeleteEnd(a) \/ DeleteAwait(a)
      PROVE  Gone'
  <2>1. /\ pc[a] \in {"end", "await"} /\ UNCHANGED <<slots, hand>>
        /\ \E x \in {"bare", "finished"} : obj' = [obj EXCEPT ![hand[a]] = x]
        /\ \E x \in {"free", "await"} : pc' = [pc EXCEPT ![a] = x]
    BY <1>4 DEF DeleteEnd, DeleteAwait, Goto, lists
  <2>2. /\ \A b \in Agents \ {a} : pc'[b] = pc[b]
        /\ pc'[a] \in {"free", "await"}
    BY <2>1 DEF AgentTypes
  <2>3. \A b \in Agents : pc[b] \in Deleting => hand[b] \in Threads /\ (b # a => hand[b] # hand[a])
    BY <2>1, HandsApart DEF Apart, Deleting
  <2>4. \A t \in Threads : obj'[t] = obj[t] \/ (t = hand[a] /\ obj'[t] # "freed")
    BY <2>1 DEF ThreadTypes
  <2>5. hand[a] \in Threads /\ obj'[hand[a]] # "freed"
    BY <2>1, <2>3 DEF ThreadTypes, Deleting
  <2>6. \A b \in Agents : pc'[b] \in Deleting => (obj'[hand'[b]] = "freed" <=> pc'[b] = "empty")
    BY <2>1, <2>2, <2>3, <2>4, <2>5 DEF Gone, Deleting
  <2>7. ASSUME NEW p \in Owners, NEW i \in Indices,
               slots[p][i] # None, obj'[slots[p][i]] = "freed"
        PROVE  \E b \in Agents : hand'[b] = slots[p][i] /\ pc'[b] \in {"empty", "killed"}
    <3>1. slots[p][i] \in Threads
      BY <2>7 DEF SlotTypes
    <3>2. PICK b \in Agents : hand[b] = slots[p][i] /\ pc[b] \in {"empty", "killed"}
      BY <2>4, <2>7, <3>1 DEF Gone
    <3> QED
      BY <2>1, <2>2, <3>2
  <2> QED
    BY <2>1, <2>6, <2>7 DEF Gone
<1>5. ASSUME NEW a \in Agents, DeleteFree(a)
      PROVE  Gone'
  <2>1. /\ pc[a] = "free" /\ UNCHANGED <<slots, hand>>
        /\ obj' = [obj EXCEPT ![hand[a]] = "freed"] /\ pc' = [pc EXCEPT ![a] = "empty"]
    BY <1>5 DEF DeleteFree, Goto, lists
  <2>2. /\ \A b \in Agents \ {a} : pc'[b] = pc[b]
        /\ pc'[a] = "empty"
    BY <2>1 DEF AgentTypes
  <2>3. \A b \in Agents : pc[b] \in Deleting => hand[b] \in Threads /\ (b # a => hand[b] # hand[a])
    BY <2>1, HandsApart DEF Apart, Deleting
  <2>4. \A t \in Threads : obj'[t] = IF t = hand[a] THEN "freed" ELSE obj[t]
    BY <2>1 DEF ThreadTypes
  <2>5. hand[a] \in Threads
    BY <2>1, <2>3 DEF Deleting
  <2>6. \A b \in Agents : pc'[b] \in Deleting => (obj'[hand'[b]] = "freed" <=> pc'[b] = "empty")
    BY <2>1, <2>2, <2>3, <2>4, <2>5 DEF Gone, Deleting
  <2>7. ASSUME NEW p \in Owners, NEW i \in Indices,
               slots[p][i] # None, obj'[slots[p][i]] = "freed"
        PROVE  \E b \in Agents : hand'[b] = slots[p][i] /\ pc'[b] \in {"empty", "killed"}
    <3>1. slots[p][i] \in Threads
      BY <2>7 DEF SlotTypes
    <3>2. CASE slots[p][i] = hand[a]
      BY <2>1, <2>2, <3>2
    <3>3. CASE slots[p][i] # hand[a]
      <4>1. PICK b \in Agents : hand[b] = slots[p][i] /\ pc[b] \in {"empty", "killed"}
        BY <2>4, <2>7, <3>1, <3>3 DEF Gone
      <4> QED
        BY <2>1, <2>2, <4>1
    <3> QED
      BY <3>2, <3>3
  <2> QED
    BY <2>1, <2>6, <2>7 DEF Gone
<1>6. ASSUME NEW a \in Agents, DeleteEmpty(a)
      PROVE  Gone'
  <2>1. /\ pc[a] = "empty" /\ obj' = obj /\ slots' = [slots EXCEPT ![list[a]][slot[a]] = None]
        /\ pc' = [pc EXCEPT ![a] = "scan"] /\ hand' = [hand EXCEPT ![a] = None]
    BY <1>6 DEF DeleteEmpty, Goto, threads
  <2>2. /\ \A b \in Agents \ {a} : pc'[b] = pc[b] /\ hand'[b] = hand[b]
        /\ pc'[a] = "scan"
    BY <2>1 DEF AgentTypes
  <2>3. /\ list[a] \in Owners /\ slot[a] \in Indices /\ slots[list[a]][slot[a]] = hand[a]
    BY <2>1, HandsApart DEF Deleting
  <2>4. \A p \in Owners, i \in Indices :
          slots'[p][i] # None => slots'[p][i] = slots[p][i] /\ slots[p][i] # hand[a]
    BY <2>1, <2>3 DEF SlotTypes, Exact
  <2>5. \A b \in Agents : pc'[b] \in Deleting => (obj'[hand'[b]] = "freed" <=> pc'[b] = "empty")
    BY <2>1, <2>2 DEF Gone, Deleting
  <2>6. ASSUME NEW p \in Owners, NEW i \in Indices,
               slots'[p][i] # None, obj'[slots'[p][i]] = "freed"
        PROVE  \E b \in Agents : hand'[b] = slots'[p][i] /\ pc'[b] \in {"empty", "killed"}
    <3>1. PICK b \in Agents : hand[b] = slots[p][i] /\ pc[b] \in {"empty", "killed"}
      BY <2>1, <2>4, <2>6 DEF Gone
    <3> QED
      BY <2>2, <2>4, <2>6, <3>1
  <2> QED
    BY <2>5, <2>6 DEF Gone
<1>7. CASE Join
  <2>1. UNCHANGED <<slots, obj, hand>> /\ pc["main"] = "join"
    BY <1>7 DEF Join, lists, threads
  <2>2. \/ pc' = [pc EXCEPT !["main"] = "stopped"]
        \/ pc' = [pc EXCEPT !["main"] = "stopped", !["sched"] = "killed"]
    BY <1>7 DEF Join, Goto
  <2>3. \A b \in Agents : /\ pc'[b] \in Deleting => pc'[b] = pc[b]
                          /\ pc[b] \in {"empty", "killed"} => pc'[b] \in {"empty", "killed"}
    BY <2>1, <2>2, Two DEF AgentTypes, Deleting
  <2> QED
    BY <2>1, <2>3, GoneKept
<1>8. ASSUME NEW o \in Owners, BeginPass(o) \/ Resume(o) \/ EndPass(o) \/ OwnerScanned(o)
      PROVE  Gone'
  <2>1. UNCHANGED <<slots, obj, hand>> /\ pc[o] \notin {"empty", "killed"}
    BY <1>8 DEF BeginPass, Resume, EndPass, OwnerScanned, lists, threads
  <2>2. \E x \in {"scan", "pass", "add", "wait", "join", "stopped"} : pc' = [pc EXCEPT ![o] = x]
    BY <1>8 DEF BeginPass, Resume, EndPass, OwnerScanned, Goto
  <2> QED
    BY <2>1, <2>2, Two, GoneKept DEF AgentTypes, Deleting
<1>9. CASE BeginReload \/ ReloadScanned \/ Clear \/ Load \/ EndReload
  <2>1. UNCHANGED <<slots, obj, hand>> /\ pc["upd"] \notin {"empty", "killed"}
    BY <1>9 DEF BeginReload, ReloadScanned, Clear, Load, EndReload, lists, threads
  <2>2. pc' = pc \/ \E x \in {"scan", "clear", "load", "set", "idle"} : pc' = [pc EXCEPT !["upd"] = x]
    BY <1>9 DEF BeginReload, ReloadScanned, Clear, Load, EndReload, Goto
  <2> QED
    BY <2>1, <2>2, Two, GoneKept DEF AgentTypes, Deleting
<1>10. CASE UNCHANGED <<pc, hand, slots, obj>>
  BY <1>10, GoneKept
<1> QED
  BY <1>1, <1>2, <1>3, <1>4, <1>5, <1>6, <1>7, <1>8, <1>9, <1>10, Cases
     DEF Skip, ScanNext, Clash, UpdateExe, Stop, ThreadEnd, vars, agents, lists, threads

LEMMA HandsStep ==
  ASSUME SchedInv, [Next]_vars
  PROVE  Hands'
<1> USE DEF SchedInv, Types
<1>0. CASE UNCHANGED vars
  BY <1>0 DEF vars, agents, threads, marks, Hands
<1> SUFFICES ASSUME ~UNCHANGED vars PROVE Hands'
  BY <1>0
<1>1. pc["main"] # "stopped" /\ pc["sched"] # "killed"
  BY Living DEF Hands
<1>2. CASE Join
  <2>1. /\ UNCHANGED <<hand, work, slept>> /\ pc["main"] = "join"
        /\ \/ pc' = [pc EXCEPT !["main"] = "stopped"]
           \/ pc' = [pc EXCEPT !["main"] = "stopped", !["sched"] = "killed"]
    BY <1>2 DEF Join, Goto, threads, marks
  <2>2. \A a \in Agents : hand'[a] # None => pc'[a] \in Creating \cup Deleting \cup {"killed"}
    BY <2>1, Two DEF Hands, AgentTypes, Creating, Deleting
  <2>3. pc'["main"] = "stopped" /\ pc'["upd"] = pc["upd"]
    BY <2>1, Two DEF AgentTypes
  <2>4. ASSUME hand["sched"] # None
        PROVE  /\ work[hand["sched"]] \in Jobs
               /\ pc["upd"] # "idle" => ~slept["sched"]
    <3>1. pc["sched"] \in Creating \cup Deleting
      BY <1>1, <2>4, Two DEF Hands
    <3>2. CASE pc["sched"] \in Creating
      BY <3>2, Two DEF Carries, Slept, Asleep, Creating
    <3>3. CASE pc["sched"] \in Deleting
      <4>1. slot["sched"] \in Indices /\ slots["sched"][slot["sched"]] = hand["sched"]
        BY <3>3, Two, HandsApart DEF AgentTypes
      <4> QED
        BY <2>4, <3>3, <4>1, Two DEF Shared, Slept, Asleep, Deleting
    <3> QED
      BY <3>1, <3>2, <3>3
  <2> QED
    BY <2>1, <2>2, <2>3, <2>4 DEF Hands
<1>3. ASSUME pc'["sched"] # "killed",
             \A a \in Agents : hand'[a] # None => pc'[a] \in Creating \cup Deleting
      PROVE  Hands'
  BY <1>3 DEF Hands
<1>4. \A a \in Agents : hand[a] # None => pc[a] \in Creating \cup Deleting
  BY <1>1, Two DEF Hands, AgentTypes, Walking, Creating, Deleting
<1>5. ASSUME NEW a \in Agents, pc' = [pc EXCEPT ![a] = pc'[a]], pc'[a] # "killed",
             \A b \in Agents \ {a} : hand'[b] = hand[b],
             hand'[a] # None => pc'[a] \in Creating \cup Deleting
      PROVE  Hands'
  <2>1. \A b \in Agents \ {a} : pc'[b] = pc[b]
    BY <1>5 DEF AgentTypes
  <2> QED
    BY <1>1, <1>3, <1>4, <1>5, <2>1, Two
<1> USE Two DEF AgentTypes, Goto, Creating, Deleting
<1>6. ASSUME NEW o \in Owners, BeginPass(o) \/ Resume(o) \/ Add(o) \/ EndPass(o) \/ OwnerScanned(o)
      PROVE  Hands'
  BY <1>4, <1>5, <1>6 DEF BeginPass, Resume, Add, EndPass, OwnerScanned
<1>7. ASSUME NEW o \in Owners, NEW w \in Jobs \cup {Client}, Create(o, w)
      PROVE  Hands'
  BY <1>4, <1>5, <1>7 DEF Create
<1>8. ASSUME NEW a \in Agents, ScanFound(a)
      PROVE  Hands'
  BY <1>4, <1>5, <1>8 DEF ScanFound
<1>9. ASSUME NEW a \in Agents, DeleteEnd(a) \/ DeleteAwait(a) \/ DeleteFree(a) \/ DeleteEmpty(a)
      PROVE  Hands'
  BY <1>4, <1>5, <1>9 DEF DeleteEnd, DeleteAwait, DeleteFree, DeleteEmpty
<1>10. CASE BeginReload \/ ReloadScanned \/ Clear \/ Load \/ EndReload
  <2>1. hand' = hand /\ pc["upd"] \in {"idle", "scan", "clear", "load", "set"}
    BY <1>10 DEF BeginReload, ReloadScanned, Clear, Load, EndReload
  <2>2. pc' = pc \/ \E x \in {"scan", "clear", "load", "set", "idle"} : pc' = [pc EXCEPT !["upd"] = x]
    BY <1>10 DEF BeginReload, ReloadScanned, Clear, Load, EndReload
  <2> QED
    BY <1>1, <1>3, <1>4, <2>1, <2>2
<1>11. CASE UNCHANGED <<pc, hand>>
  BY <1>1, <1>3, <1>4, <1>11
<1> QED
  BY <1>2, <1>6, <1>7, <1>8, <1>9, <1>10, <1>11, Cases
     DEF Skip, ScanNext, Clash, UpdateExe, Stop, ThreadEnd, vars, agents

\* The slots a walk has passed stay empty while it goes on.
LEMMA PassedOn ==
  ASSUME Types, NEW a \in Agents, Passed(a), slot[a] \in Indices, list' = list, ScanOn(a),
         \A i \in Indices : slots'[list[a]][i] \in {slots[list[a]][i], None},
         slots'[list[a]][slot[a]] = None
  PROVE  Passed(a)'
<1>1. slot[a] \in Nat /\ slot'[a] = slot[a] + 1
  BY SchedulerAssumption DEF ScanOn, Types, AgentTypes, Indices
<1>2. ASSUME NEW k \in Indices, k < slot'[a]
      PROVE  slots'[list[a]][k] = None
  <2>1. k \in Nat /\ (k < slot[a] \/ k = slot[a])
    BY <1>1, <1>2, SchedulerAssumption DEF Indices
  <2> QED
    BY <2>1 DEF Passed
<1> QED
  BY <1>2 DEF Passed

LEMMA PassedFirst ==
  ASSUME Types, NEW a \in Agents, NEW l \in Owners, StartScan(a, l)
  PROVE  list'[a] = l /\ Passed(a)'
<1>1. list'[a] = l /\ slot'[a] = 1
  BY DEF StartScan, Types, AgentTypes
<1> QED
  BY <1>1, SchedulerAssumption DEF Passed, Indices

\* A step that adds nothing to the list of an owner that ends keeps what is
\* swept, when every owner stays where it is, goes on with its sweep or does
\* not end.
LEMMA SweptKept ==
  ASSUME Swept, AgentTypes, drain' = drain,
         \A p \in Owners : drain[p] =>
           \A i \in Indices : slots'[p][i] \in {slots[p][i], None},
         \A b \in Owners :
           \/ pc'[b] = pc[b] /\ list'[b] = list[b] /\ slot'[b] = slot[b]
           \/ /\ Sweeps(b) /\ Sweeps(b)' /\ list'[b] = list[b]
              /\ slot'[b] = slot[b] \/ (drain[b] => Passed(b)')
           \/ /\ ~drain[b] /\ pc[b] \notin {"join", "stopped", "killed"}
              /\ pc'[b] \notin {"join", "stopped", "killed"}
  PROVE  Swept'
<1>1. \A p \in Owners : drain[p] /\ Empty(p) => Empty(p)'
  BY DEF Empty
<1>2. \A b \in Owners :
        drain[b] /\ Passed(b) /\ list'[b] = list[b] /\ slot'[b] = slot[b] => Passed(b)'
  BY Two DEF Passed, AgentTypes
<1>3. ASSUME NEW p \in Owners
      PROVE  /\ drain'[p] => pc'[p] \in Deleting \cup {"scan", "join", "stopped", "killed"}
             /\ drain'[p] /\ Sweeps(p)' => Passed(p)'
             /\ pc'[p] \in {"join", "stopped"} => drain'[p] /\ Empty(p)'
  BY <1>1, <1>2, Two DEF Swept, Sweeps, Deleting
<1>4. pc'["main"] = "stopped" => pc'["sched"] \in {"stopped", "killed"}
  BY Two DEF Swept, Sweeps, Deleting
<1> QED
  BY <1>3, <1>4 DEF Swept

\* Only the agent at work in a list writes its slots, and only an owner that
\* does not end adds to them.
LEMMA SlotsShrink ==
  ASSUME SchedInv, [Next]_vars
  PROVE  \A p \in Owners : drain[p] \/ Asleep(p) =>
           \A i \in Indices : slots'[p][i] \in {slots[p][i], None}
<1> USE DEF SchedInv, Types
<1>1. ASSUME NEW o \in Owners, Add(o)
      PROVE  \A p \in Owners : drain[p] \/ Asleep(p) =>
               \A i \in Indices : slots'[p][i] \in {slots[p][i], None}
  <2>1. ~drain[o] /\ ~Asleep(o)
    BY <1>1 DEF Add, Swept, Asleep, Deleting
  <2>2. UNCHANGED slots \/ \E i \in Indices : slots' = [slots EXCEPT ![o][i] = hand[o]]
    BY <1>1, FirstFreeFacts DEF Add, lists
  <2>3. \A p \in Owners \ {o} : slots'[p] = slots[p]
    BY <2>2 DEF SlotTypes
  <2> QED
    BY <2>1, <2>3
<1>2. ASSUME NEW a \in Agents, DeleteEmpty(a)
      PROVE  \A p \in Owners, i \in Indices : slots'[p][i] \in {slots[p][i], None}
  BY <1>2 DEF DeleteEmpty, SlotTypes
<1>3. CASE UNCHANGED slots
  BY <1>3
<1> QED
  BY <1>1, <1>2, <1>3, Cases
     DEF BeginPass, Skip, Create, Resume, EndPass, ScanNext, ScanFound, DeleteEnd,
          DeleteAwait, DeleteFree, Clash, OwnerScanned, Join, BeginReload, ReloadScanned,
               Clear, Load, EndReload, UpdateExe, Stop, ThreadEnd, vars, lists

LEMMA SweptStep ==
  ASSUME SchedInv, [Next]_vars
  PROVE  Swept'
<1> USE DEF SchedInv, Types
<1>0. /\ \A p \in Owners : drain[p] => pc[p] \in Deleting \cup {"scan", "join", "stopped", "killed"}
      /\ \A p \in Owners : drain[p] => \A i \in Indices : slots'[p][i] \in {slots[p][i], None}
  BY SlotsShrink DEF Swept
<1>1. ASSUME NEW o \in Owners, BeginPass(o)
      PROVE  Swept'
  <2>1. UNCHANGED slots /\ pc[o] = "wait" /\ ~drain[o]
    BY <1>1, <1>0 DEF BeginPass, lists, Deleting
  <2>2. CASE StartScan(o, o) /\ Goto(o, "scan") /\ drain' = [drain EXCEPT ![o] = TRUE]
    <3>1. list'[o] = o /\ Passed(o)'
      BY <2>1, <2>2, Two, PassedFirst
    <3>2. /\ pc' = [pc EXCEPT ![o] = "scan"]
          /\ \A p \in Owners \ {o} : slot'[p] = slot[p] /\ list'[p] = list[p]
      BY <2>2, Two DEF StartScan, Goto, AgentTypes
    <3>3. \A p \in Owners \ {o} : /\ pc'[p] = pc[p] /\ drain'[p] = drain[p] /\ Empty(p)' = Empty(p)
                                  /\ Passed(p)' = Passed(p)
      BY <2>1, <2>2, <3>2, Two DEF AgentTypes, Empty, Passed
    <3>4. pc'[o] = "scan"
      BY <2>1, <3>2, Two DEF AgentTypes
    <3> QED
      BY <2>1, <3>1, <3>3, <3>4, Two DEF Swept, Sweeps, Deleting
  <2>3. CASE Goto(o, "pass") /\ UNCHANGED <<drain, list, slot>>
    BY <2>1, <2>3, <1>0, SweptKept, Two DEF AgentTypes, Goto
  <2> QED
    BY <1>1, <2>2, <2>3 DEF BeginPass
<1>2. ASSUME NEW o \in Owners, NEW w \in Jobs \cup {Client}, Create(o, w)
      PROVE  Swept'
  BY <1>2, <1>0, SweptKept, Two DEF Create, AgentTypes, Goto, Deleting
<1>3. ASSUME NEW o \in Owners, Resume(o) \/ Add(o)
      PROVE  Swept'
  <2>1. /\ pc[o] \in Creating /\ UNCHANGED <<drain, list, slot>>
        /\ \E x \in {"add", "pass"} : pc' = [pc EXCEPT ![o] = x]
    BY <1>3 DEF Resume, Add, Goto, Creating
  <2> QED
    BY <2>1, <1>0, SweptKept, Two DEF AgentTypes, Deleting, Creating
<1>4. ASSUME NEW o \in Owners, EndPass(o)
      PROVE  Swept'
  <2>1. /\ UNCHANGED <<slots, drain>> /\ pc[o] = "pass" /\ ~drain[o]
        /\ pc' = [pc EXCEPT ![o] = "scan"]
    BY <1>4, <1>0 DEF EndPass, lists, Goto, Deleting
  <2>2. \A b \in Agents \ {o} : pc'[b] = pc[b] /\ list'[b] = list[b] /\ slot'[b] = slot[b]
    BY <1>4, <2>1, Two DEF EndPass, StartScan, AgentTypes
  <2>3. pc'[o] = "scan"
    BY <2>1, Two DEF AgentTypes
  <2> QED
    BY <2>1, <2>2, <2>3, SweptKept, Two
<1>5. ASSUME NEW a \in Agents, ScanNext(a) \/ DeleteEmpty(a)
      PROVE  Swept'
  <2>1. UNCHANGED <<drain, list>> /\ ScanOn(a) /\ Sweeps(a) /\ Sweeps(a)'
    BY <1>5 DEF ScanNext, DeleteEmpty, Goto, Sweeps, Deleting, AgentTypes
  <2>2. \A b \in Agents \ {a} : pc'[b] = pc[b] /\ slot'[b] = slot[b]
    BY <1>5 DEF ScanNext, DeleteEmpty, Goto, ScanOn, AgentTypes
  <2>3. slot[a] \in Indices /\ list[a] \in Owners
    <3>1. CASE ScanNext(a)
      BY <3>1, SchedulerAssumption DEF ScanNext, AgentTypes, Indices
    <3>2. CASE DeleteEmpty(a)
      BY <3>2, HandsApart DEF DeleteEmpty, Deleting
    <3> QED
      BY <1>5, <3>1, <3>2
  <2>4. a \in Owners /\ drain[a] => slots'[list[a]][slot[a]] = None
    <3>1. CASE ScanNext(a)
      BY <3>1, Two DEF ScanNext, Collects, Found, Finishes, lists
    <3>2. CASE DeleteEmpty(a)
      BY <2>3, <3>2 DEF DeleteEmpty, SlotTypes
    <3> QED
      BY <1>5, <3>1, <3>2
  <2>5. a \in Owners /\ drain[a] => Passed(a)'
    <3> SUFFICES ASSUME a \in Owners, drain[a] PROVE Passed(a)'
      OBVIOUS
    <3>1. Passed(a) /\ list[a] = a
      BY <2>1 DEF Swept, AgentTypes
    <3> QED
      BY <1>0, <2>1, <2>3, <2>4, <3>1, PassedOn
  <2> QED
    BY <1>0, <2>1, <2>2, <2>5, SweptKept, Two
<1>6. ASSUME NEW a \in Agents, ScanFound(a) \/ DeleteEnd(a) \/ DeleteAwait(a) \/ DeleteFree(a)
      PROVE  Swept'
  <2>1. UNCHANGED <<drain, list, slot, slots>> /\ Sweeps(a)
    BY <1>6 DEF ScanFound, DeleteEnd, DeleteAwait, DeleteFree, lists, Sweeps, Deleting
  <2>2. Sweeps(a)' /\ \A b \in Agents \ {a} : pc'[b] = pc[b]
    BY <1>6 DEF ScanFound, DeleteEnd, DeleteAwait, DeleteFree, Goto, Sweeps, Deleting,
         AgentTypes
  <2> QED
    BY <2>1, <2>2, SweptKept, Two
<1>7. ASSUME NEW o \in Owners, OwnerScanned(o)
      PROVE  Swept'
  <2>1. UNCHANGED <<drain, list, slot, slots>> /\ pc[o] = "scan" /\ slot[o] > MaxSlots
    BY <1>7 DEF OwnerScanned, lists
  <2>2. pc' = [pc EXCEPT ![o] = IF ~drain[o] THEN "wait"
                                ELSE IF o = "main" THEN "join" ELSE "stopped"]
    BY <1>7 DEF OwnerScanned, Goto
  <2>3. CASE ~drain[o]
    BY <2>1, <2>2, <2>3, SweptKept, Two DEF AgentTypes
  <2>4. CASE drain[o]
    <3>1. Empty(o)
      <4>1. Passed(o) /\ list[o] = o
        BY <2>1, <2>4 DEF Swept, Sweeps, AgentTypes
      <4> QED
        BY <2>1, <4>1, SchedulerAssumption, Two DEF Passed, Empty, Indices, AgentTypes
    <3>2. \A b \in Agents : Empty(b)' = Empty(b) /\ Passed(b)' = Passed(b)
      BY <2>1 DEF Empty, Passed
    <3>3. \A b \in Agents \ {o} : pc'[b] = pc[b]
      BY <2>2 DEF AgentTypes
    <3>4. pc'[o] = IF o = "main" THEN "join" ELSE "stopped"
      BY <2>2, <2>4, Two DEF AgentTypes
    <3> QED
      BY <2>1, <2>4, <3>1, <3>2, <3>3, <3>4, Two DEF Swept, Sweeps, Deleting
  <2> QED
    BY <2>3, <2>4
<1>8. CASE Join
  <2>1. UNCHANGED <<drain, list, slot, slots>> /\ pc["main"] = "join"
    BY <1>8 DEF Join, lists
  <2>2. /\ pc'["main"] = "stopped" /\ pc'["upd"] = pc["upd"]
        /\ \/ pc["sched"] = "stopped" /\ pc'["sched"] = "stopped"
           \/ pc'["sched"] = "killed"
    BY <1>8, Two DEF Join, Goto, AgentTypes
  <2>3. \A b \in Agents : Empty(b)' = Empty(b) /\ Passed(b)' = Passed(b)
    BY <2>1 DEF Empty, Passed
  <2> QED
    BY <2>1, <2>2, <2>3, Two DEF Swept, Sweeps, Deleting
<1>9. CASE BeginReload \/ ReloadScanned \/ Clear \/ Load \/ EndReload
  <2>1. drain' = drain /\ \A p \in Owners : pc'[p] = pc[p] /\ list'[p] = list[p] /\ slot'[p] = slot[p]
    BY <1>9, Two DEF BeginReload, ReloadScanned, Clear, Load, EndReload, StartScan, Goto,
         AgentTypes
  <2> QED
    BY <1>0, <2>1, SweptKept
<1>10. CASE UNCHANGED <<pc, drain, list, slot, slots>>
  BY <1>10 DEF Swept, Sweeps, Passed, Empty
<1> QED
  BY <1>1, <1>2, <1>3, <1>4, <1>5, <1>6, <1>7, <1>8, <1>9, <1>10, Cases
     DEF Skip, Clash, UpdateExe, Stop, ThreadEnd, vars, agents, lists

\* A step of another agent keeps what the updater has swept: the owners that
\* have slept stay asleep and their lists do not grow.
LEMMA SleptKept ==
  ASSUME SchedInv, [Next]_vars, event' = event, slept' = slept,
         pc'["upd"] = pc["upd"], list'["upd"] = list["upd"], slot'["upd"] = slot["upd"],
         \A o \in Owners : Asleep(o) => Asleep(o)'
  PROVE  Slept'
<1> USE DEF SchedInv, Types
<1>1. CASE pc["upd"] = "idle"
  BY <1>1 DEF Slept, Sweeps, Deleting
<1>2. CASE pc["upd"] # "idle"
  <2>1. \A o \in Owners : slept[o] => Asleep(o)
    BY <1>2 DEF Slept
  <2>2. \A o \in Owners : slept[o] => \A i \in Indices : slots'[o][i] \in {slots[o][i], None}
    BY <2>1, SlotsShrink
  <2>3. \A o \in Owners : slept[o] /\ Empty(o) => Empty(o)'
    BY <2>2 DEF Empty
  <2>4. slept[list["upd"]] /\ Passed("upd") => Passed("upd")'
    BY <2>2, Two DEF Passed, AgentTypes
  <2> QED
    BY <1>2, <2>1, <2>3, <2>4, Two DEF Slept, Sweeps
<1> QED
  BY <1>1, <1>2

LEMMA SleptStep ==
  ASSUME SchedInv, [Next]_vars
  PROVE  Slept'
<1> USE DEF SchedInv, Types
<1>1. ASSUME NEW o \in Owners, BeginPass(o)
      PROVE  Slept'
  <2>1. /\ pc'["upd"] = pc["upd"] /\ list'["upd"] = list["upd"] /\ slot'["upd"] = slot["upd"]
        /\ UNCHANGED <<event, slots>> /\ \A p \in Owners \ {o} : pc'[p] = pc[p]
    BY <1>1, Two DEF BeginPass, Goto, StartScan, AgentTypes, conf, lists
  <2>2. slept' = [slept EXCEPT ![o] = slept[o] /\ event]
    BY <1>1 DEF BeginPass
  <2>3. CASE pc["upd"] = "idle"
    BY <2>1, <2>3 DEF Slept, Sweeps, Deleting
  <2>4. CASE pc["upd"] # "idle"
    <3>1. ~event
      BY <2>4 DEF Slept
    <3>2. \A p \in Owners : slept'[p] => slept[p] /\ p # o
      BY <2>2, <3>1 DEF MarkTypes
    <3>3. \A b \in Agents : Empty(b)' = Empty(b)
      BY <2>1 DEF Empty
    <3>4. Passed("upd")' = Passed("upd") /\ list["upd"] \in Owners
      BY <2>1, Two DEF Passed, AgentTypes
    <3> QED
      BY <2>1, <2>4, <3>1, <3>2, <3>3, <3>4, Two DEF Slept, Sweeps, Asleep
  <2> QED
    BY <2>3, <2>4
<1>2. ASSUME NEW o \in Owners, \/ Resume(o) \/ Add(o) \/ EndPass(o) \/ OwnerScanned(o)
                               \/ \E w \in Jobs \cup {Client} : Skip(o, w) \/ Create(o, w)
      PROVE  Slept'
  <2>1. /\ pc[o] \in Creating \cup {"pass", "scan"} /\ event' = event /\ slept' = slept
        /\ \E x \in {"add", "pass", "resume", "scan", "wait", "join", "stopped"} :
             pc' = [pc EXCEPT ![o] = x]
    BY <1>2 DEF Resume, Add, EndPass, OwnerScanned, Skip, Create, Goto, Creating, conf,
         marks, AgentTypes
  <2>2. list'["upd"] = list["upd"] /\ slot'["upd"] = slot["upd"]
    BY <1>2, Two DEF Resume, Add, EndPass, OwnerScanned, Skip, Create, StartScan, AgentTypes
  <2>3. pc'["upd"] = pc["upd"] /\ \A p \in Owners : Asleep(p) => Asleep(p)'
    BY <2>1, Two DEF Asleep, Creating, AgentTypes
  <2> QED
    BY <2>1, <2>2, <2>3, SleptKept
<1>3. ASSUME NEW o \in Owners, \/ ScanNext(o) \/ ScanFound(o)
                               \/ DeleteEnd(o) \/ DeleteAwait(o) \/ DeleteFree(o) \/ DeleteEmpty(o)
      PROVE  Slept'
  <2>1. /\ Sweeps(o) /\ event' = event /\ slept' = slept /\ list' = list
        /\ pc' = pc \/ \E x \in Deleting \cup {"scan"} : pc' = [pc EXCEPT ![o] = x]
    BY <1>3 DEF ScanNext, ScanFound, DeleteEnd, DeleteAwait, DeleteFree, DeleteEmpty, Goto,
         Sweeps, Deleting, conf, marks
  <2>2. slot'["upd"] = slot["upd"]
    BY <1>3, Two DEF ScanNext, ScanFound, DeleteEnd, DeleteAwait, DeleteFree, DeleteEmpty,
         ScanOn, AgentTypes
  <2>3. pc'["upd"] = pc["upd"] /\ \A p \in Owners : Asleep(p) => Asleep(p)'
    BY <2>1, Two DEF Asleep, Sweeps, Deleting, AgentTypes
  <2> QED
    BY <2>1, <2>2, <2>3, SleptKept
<1>4. CASE Join
  <2>1. event' = event /\ slept' = slept /\ list' = list /\ slot' = slot
    BY <1>4 DEF Join, conf, marks
  <2>2. \/ pc' = [pc EXCEPT !["main"] = "stopped"]
        \/ pc' = [pc EXCEPT !["main"] = "stopped", !["sched"] = "killed"]
    BY <1>4 DEF Join, Goto
  <2>3. pc'["upd"] = pc["upd"] /\ \A p \in Owners : Asleep(p) => Asleep(p)'
    BY <2>2, Two DEF Asleep, AgentTypes
  <2> QED
    BY <2>1, <2>3, SleptKept
<1>5. CASE BeginReload
  <2>1. /\ event' = FALSE /\ slept' = [o \in Owners |-> pc[o] \notin Walking]
        /\ pc["main"] \notin {"join", "stopped"}
        /\ pc' = [pc EXCEPT !["upd"] = "scan"] /\ StartScan("upd", "main")
    BY <1>5 DEF BeginReload, Goto
  <2>2. list'["upd"] = "main" /\ Passed("upd")'
    BY <2>1, PassedFirst, Two
  <2>3. pc'["upd"] = "scan" /\ \A p \in Owners : pc'[p] = pc[p]
    BY <2>1, Two DEF AgentTypes
  <2>4. \A p \in Owners : slept'[p] => Asleep(p)'
    BY <2>1, <2>3, Two DEF Asleep, AgentTypes
  <2> QED
    BY <2>1, <2>2, <2>3, <2>4, Two DEF Slept
<1>6. CASE ScanNext("upd") \/ DeleteEmpty("upd")
  <2>1. /\ UNCHANGED <<event, slept, list>> /\ ScanOn("upd") /\ Sweeps("upd") /\ Sweeps("upd")'
        /\ pc["upd"] # "idle"
    BY <1>6, Two DEF ScanNext, DeleteEmpty, Goto, Sweeps, Deleting, AgentTypes, conf, marks
  <2>2. \A p \in Owners : pc'[p] = pc[p]
    BY <1>6, Two DEF ScanNext, DeleteEmpty, Goto, AgentTypes
  <2>3. slot["upd"] \in Indices /\ list["upd"] \in Owners
    <3>1. CASE ScanNext("upd")
      BY <3>1, SchedulerAssumption, Two DEF ScanNext, AgentTypes, Indices
    <3>2. CASE DeleteEmpty("upd")
      BY <3>2, HandsApart, Two DEF DeleteEmpty, Deleting
    <3> QED
      BY <1>6, <3>1, <3>2
  <2>4. slots'[list["upd"]][slot["upd"]] = None
    <3>1. CASE ScanNext("upd")
      BY <3>1 DEF ScanNext, Collects, Found, Finishes, lists
    <3>2. CASE DeleteEmpty("upd")
      BY <2>3, <3>2 DEF DeleteEmpty, SlotTypes
    <3> QED
      BY <1>6, <3>1, <3>2
  <2>5. \A o \in Owners, i \in Indices : slots'[o][i] \in {slots[o][i], None}
    BY <1>6 DEF ScanNext, DeleteEmpty, lists, SlotTypes
  <2>6. slept[list["upd"]] => Passed("upd")'
    <3> SUFFICES ASSUME slept[list["upd"]] PROVE Passed("upd")'
      OBVIOUS
    <3>1. Passed("upd")
      BY <2>1 DEF Slept
    <3> QED
      BY <2>1, <2>3, <2>4, <2>5, <3>1, PassedOn, Two
  <2>7. Empty("main") => Empty("main")'
    BY <2>5, Two DEF Empty
  <2>8. pc'["upd"] \in Deleting \cup {"scan"}
    BY <2>1 DEF Sweeps
  <2> QED
    BY <2>1, <2>2, <2>6, <2>7, <2>8, Two DEF Slept, Asleep, Deleting
<1>7. CASE ScanFound("upd") \/ DeleteEnd("upd") \/ DeleteAwait("upd") \/ DeleteFree("upd")
  <2>1. /\ UNCHANGED <<event, slept, list, slot, slots>> /\ Sweeps("upd") /\ Sweeps("upd")'
        /\ pc["upd"] # "idle"
    BY <1>7, Two DEF ScanFound, DeleteEnd, DeleteAwait, DeleteFree, Goto, Sweeps, Deleting,
         AgentTypes, conf, marks, lists
  <2>2. \A p \in Owners : pc'[p] = pc[p]
    BY <1>7, Two DEF ScanFound, DeleteEnd, DeleteAwait, DeleteFree, Goto, AgentTypes
  <2>3. Passed("upd")' = Passed("upd") /\ Empty("main")' = Empty("main")
    BY <2>1 DEF Passed, Empty
  <2>4. pc'["upd"] \in Deleting \cup {"scan"}
    BY <2>1 DEF Sweeps
  <2> QED
    BY <2>1, <2>2, <2>3, <2>4, Two DEF Slept, Asleep, Deleting
<1>8. CASE ReloadScanned
  <2>1. /\ UNCHANGED <<slots, event, slept>> /\ pc["upd"] = "scan" /\ slot["upd"] > MaxSlots
    BY <1>8 DEF ReloadScanned, lists, conf, marks
  <2>2. \A p \in Owners : pc'[p] = pc[p] /\ Empty(p)' = Empty(p)
    BY <1>8, <2>1, Two DEF ReloadScanned, Goto, AgentTypes, Empty
  <2>3. \A p \in Owners : p = list["upd"] /\ slept[p] => Empty(p)
    BY <2>1, Two, SchedulerAssumption DEF Slept, Sweeps, Passed, Empty, AgentTypes, Indices
  <2>4. CASE list["upd"] = "main" /\ StartScan("upd", "sched") /\ UNCHANGED pc
    <3>1. list'["upd"] = "sched" /\ Passed("upd")' /\ pc'["upd"] = "scan"
      BY <2>1, <2>4, PassedFirst, Two
    <3> QED
      BY <2>1, <2>2, <2>3, <2>4, <3>1, Two DEF Slept, Asleep
  <2>5. CASE list["upd"] = "sched" /\ Goto("upd", "clear")
    <3>1. pc'["upd"] = "clear"
      BY <2>5, Two DEF Goto, AgentTypes
    <3>2. slept["main"] => Empty("main")
      BY <2>1, <2>5 DEF Slept, Sweeps
    <3> QED
      BY <2>1, <2>2, <2>3, <2>5, <3>1, <3>2, Two DEF Slept, Asleep, Sweeps, Deleting
  <2> QED
    BY <1>8, <2>4, <2>5 DEF ReloadScanned
<1>9. CASE Clear \/ Load
  <2>1. /\ UNCHANGED <<slots, event, slept>> /\ pc["upd"] \in {"clear", "load"}
        /\ \E x \in {"load", "set"} : pc' = [pc EXCEPT !["upd"] = x]
    BY <1>9 DEF Clear, Load, Goto, lists, marks
  <2>2. /\ \A p \in Owners : pc'[p] = pc[p] /\ Empty(p)' = Empty(p)
        /\ pc'["upd"] \in {"load", "set"}
    BY <2>1, Two DEF AgentTypes, Empty
  <2> QED
    BY <2>1, <2>2, Two DEF Slept, Asleep, Sweeps, Deleting
<1>10. CASE EndReload
  <2>1. pc'["upd"] = "idle"
    BY <1>10, Two DEF EndReload, Goto, AgentTypes
  <2> QED
    BY <2>1 DEF Slept, Sweeps, Deleting
<1>11. CASE UNCHANGED <<event, slept, pc, list, slot, slots>>
  BY <1>11 DEF Slept, Asleep, Sweeps, Passed, Empty
<1> QED
  BY <1>1, <1>2, <1>3, <1>4, <1>5, <1>6, <1>7, <1>8, <1>9, <1>10, <1>11, Cases, Two
     DEF Clash, UpdateExe, Stop, ThreadEnd, vars, conf, agents, lists, marks

-----------------------------------------------------------------------------
(* The theorems.                                                           *)

LEMMA SchedInit == Init => SchedInv
<1> SUFFICES ASSUME Init PROVE SchedInv
  OBVIOUS
<1>1. ConfTypes /\ SlotTypes /\ ThreadTypes /\ MarkTypes
  <2>1. ConfTypes
    BY SchedulerAssumption, Two DEF Init, ConfTypes
  <2>2. MarkTypes
    <3>1. slept = [o \in Owners |-> TRUE] /\ clashed = FALSE
      BY DEF Init
    <3> QED
      BY <3>1 DEF MarkTypes
  <2>3. SlotTypes /\ ThreadTypes
    BY SchedulerAssumption, Two DEF Init, SlotTypes, ThreadTypes
  <2> QED
    BY <2>1, <2>2, <2>3
<1>2. AgentTypes
  BY SchedulerAssumption, Two DEF Init, AgentTypes, Walking
<1>3. Counted
  <2>1. \A o \in Owners : FreeSlots(o) = Indices
    BY DEF Init, FreeSlots
  <2> QED
    BY <2>1, FreeFinite, SchedulerAssumption DEF Init, Counted
<1>4. /\ \A a \in Agents : pc[a] \in {"wait", "idle"} /\ hand[a] = None
      /\ pc["upd"] = "idle" /\ \A o \in Owners : pc[o] = "wait" /\ drain[o] = FALSE
  BY Two DEF Init
<1>5. \A o \in Owners, i \in Indices : slots[o][i] = None
  BY DEF Init
<1>6. Exact /\ Carries /\ Stands /\ Apart /\ Gone /\ Shared /\ Hands
  BY <1>4, <1>5, Two
     DEF Exact, Carries, Stands, Apart, Gone, Shared, Hands, Creating, Deleting
<1>7. Known
  BY <1>4, <1>5 DEF Init, Known
<1>8. Lives
  BY SchedulerAssumption DEF Init, Lives, Live, Threads
<1>9. Swept /\ Slept
  BY <1>4, Two DEF Swept, Slept, Sweeps, Deleting
<1> QED
  BY <1>1, <1>2, <1>3, <1>6, <1>7, <1>8, <1>9 DEF SchedInv, Types

LEMMA SchedStep ==
  ASSUME SchedInv, [Next]_vars
  PROVE  SchedInv'
<1>1. Types'
  BY ConfTypesStep, AgentTypesStep, SlotTypesStep, ThreadTypesStep, MarkTypesStep DEF SchedInv, Types
<1> QED
  BY <1>1, CountedStep, ExactStep, CarriesStep, StandsStep, ApartStep, GoneStep,
     SharedStep, KnownStep, LivesStep, HandsStep, SweptStep, SleptStep DEF SchedInv

LEMMA SchedInvariant == Spec => []SchedInv
<1>1. Init => SchedInv
  BY SchedInit
<1>2. SchedInv /\ [Next]_vars => SchedInv'
  BY SchedStep
<1> QED
  BY <1>1, <1>2, PTL DEF Spec

\* A thread that runs and that no list knows was left out by a full list, or
\* an owner has it in its hands.
LEMMA WhereRuns ==
  ASSUME SchedInv, NEW t \in Threads, Runs(t)
  PROVE  /\ t \in 1..made /\ obj[t] # "freed"
         /\ t \in lost \/ Placed(t) \/ Carried(t) \/ Orphaned(t)
<1>1. t \in 1..made /\ obj[t] # "freed"
  BY SchedulerAssumption DEF SchedInv, Types, ThreadTypes, Lives, Runs, Threads
<1> QED
  BY <1>1 DEF SchedInv, Known

\* However the threads of the service interleave, every variable keeps its
\* type: no count is negative or beyond the slots of its list (TTaskList,
\* TThreadList).
THEOREM SchedulerTypeCorrect == Spec => []TypeOK
<1>1. SchedInv => TypeOK
  <2> SUFFICES ASSUME SchedInv PROVE TypeOK
    OBVIOUS
  <2>1. count \in [Owners -> 0..MaxSlots]
    BY FreeFinite, SchedulerAssumption DEF SchedInv, Types, SlotTypes, Counted
  <2> QED
    BY <2>1 DEF SchedInv, Types, ConfTypes, AgentTypes, SlotTypes, ThreadTypes,
         MarkTypes, TypeOK
<1> QED
  BY <1>1, SchedInvariant, PTL

\* task_is_running keeps a job from having two tasks at work, whatever the
\* number of jobs, slots and reloads, as long as the list had room for them.
THEOREM OneTask == Spec => []OneTaskPerJob
<1>1. SchedInv => OneTaskPerJob
  BY DEF SchedInv, Lives, Live, Runs, OneTaskPerJob
<1> QED
  BY <1>1, SchedInvariant, PTL

\* add_task, add_thread, scan_tasks and scan_threads keep both counts equal
\* to the slots in use, a thread in one slot from add to its deletion, and an
\* object that is gone in none but the one its deleter stands at, also while
\* two agents walk a list: what it takes to break them is a clash (ClashObject,
\* ClashCount), and nothing else does.
THEOREM ListsAreExact == Spec => []ListsExact
<1>1. SchedInv => ListsExact
  <2> SUFFICES ASSUME SchedInv PROVE ListsExact
    OBVIOUS
  <2>1. \A o \in Owners : count[o] = Cardinality(Indices) - Cardinality(FreeSlots(o))
    BY DEF SchedInv, Counted
  <2>2. ASSUME NEW t \in 1..made
        PROVE  LET n == Cardinality(Places(t))
                   at(z) == \E a \in Agents : hand[a] = t /\ pc[a] \in z
               IN \/ n = 1 /\ (obj[t] = "freed" => at({"empty", "killed"}))
                  \/ n = 0 /\ (obj[t] = "freed" \/ t \in lost \/ at(Creating \cup {"killed"}))
    <3>1. t \in Threads /\ t # None
      BY SchedulerAssumption DEF SchedInv, Types, ThreadTypes, Threads
    <3>2. CASE ~Placed(t)
      <4>1. Places(t) = {}
        <5>1. \A p \in Owners \X Indices : slots[p[1]][p[2]] # t
          BY <3>2 DEF Placed
        <5> QED
          BY <5>1 DEF Places
      <4>2. Cardinality(Places(t)) = 0
        BY <4>1, FS_EmptySet
      <4>3. obj[t] = "freed" \/ t \in lost \/ Carried(t) \/ Orphaned(t)
        BY <3>2 DEF SchedInv, Known
      <4> QED
        BY <4>2, <4>3, Two DEF Carried, Orphaned
    <3>3. CASE Placed(t)
      <4>1. PICK o \in Owners, i \in Indices : slots[o][i] = t
        BY <3>3 DEF Placed
      <4>2. \A p \in Owners, j \in Indices : slots[p][j] = t => p = o /\ j = i
        BY <3>1, <4>1 DEF SchedInv, Exact
      <4>3. Places(t) = {<<o, i>>}
        <5>1. <<o, i>> \in Places(t)
          BY <4>1 DEF Places
        <5>2. \A p \in Places(t) : p = <<o, i>>
          BY <4>2 DEF Places
        <5> QED
          BY <5>1, <5>2
      <4>4. Cardinality(Places(t)) = 1
        BY <4>3, FS_Singleton
      <4>5. obj[t] = "freed" => \E a \in Agents : hand[a] = t /\ pc[a] \in {"empty", "killed"}
        BY <3>1, <4>1 DEF SchedInv, Gone
      <4> QED
        BY <4>4, <4>5
    <3> QED
      BY <3>2, <3>3
  <2> QED
    BY <2>1, <2>2 DEF ListsExact
<1> QED
  BY <1>1, SchedInvariant, PTL

\* TFileUpdate replaces the configuration only when it has ended whatever the
\* sleeping owners had started: what an owner that has not gone to sleep has
\* started, or starts after its wait is over, is all that can be in the way.
THEOREM SleepersAreSwept == Spec => []SleeperSwept
<1>1. SchedInv => SleeperSwept
  <2> SUFFICES ASSUME SchedInv, pc["upd"] \in {"clear", "load", "set"},
                      NEW o \in Owners, slept[o]
               PROVE  /\ count[o] = 0 /\ FreeSlots(o) = Indices
                      /\ \A t \in Threads :
                           Runs(t) /\ (work[t] = Client <=> o = "main") => t \in lost
    BY DEF SleeperSwept
  <2>1. Empty(o) /\ Asleep(o)
    BY DEF SchedInv, Slept
  <2>2. FreeSlots(o) = Indices
    BY <2>1 DEF Empty, FreeSlots
  <2>3. count[o] = 0
    BY <2>2, FreeFinite, SchedulerAssumption DEF SchedInv, Counted
  <2>4. ASSUME NEW t \in Threads, Runs(t), work[t] = Client <=> o = "main", t \notin lost
        PROVE  FALSE
    <3>1. t # None
      BY SchedulerAssumption DEF Threads
    <3>2. ~Placed(t)
      <4>1. ASSUME NEW p \in Owners, NEW i \in Indices, slots[p][i] = t
            PROVE  FALSE
        <5>1. p # o
          BY <2>1, <3>1, <4>1 DEF Empty
        <5> QED
          BY <2>4, <3>1, <4>1, <5>1, Two, SchedulerAssumption DEF SchedInv, Shared
      <4> QED
        BY <4>1 DEF Placed
    <3>3. ~Carried(t)
      <4>1. ASSUME NEW p \in Owners, hand[p] = t, pc[p] \in Creating
            PROVE  FALSE
        <5>1. p # o
          BY <2>1, <4>1 DEF Asleep, Creating
        <5> QED
          BY <2>4, <4>1, <5>1, Two, SchedulerAssumption DEF SchedInv, Carries
      <4> QED
        BY <4>1 DEF Carried
    <3>4. ~Orphaned(t)
      BY <2>4, <3>1, Two, SchedulerAssumption DEF SchedInv, Hands, Orphaned
    <3> QED
      BY <2>4, <3>2, <3>3, <3>4, WhereRuns
  <2> QED
    BY <2>2, <2>3, <2>4
<1> QED
  BY <1>1, SchedInvariant, PTL

\* When the service has stopped and its scheduler was not killed, every thread
\* that a list knew has ended: ~TServiceObject and ~TScheduler wait for them.
THEOREM StopIsClean == Spec => []StopsClean
<1>1. SchedInv => StopsClean
  <2> SUFFICES ASSUME SchedInv, pc["main"] = "stopped", pc["sched"] # "killed"
               PROVE  \A t \in Threads : Runs(t) => t \in lost
    BY DEF StopsClean
  <2>1. \A o \in Owners : pc[o] = "stopped" /\ Empty(o)
    BY Two DEF SchedInv, Swept
  <2>2. \A t \in Threads : t # None
    BY SchedulerAssumption DEF Threads
  <2>3. \A t \in Threads : ~Placed(t) /\ ~Carried(t) /\ ~Orphaned(t)
    BY <2>1, <2>2, Two DEF Placed, Carried, Orphaned, Empty, Creating
  <2> QED
    BY <2>3, WhereRuns
<1> QED
  BY <1>1, SchedInvariant, PTL
=============================================================================
