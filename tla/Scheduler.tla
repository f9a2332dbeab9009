------------------------------ MODULE Scheduler ------------------------------
(***************************************************************************)
(* The threads of the service: the main thread (TServiceObject::work) with *)
(* its list of sessions, the scheduler (TScheduler::work) with its list of *)
(* tasks, the updater (TFileUpdate::execute), which replaces the           *)
(* configuration under both, and the sessions and tasks themselves, from   *)
(* CreateThread to the deletion of their objects.                          *)
(*                                                                         *)
(* TThreadList and TTaskList are the same code over two arrays: list l has *)
(* slots[l] and count[l].  Every agent that walks a list, the updater      *)
(* included, does so step by step and without a lock.  Where two agents    *)
(* use at once what only one may (an object that is being deleted, a       *)
(* count, the configuration) the program's behaviour is undefined: the     *)
(* step that meets it is Clash, and nothing is said of what follows.       *)
(***************************************************************************)
EXTENDS FiniteSets, Integers

CONSTANTS
  Jobs,        \* the jobs a configuration may have
  Client,      \* what a session works for
  MaxSlots,    \* MAX_TASKS, MAX_THREADS
  MaxThreads,  \* bound: how many threads are ever created
  MaxReloads,  \* bound: how many times the configuration is reloaded
  MaxFaults,   \* bound: how many waits of MAX_WAIT_TIME are too short
  None

ASSUME SchedulerAssumption ==
  /\ Client \notin Jobs
  /\ MaxSlots \in Nat \ {0} /\ MaxThreads \in Nat /\ MaxReloads \in Nat /\ MaxFaults \in Nat
  /\ None \notin 1..MaxThreads

VARIABLES
  jobs,        \* the queue of jobs
  event,       \* syncEvent is signalled
  terminated,  \* an owner's flag; the main thread's includes stopEvent
  pc,          \* where each agent is
  todo,        \* what an owner has still to look at in this pass
  hand,        \* the thread an agent is creating or deleting
  drain,       \* an owner has left its loop: it ends every thread it finds
  list, slot,  \* where an agent is in scan_threads or scan_tasks
  slots,       \* the array of each list
  count,       \* thread_count and task_count
  made,        \* how many threads have been created
  work,        \* what thread t works for
  tpc,         \* where thread t is
  state,       \* its threadState
  obj,         \* its TClientThread or TClientTask
  lost,        \* history: threads their list had no room for
  slept,       \* history: owners that have slept through this reload
  clashed,     \* two agents have used at once what only one may
  reloads, faults

agents  == <<pc, todo, hand, drain, list, slot>>
lists   == <<slots, count>>
threads == <<made, work, tpc, state, obj, lost>>
conf    == <<jobs, event, terminated, reloads>>
marks   == <<slept, clashed>>
vars == <<conf, agents, lists, threads, marks, faults>>

Owners  == {"main", "sched"}
Agents  == Owners \cup {"upd"}
Threads == 1..MaxThreads
Indices == 1..MaxSlots

Deleting == {"end", "await", "free", "empty"}
Creating == {"resume", "add"}
\* The agent is in the middle of a walk over jobs or over a list.
Walking  == Creating \cup Deleting \cup {"pass", "scan"}

TypeOK ==
  /\ jobs \subseteq Jobs /\ event \in BOOLEAN
  /\ terminated \in [Owners -> BOOLEAN] /\ reloads \in 0..MaxReloads
  /\ pc \in [Agents -> Walking \cup {"wait", "join", "stopped", "killed",
                                     "idle", "clear", "load", "set"}]
  /\ todo \in [Owners -> SUBSET (Jobs \cup {Client})]
  /\ hand \in [Agents -> Threads \cup {None}]
  /\ drain \in [Owners -> BOOLEAN]
  /\ list \in [Agents -> Owners] /\ slot \in [Agents -> 1..MaxSlots + 1]
  /\ slots \in [Owners -> [Indices -> Threads \cup {None}]]
  /\ count \in [Owners -> 0..MaxSlots]
  /\ made \in 0..MaxThreads
  /\ work \in [Threads -> Jobs \cup {Client, None}]
  /\ tpc \in [Threads -> {"none", "suspended", "running", "exited"}]
  /\ state \in [Threads -> {"none", "suspended", "running", "ended"}]
  /\ obj \in [Threads -> {"none", "alive", "finished", "bare", "freed"}]
  /\ lost \subseteq Threads /\ faults \in 0..MaxFaults
  /\ slept \in [Owners -> BOOLEAN] /\ clashed \in BOOLEAN

Init ==
  /\ jobs = Jobs /\ event = TRUE /\ terminated = [o \in Owners |-> FALSE] /\ reloads = 0
  /\ pc = [a \in Agents |-> IF a = "upd" THEN "idle" ELSE "wait"]
  /\ todo = [o \in Owners |-> {}] /\ hand = [a \in Agents |-> None]
  /\ drain = [o \in Owners |-> FALSE]
  /\ list = [a \in Agents |-> IF a = "sched" THEN "sched" ELSE "main"]
  /\ slot = [a \in Agents |-> 1]
  /\ slots = [o \in Owners |-> [i \in Indices |-> None]] /\ count = [o \in Owners |-> 0]
  /\ made = 0
  /\ work = [t \in Threads |-> None]
  /\ tpc = [t \in Threads |-> "none"] /\ state = [t \in Threads |-> "none"]
  /\ obj = [t \in Threads |-> "none"] /\ lost = {} /\ faults = 0
  /\ slept = [o \in Owners |-> TRUE] /\ clashed = FALSE

Fault == faults < MaxFaults /\ faults' = faults + 1

Goto(a, s) == pc' = [pc EXCEPT ![a] = s]

StartScan(a, l) == list' = [list EXCEPT ![a] = l] /\ slot' = [slot EXCEPT ![a] = 1]
ScanOn(a) == slot' = [slot EXCEPT ![a] = @ + 1]

-----------------------------------------------------------------------------
(* A pass of the main thread or of the scheduler.                          *)

\* The wait for syncEvent is over: it is set, or it has been too long (a
\* reload may hold it back for longer than MAX_WAIT_FOR_UPDATE).  The loop is
\* left when the owner is terminated; otherwise the main thread accepts at
\* most one client and the scheduler looks at every job.
BeginPass(o) ==
  /\ pc[o] = "wait" /\ slept' = [slept EXCEPT ![o] = @ /\ event]
  /\ \/ /\ terminated[o] /\ drain' = [drain EXCEPT ![o] = TRUE]
        /\ Goto(o, "scan") /\ StartScan(o, o) /\ UNCHANGED todo
     \/ /\ ~terminated[o] /\ Goto(o, "pass")
        /\ todo' = [todo EXCEPT ![o] = IF o = "sched" THEN jobs ELSE {Client}]
        /\ UNCHANGED <<drain, list, slot>>
  /\ UNCHANGED <<conf, hand, lists, threads, clashed, faults>>

\* Mutant of TaskIsRunning: the last slot is not looked at.
TaskIsRunningShort(j) ==
  /\ count["sched"] # 0
  /\ \E i \in 1..MaxSlots - 1 : LET t == slots["sched"][i]
       IN t # None /\ work[t] = j /\ state[t] # "ended"

TaskIsRunning(j) ==
  /\ count["sched"] # 0
  /\ \E i \in Indices : LET t == slots["sched"][i]
       IN t # None /\ work[t] = j /\ state[t] # "ended"

\* The job is not due or its task still runs; no client connects.
Skip(o, w) ==
  /\ pc[o] = "pass" /\ w \in todo[o] /\ todo' = [todo EXCEPT ![o] = @ \ {w}]
  /\ UNCHANGED <<conf, pc, hand, drain, list, slot, lists, threads, marks, faults>>

\* task_is_running reads the object of every slot.
ReadsFreed == \E i \in Indices : LET t == slots["sched"][i] IN t # None /\ obj[t] = "freed"

\* A new TClientTask or TClientThread, whose thread is created suspended.
Create(o, w) ==
  /\ pc[o] = "pass" /\ w \in todo[o] /\ made < MaxThreads
  /\ o = "sched" => ~ReadsFreed /\ ~TaskIsRunning(w)
  /\ LET t == made + 1
     IN /\ made' = t /\ hand' = [hand EXCEPT ![o] = t]
        /\ work' = [work EXCEPT ![t] = w] /\ tpc' = [tpc EXCEPT ![t] = "suspended"]
        /\ state' = [state EXCEPT ![t] = "suspended"] /\ obj' = [obj EXCEPT ![t] = "alive"]
  /\ todo' = [todo EXCEPT ![o] = @ \ {w}]
  /\ Goto(o, "resume")
  /\ UNCHANGED <<conf, drain, list, slot, lists, lost, marks, faults>>

\* resume, first half: ResumeThread.  (The thread writes tsRunning itself,
\* too; nobody tells that from tsSuspended.)
Resume(o) ==
  /\ pc[o] = "resume" /\ Goto(o, "add")
  /\ tpc' = [tpc EXCEPT ![hand[o]] = "running"]
  /\ UNCHANGED <<conf, todo, hand, drain, list, slot, lists, made, work, state, obj, lost,
                 marks, faults>>

FreeSlots(l) == {i \in Indices : slots[l][i] = None}
FirstFree(l) == CHOOSE i \in FreeSlots(l) : \A j \in FreeSlots(l) : i <= j

\* Mutant of Add: the task takes the first slot, whatever it holds.
AddFirst(o) ==
  /\ pc[o] = "add" /\ Goto(o, "pass") /\ hand' = [hand EXCEPT ![o] = None]
  /\ slots' = [slots EXCEPT ![o][1] = hand[o]] /\ state' = [state EXCEPT ![hand[o]] = "running"]
  /\ count' = [count EXCEPT ![o] = @ + 1]
  /\ UNCHANGED <<conf, todo, drain, list, slot, made, work, tpc, obj, lost, marks, faults>>

\* resume, second half: tsRunning is written, although the thread may have
\* ended meanwhile.  Then add_task or add_thread; that there was no room is
\* not looked at.
Add(o) ==
  /\ pc[o] = "add" /\ Goto(o, "pass") /\ hand' = [hand EXCEPT ![o] = None]
  /\ state' = [state EXCEPT ![hand[o]] = "running"]
  /\ \/ /\ count[o] # MaxSlots /\ FreeSlots(o) # {}
        /\ slots' = [slots EXCEPT ![o][FirstFree(o)] = hand[o]]
        /\ count' = [count EXCEPT ![o] = @ + 1] /\ UNCHANGED lost
     \/ /\ count[o] = MaxSlots \/ FreeSlots(o) = {}
        /\ lost' = lost \cup {hand[o]} /\ UNCHANGED lists
  /\ UNCHANGED <<conf, todo, drain, list, slot, made, work, tpc, obj, marks, faults>>

EndPass(o) ==
  /\ pc[o] = "pass" /\ todo[o] = {} /\ Goto(o, "scan") /\ StartScan(o, o)
  /\ UNCHANGED <<conf, todo, hand, drain, lists, threads, marks, faults>>

-----------------------------------------------------------------------------
(* scan_threads and scan_tasks, and the deletion of what they find.        *)

\* Mutants: an owner that ends leaves the threads that run; one that does
\* not end collects nothing.
FinishesUpdater(a) == a = "upd"
CollectsAtEnd(a)   == slots[list[a]][slot[a]] # None /\ IF a = "upd" THEN TRUE ELSE drain[a]

Finishes(a) == IF a = "upd" THEN TRUE ELSE drain[a]
Found(a)    == slots[list[a]][slot[a]]
Collects(a) == Found(a) # None /\ (state[Found(a)] = "ended" \/ Finishes(a))

\* Another agent has freed, or is deleting, what this one reads, or collects.
Freed(a) == Found(a) # None /\ obj[Found(a)] = "freed"
Taken(a) == \E b \in Agents \ {a} : pc[b] \in Deleting /\ hand[b] = Found(a)

ScanNext(a) ==
  /\ pc[a] = "scan" /\ slot[a] <= MaxSlots /\ ~Freed(a) /\ ~Collects(a)
  /\ ScanOn(a)
  /\ UNCHANGED <<conf, pc, todo, hand, drain, list, lists, threads, marks, faults>>

ScanFound(a) ==
  /\ pc[a] = "scan" /\ slot[a] <= MaxSlots /\ ~Freed(a) /\ Collects(a) /\ ~Taken(a)
  /\ hand' = [hand EXCEPT ![a] = Found(a)] /\ Goto(a, "end")
  /\ UNCHANGED <<conf, todo, drain, list, slot, lists, threads, marks, faults>>

\* The destructor of the derived class: ask the thread to finish, wait for
\* it, and destroy what the base class of the work (socket, buffer) owns.
DeleteEnd(a) ==
  /\ pc[a] = "end"
  /\ IF state[hand[a]] = "ended"
       THEN obj' = [obj EXCEPT ![hand[a]] = "bare"] /\ Goto(a, "free")
       ELSE obj' = [obj EXCEPT ![hand[a]] = "finished"] /\ Goto(a, "await")
  /\ UNCHANGED <<conf, todo, hand, drain, list, slot, lists, made, work, tpc, state, lost,
                 marks, faults>>

\* The wait ends with the thread or (a fault) after MAX_WAIT_TIME.
DeleteAwait(a) ==
  /\ pc[a] = "await" /\ Goto(a, "free")
  /\ (tpc[hand[a]] = "exited" /\ UNCHANGED faults) \/ (tpc[hand[a]] # "exited" /\ Fault)
  /\ obj' = [obj EXCEPT ![hand[a]] = "bare"]
  /\ UNCHANGED <<conf, todo, hand, drain, list, slot, lists, made, work, tpc, state, lost, marks>>

\* ~TThread: a second wait, then TerminateThread; the memory is freed.
DeleteFree(a) ==
  /\ pc[a] = "free" /\ Goto(a, "empty")
  /\ obj' = [obj EXCEPT ![hand[a]] = "freed"] /\ tpc' = [tpc EXCEPT ![hand[a]] = "exited"]
  /\ UNCHANGED <<conf, todo, hand, drain, list, slot, lists, made, work, state, lost, marks,
                 faults>>

\* Mutant of DeleteEmpty: the count is not kept.
DeleteEmptyUncounted(a) ==
  /\ pc[a] = "empty" /\ Goto(a, "scan") /\ hand' = [hand EXCEPT ![a] = None]
  /\ slots' = [slots EXCEPT ![list[a]][slot[a]] = None] /\ ScanOn(a)
  /\ UNCHANGED <<conf, todo, drain, list, count, threads, marks, faults>>

\* Only now, the object long gone, is the slot free.
DeleteEmpty(a) ==
  /\ pc[a] = "empty" /\ Goto(a, "scan") /\ hand' = [hand EXCEPT ![a] = None]
  /\ slots' = [slots EXCEPT ![list[a]][slot[a]] = None]
  /\ count' = [count EXCEPT ![list[a]] = @ - 1]
  /\ ScanOn(a)
  /\ UNCHANGED <<conf, todo, drain, list, threads, marks, faults>>

\* Mutant of OwnerScanned: the main thread ends without a word to the scheduler.
OwnerScannedMute(o) ==
  /\ pc[o] = "scan" /\ slot[o] > MaxSlots
  /\ Goto(o, IF ~drain[o] THEN "wait" ELSE IF o = "main" THEN "join" ELSE "stopped")
  /\ UNCHANGED <<conf, todo, hand, drain, list, slot, lists, threads, marks, faults>>

\* The owner goes to sleep, or ends; ~TServiceObject, which follows the main
\* thread's last scan, terminates the scheduler.
OwnerScanned(o) ==
  /\ pc[o] = "scan" /\ slot[o] > MaxSlots
  /\ Goto(o, IF ~drain[o] THEN "wait" ELSE IF o = "main" THEN "join" ELSE "stopped")
  /\ terminated' = IF drain[o] THEN [terminated EXCEPT !["sched"] = TRUE] ELSE terminated
  /\ UNCHANGED <<jobs, event, reloads, todo, hand, drain, list, slot, lists, threads, marks,
                 faults>>

\* ~TScheduler: wait for the thread, and (a fault) kill it after MAX_WAIT_TIME.
Join ==
  /\ pc["main"] = "join"
  /\ \/ pc["sched"] = "stopped" /\ Goto("main", "stopped") /\ UNCHANGED faults
     \/ /\ pc["sched"] # "stopped" /\ Fault
        /\ pc' = [pc EXCEPT !["main"] = "stopped", !["sched"] = "killed"]
  /\ UNCHANGED <<conf, todo, hand, drain, list, slot, lists, threads, marks>>

-----------------------------------------------------------------------------
(* The updater: a timer's callback, one at a time (busy).                  *)

\* "main thread+scheduler stop work": they will, when they next sleep.
BeginReload ==
  /\ pc["upd"] = "idle" /\ pc["main"] \notin {"join", "stopped"}
  /\ reloads < MaxReloads /\ reloads' = reloads + 1
  /\ slept' = [o \in Owners |-> pc[o] \notin Walking]
  /\ event' = FALSE /\ Goto("upd", "scan") /\ StartScan("upd", "main")
  /\ UNCHANGED <<jobs, terminated, todo, hand, drain, lists, threads, clashed, faults>>

\* Mutant of ReloadScanned: only the sessions are ended.
ReloadScannedOne ==
  /\ pc["upd"] = "scan" /\ slot["upd"] > MaxSlots /\ Goto("upd", "clear")
  /\ UNCHANGED <<conf, todo, hand, drain, list, slot, lists, threads, marks, faults>>

\* All client threads are ended, then all job threads.
ReloadScanned ==
  /\ pc["upd"] = "scan" /\ slot["upd"] > MaxSlots
  /\ \/ list["upd"] = "main" /\ StartScan("upd", "sched") /\ UNCHANGED pc
     \/ list["upd"] = "sched" /\ Goto("upd", "clear") /\ UNCHANGED <<list, slot>>
  /\ UNCHANGED <<conf, todo, hand, drain, lists, threads, marks, faults>>

\* The scheduler stands at a job of the queue.
InQueue == pc["sched"] \in Creating \/ (pc["sched"] = "pass" /\ todo["sched"] # {})

\* The queues of jobs and clients are emptied and their objects freed.
Clear ==
  /\ pc["upd"] = "clear" /\ ~InQueue /\ Goto("upd", "load") /\ jobs' = {}
  /\ UNCHANGED <<event, terminated, reloads, todo, hand, drain, list, slot, lists, threads,
                 marks, faults>>

\* A configuration that cannot be used terminates both owners.
Load ==
  /\ pc["upd"] = "load" /\ Goto("upd", "set") /\ jobs' \in SUBSET Jobs
  /\ terminated' \in {terminated, [o \in Owners |-> TRUE]}
  /\ UNCHANGED <<event, reloads, todo, hand, drain, list, slot, lists, threads, marks, faults>>

\* The owners may go on.
EndReload ==
  /\ pc["upd"] = "set" /\ Goto("upd", "idle") /\ event' = TRUE
  /\ slept' = [o \in Owners |-> TRUE]
  /\ UNCHANGED <<jobs, terminated, reloads, todo, hand, drain, list, slot, lists, threads,
                 clashed, faults>>

\* A new image: both owners end and the updater's program takes over.
UpdateExe ==
  /\ pc["upd"] = "idle" /\ pc["main"] \notin {"join", "stopped"}
  /\ terminated' = [o \in Owners |-> TRUE]
  /\ UNCHANGED <<jobs, event, reloads, agents, lists, threads, marks, faults>>

-----------------------------------------------------------------------------
(* Session and task threads: threadFunc.                                   *)

\* execute returns because the work is done or the thread has been asked to
\* finish.
ThreadEnd(t) ==
  /\ tpc[t] = "running"
  /\ tpc' = [tpc EXCEPT ![t] = "exited"] /\ state' = [state EXCEPT ![t] = "ended"]
  /\ UNCHANGED <<conf, agents, lists, made, work, obj, lost, marks, faults>>

\* The service manager stops the service: stopEvent.
Stop ==
  /\ ~terminated["main"] /\ terminated' = [terminated EXCEPT !["main"] = TRUE]
  /\ UNCHANGED <<jobs, event, reloads, agents, lists, threads, marks, faults>>

-----------------------------------------------------------------------------
(* Two agents at once.                                                     *)

\* A slot whose object is gone, or is being deleted by another.
ClashObject(a) ==
  /\ pc[a] = "scan" /\ slot[a] <= MaxSlots
  /\ Freed(a) \/ (Collects(a) /\ Taken(a))

\* task_is_running at such a slot.
ClashRunning(a) == a = "sched" /\ pc[a] = "pass" /\ todo[a] # {} /\ ReadsFreed

\* count++ or count-- of two agents: one of them may be lost.
ClashCount(a) ==
  /\ pc[a] \in {"add", "empty"}
  /\ \E b \in Agents \ {a} : pc[b] \in {"add", "empty"} /\ list[b] = list[a]

\* The configuration is cleared under the scheduler, a client that is being
\* accepted, a session or a task.
ClashConf(a) ==
  /\ a = "upd" /\ pc[a] \in {"clear", "load"}
  /\ \/ \E o \in Owners : pc[o] \in Creating \cup {"pass"}
     \/ \E t \in Threads : tpc[t] = "running"

Clash(a) ==
  /\ ClashObject(a) \/ ClashRunning(a) \/ ClashCount(a) \/ ClashConf(a)
  /\ clashed' = TRUE
  /\ UNCHANGED <<conf, agents, lists, threads, slept, faults>>

-----------------------------------------------------------------------------
Scan(a)  ==
  \/ ScanNext(a) \/ ScanFound(a)
  \/ DeleteEnd(a) \/ DeleteAwait(a) \/ DeleteFree(a) \/ DeleteEmpty(a)
Owner(o) ==
  \/ BeginPass(o) \/ EndPass(o) \/ Resume(o) \/ Add(o)
  \/ Scan(o) \/ OwnerScanned(o) \/ Clash(o)
  \/ \E w \in Jobs \cup {Client} : Create(o, w) \/ Skip(o, w)
\* The process ends after the main thread.
Alive       == ~clashed /\ pc["main"] # "stopped"
MainThread  == Alive /\ (Owner("main") \/ Join)
SchedThread == Alive /\ Owner("sched")
Reload      ==
  Alive /\ (Scan("upd") \/ ReloadScanned \/ Clear \/ Load \/ EndReload \/ Clash("upd"))
Begin       == Alive /\ (BeginReload \/ UpdateExe \/ Stop)
Work(t)     == Alive /\ ThreadEnd(t)
Finished    == ~Alive /\ UNCHANGED vars

Next ==
  \/ MainThread \/ SchedThread \/ Reload \/ Begin
  \/ \E t \in Threads : Work(t)
  \/ Finished

Spec == Init /\ [][Next]_vars

\* Every thread keeps running, and what is asked to finish finishes; jobs,
\* sessions, reloads and stops need not happen.
FairSpec ==
  /\ Spec
  /\ WF_vars(MainThread) /\ WF_vars(SchedThread) /\ WF_vars(Reload)
  /\ \A t \in Threads : WF_vars(obj[t] # "alive" /\ Work(t))

-----------------------------------------------------------------------------
(* Properties.                                                             *)

Runs(t)   == tpc[t] = "running"
Places(t) == {p \in Owners \X Indices : slots[p[1]][p[2]] = t}

\* Two tasks of one job are never at work together, unless the list had no
\* room for the older one (schedule 83-91, task_is_running).
OneTaskPerJob ==
  \A t, u \in Threads :
    t < u /\ work[t] = work[u] /\ work[t] \in Jobs /\ Runs(t) /\ Runs(u) => t \in lost

\* The count of a list, which add_task and task_is_running trust, is the
\* number of its slots in use, a thread that has been added is in one slot,
\* and an object that is gone is in one only while the agent that has freed
\* it has still to empty it: for two agents that walk one list at a time,
\* too, up to the step of one that meets what the other is at (Clash).
ListsExact ==
  /\ \A o \in Owners : count[o] = Cardinality(Indices) - Cardinality(FreeSlots(o))
  /\ \A t \in 1..made :
       LET n == Cardinality(Places(t))
           at(s) == \E a \in Agents : hand[a] = t /\ pc[a] \in s
       IN \/ n = 1 /\ (obj[t] = "freed" => at({"empty", "killed"}))
          \/ n = 0 /\ (obj[t] = "freed" \/ t \in lost \/ at(Creating \cup {"killed"}))

\* "end all client threads", "end all job threads" (filesupd.cpp 205-209):
\* when the configuration is replaced, the list of an owner that has slept
\* since the reload began is empty and nothing it ever held still runs,
\* whatever the other owner, the service manager and the threads do.
SleeperSwept ==
  pc["upd"] \in {"clear", "load", "set"} =>
    \A o \in Owners : slept[o] =>
      /\ count[o] = 0 /\ FreeSlots(o) = Indices
      /\ \A t \in Threads : Runs(t) /\ (work[t] = Client <=> o = "main") => t \in lost

\* "main thread+scheduler stop work", "end all client threads", "end all job
\* threads" (filesupd.cpp 199-209): while the configuration is replaced
\* nobody walks it and no thread that a list knows runs.
ReloadsAlone ==
  pc["upd"] \in {"clear", "load"} =>
    /\ \A o \in Owners : pc[o] \notin Walking
    /\ \A t \in Threads : Runs(t) => t \in lost

\* "end all tasks", "end all threads": when the service has stopped without
\* killing its scheduler no thread that a list knew is left.
StopsClean ==
  pc["main"] = "stopped" /\ pc["sched"] # "killed" => \A t \in Threads : Runs(t) => t \in lost

\* "collect ended tasks": the slot of a thread that is known to have ended
\* is freed, unless the scheduler is killed.
Collected ==
  \A t \in Threads :
    state[t] = "ended" /\ Places(t) # {} ~> Places(t) = {} \/ pc["sched"] = "killed" \/ clashed

\* A service that is told to stop stops, in the middle of a reload too.
Stops == terminated["main"] ~> pc["main"] = "stopped" \/ clashed
=============================================================================
