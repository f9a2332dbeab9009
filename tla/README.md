# Sync-service: models, checks and proofs

Sync-service is a Windows service that copies files between *points*. Every
point runs the same program, which is a server for the jobs of other points and
a client for its own jobs. This directory holds TLA+ models of it, the TLC runs
that check them on small instances, and TLAPS proofs for every instance.

`PROJECT.json` lists the parts, the runs, the mutants (plausible bugs that each
property is shown to catch), the lines each definition stands for, the hazards
of the code and the theorems. Paths and line numbers below are in `src/core`.

## 1. The system

| part | files | state it keeps | operations |
|---|---|---|---|
| service object, main thread | svcobj.cpp | `terminated`, thread list, `syncEvent` | accept a client, collect ended threads, wait for the event |
| scheduler, task list | scheduler.cpp, tasklist.cpp | 50 task slots | every 0.2 s: start the jobs that are due, collect ended tasks |
| job, schedule | job.cpp, xmlparse.cpp | start, end and next time, period, `wait_for_next_day` | `nex_day_init`, `ready_to_run`, `check_next_time_to_run` |
| task, client job | clienttask.cpp, clientjob.cpp | attempt, socket, object error, post-processing list | `work`: up to `MAX_TRY` attempts of `do_get_file` or `do_put_file` |
| session | clntthread.cpp, mainclass.cpp | input buffer, `in_transaction`, `files` | open, close, get_hash, get_file, put_file, transaction, enum_files, delete_file, clean_files |
| temporary and destination files | file.cpp, Windows | named after file and point | positioned write, `CopyFile`, `DeleteFile` |
| updater | filesupd.cpp | hashes of the configuration and images | fetch them, reload the configuration, restart |
| configuration | xmlparse.cpp, aobject.cpp, point.cpp | queues of points, objects, jobs, macros | parse at start and at reload |
| support | support.cpp | none | `get_answer`, templates, file search and deletion |
| queues, threads, timers, sockets | include/ | | |
| log, statistics, web status | newlogger.cpp, stat.cpp, websrv.cpp | counters | output |

How they interact. The scheduler thread creates one task thread per job. A task
connects to another point, whose main thread gives the connection a session
thread. Client and session exchange frames over one TCP connection: commands one
way, answers or error frames the other, data frames in the direction of the
file. A file is received into a temporary file, checked against the MD5 hash the
sender announced, copied over the destination with `CopyFile`, and deleted. An
interrupted transfer leaves the temporary file, and the next attempt resumes
after the whole blocks it has. When a transfer fails, the client closes the
connection, waits two seconds and makes another attempt with a new connection;
the session of the old one ends when it notices. The updater runs in a timer
thread, deletes all sessions and tasks and reads the configuration again while
the scheduler and the main thread are meant to wait for an event.

What is hard, and what makes each part correct:

* **One file, write job.** Sessions of several attempts share a temporary file;
  the source may change, shrink or vanish between its hash and its blocks;
  frames are lost with their connection; the server dies in the middle of a
  copy. Correct: the destination only gets an announced and checked content,
  the temporary file is kept until it is copied, success means the server has
  the file, the job and the sessions end.
* **One file, read job.** The roles are exchanged: the server hashes and reads a
  source that changes, and deletes it on request, perhaps after the attempt that
  asked has been given up. Correct: as above, and no source is deleted whose
  content the client does not have.
* **Several files, transactions.** An answer may come after its timeout, an undo
  may be lost, a commit may be cut in half. Correct: no destination changes
  before a commit, a transaction that succeeds has brought every file, and only
  then are sources deleted.
* **Synchronisation and cleaning.** One side lists, the other compares and
  deletes, while users work in both directories. Correct: nothing is deleted
  that the other side still has, and a synchronisation that ends well leaves
  two equal directories.
* **Searches.** Recursion with a level, a list filled from both ends, masks; a
  directory may fail while it is read, which is taken for its end. Correct: each
  matching file once or an error, except what `FindNextFile` did not give; a
  directory after what is in it.
* **Schedule.** The day, the window and the period wrap; a task may run past its
  next time and past midnight; days are read from arrays by index. Correct: once
  a day without period, a period apart with one, on the days that are named, no
  such day missed.
* **Scheduler, threads, updater.** Threads end while they are being resumed, the
  list of tasks is full, three agents scan the lists without a lock, a thread
  does not end in time. Correct: one task per job, exact lists, the list of an
  owner that sleeps through a reload is swept before the configuration is
  replaced, ended threads are collected, the service stops.

## 2. Modules

| module | models | extends / uses |
|---|---|---|
| `Blocks` | files as sequences of cells, positioned writes, the block from which a transfer resumes | |
| `VerifiedFile` | abstract: a file replaced only by announced contents, by copies that may be interrupted | |
| `PutFile` | one file of a write job, `do_put_file` against `command_get_hash` and `command_put_file` | `Blocks`; implements `VerifiedFile` |
| `GetFile` | one file of a read job, `do_get_file` against `command_get_file` and `command_delete_file` | `Blocks`; implements `VerifiedFile` |
| `StagedFiles` | abstract: several files, replaced or removed only while the job installs, by announced contents | |
| `WriteJob` | a write job of several files: transactions, enum_files, synchronisation, the deletion of sources | implements `StagedFiles`; abstracts the transfer of `PutFile` to one message |
| `ReadJob` | a read job of several files: the list from the server, the commit of the client, delete_file, synchronisation | implements `StagedFiles`; abstracts the transfer of `GetFile` to one answer |
| `Search` | `string_match`, `file_search`, `file_del` and the cleaning that uses it | |
| `JobSchedule` | the days and the times at which a job is started | |
| `Scheduler` | the main thread, the scheduler, the updater, the two lists of threads and the life of a thread | a job's schedule is a choice; a thread's work is a step |
| `BlocksProofs`, `PutFileProofs`, `GetFileProofs`, `WriteJobProofs`, `ReadJobProofs`, `SearchProofs`, `JobScheduleProofs`, `SchedulerProofs` | the proofs | |
| `MC...` | the instances, one module for each model that is run | |

Each refinement is an `INSTANCE ... WITH` and a property of a run: `Replaced` of
`PutFile` and of `GetFile` (`ReplacesVerified`), `Staged` of `WriteJob` and of
`ReadJob` (`InstallsStaged`). All are also proved, those of `PutFile` and
`WriteJob` for attempts that do not overlap.

### PutFile and GetFile

`cpc` is the place of the client in `do_put_file` (`do_get_file`), `try` the
attempt; `spc[k]` is the place of the session of attempt k in its handler. An
action is what a thread does from one read, write or file operation to the next:
the points where another thread, a user or a crash may come between. `c2s[k]`
and `s2c[k]` are the two directions of connection k. When it goes down
(`up[k]`) what is in them is lost and later sends go nowhere or fail, both of
which are steps of the model.

The data frames are kept as they are on the wire in one respect: a reader that
expects fewer cells than a frame has leaves the rest in the stream, one that
expects more waits for them. This is what happens when a source changes size in
the middle of a transfer, and the sessions then read block data as commands
(`SrvBadStream`, `SrvInvalidCommand`, `BadStream`). `left` is an integer because
`file_size - start_block*block_size` may be negative.

A file is a sequence of cells and a hash is the content it was taken from.
Sharing modes of handles are guards: a file open for writing cannot be opened a
second time (`SrvTempBusy`), one that is open cannot be deleted. `CopyFile` is
two steps, with the file `Torn` in between. A failed read, write, copy or hash,
a reset connection, a slow answer, a crash and a change by a user are faults,
bounded by `MaxFaults`. `overwrite` is the object's flag, one of `Overwrites`.
In `PutFile` somebody else, a user or another job, may make the destination
while it does not exist (`DestMade`, a fault; `Put` of `VerifiedFile`), so the
answer to the one look at it (769) may be old when `CopyFile` replaces it (951).

Histories: `announced`, the hashes that were sent; `touched` (in `GetFile`
`doubtful`), whether a user has changed the source, or, in `GetFile`, the server
could not take its hash; `mismatch`, whether a check has failed; `unchecked` (in
`GetFile`), what the temporary file held when the server announced a file of
size 0, which the client then copies without a check.

### WriteJob

`cur` walks over the files of one object with a wildcard, or over those that are
named, each by an object (`job.wild`). `inTx[k]` and `files[k]` are `in_transaction` and the list of
session k, the last file put first, as `addElement` inserts. A job without
transaction uses `files[k]` for the file it is about to copy. `Received` says
what the temporary file may hold after a transfer: the content sent, or a mix of
it with what was there (`PutFile` shows both). A client that cannot read its
source after the transfer has begun is left to `PutFile`. `tempName` is the name
of the temporary file, which depends on the base name only; a job's files may
share one. `post` is the list of sources to delete after the commit, `added`
what `has_no_changes` reports. Cleaning is three kinds of steps, the test of
`added` (`Clean`), the listing (`CleanList`) and a deletion for each file listed
(`CleanFile`), and users go on working between them.

A search of the client may be cut short, as `FindNextFile` failing is taken for
the end of the directory (`Finds`, a fault), and so may the server's list
(`SrvSyncError`). `touched` is what users have changed or a search has passed over.

With `job.post = "sync"` the client asks for the server's list (`SrvEnum`),
takes the sources off it (`Sync`) and sends a `delete` for each name that is
left (`wait_drop`), any of which may fail or be answered late.

### ReadJob

The server lists (`SrvEnum`), hashes and sends; the client keeps the list of a
transaction (`files`), copies when all have arrived, and only logs a copy that
fails. Without a transaction it copies and has each source deleted at once.
`touched` is what users have changed or the server's search has passed over
(`SrvEnumCut`). `missed` is the history of the files an attempt left behind or
its own search passed over (`PassesOver`), so that `AllFetched` speaks of the
others. `whole` says that `do_get_file` came to its
last line, whatever it returns. Sessions of earlier attempts go on: a `delete`
on its way may be carried out attempts later, which is the case `HeldSomewhere`
is about. `SyncDelete` is `sync_files` of a read job, with its own search, which
may be cut short too.

### Search

A path is a sequence of names, a name a sequence of characters. `file_search` and
`file_del` call themselves: `stack` holds the calls, one in another, each with its
directory and the entries that `FindNextFile` has still to give it, in any order.
They differ in three ways that the model keeps: which directories they enter
(`Enters`), what they list and at which end of the list. `Enter` is the beginning of
a call, with the level, the error and the guard, `Return` its end, `Unwind` the end
of a call in which another one has failed. `string_match` is a loop over two places,
one round a step; `file_search` runs it for each file (`AskFile`). A behaviour makes
one call of one of the three functions; `file_del` is followed by the cleaning, one
deletion a step. `unreadable` is a directory that cannot be opened. In one that is
`torn`, `FindNextFile` may fail after any of its entries (`Breaks`); the loops
(1360, 1451) do not ask why it has returned FALSE, so the call ends with result 0
and the rest of its entries is added to the history `missed`. A path that is missed
or lies below one that is, is `Lost`. `locked` a file in use, `drive` the empty root
of a drive, where nothing at all is found and `FindFirstFile` fails. Between two
deletions a user may add a file.

### JobSchedule

One job, its `<schedule>` read element by element in the order of the file, as
`set_time`, `set_period` and `set_duration` all recompute the next time. A time
is a number of minutes. `ticked` says that the scheduler has looked at the job
in this minute; it may look again any number of times. `Reload` is what the
updater does to a job.

The days: `Selection` is the text of the elements, `FromNames` and `FromNumbers`
fill the arrays, `Scheduled` is what `parse_jobs` accepts, `RunsOn` is the first
switch of `ready_to_run` with the indices it uses. An array that is read past
its end runs into the one after it in the structure (`Variant`, `beyond`);
`Calendar` gives the date of each day, so a run can put any dates before the
schedule.

### Scheduler

`TThreadList` with its sessions and `TTaskList` with its tasks are the same code
over two arrays: `slots[l]`, `count[l]`. Three agents act on them: the owners
`main` and `sched` and the updater `upd`. `pc` says where an agent is, `hand`
what it is creating or deleting, `slot` how far its scan is, `drain` that it has
left its loop. A scan is one step per slot. A deletion is up to four, between
which anybody may act: the destructor of the derived class (`end`), the end of
its wait (`await`), `~TThread` with `TerminateThread` (`free`), and only then the
slot is emptied and counted down (`empty`), so that for a while it holds an object
that is gone. For a thread `tpc` is what Windows knows, `state` is `threadState`,
`obj` how far its object is destroyed. `resume` writes `threadState` after the
thread has been released, so a thread that ends at once is overwritten as
running. `lost` are the threads `add_task` and `add_thread` had no room for, which
nobody notices.

A reload may begin at any time and nothing is locked: the updater may walk a list
together with its owner, and clear the configuration under it. `slept` is a
history: which owners sleep on the event from the beginning of the reload on, or
have ended. Where two agents use at once what only one may, the behaviour of the
program is undefined, and the step that meets it is `Clash`: a slot whose object
is freed or is being deleted by the other (`ClashObject`, `ClashRunning`), two
changes of one count (`ClashCount`), the configuration cleared under a thread that
reads it (`ClashConf`). A clash ends the behaviour: the properties hold in every
state up to it, and nothing is said of what follows.

## 3. Runs

| run | instance | properties | outcome |
|---|---|---|---|
| `PutFile_safety` | four contents (none, one and two blocks, a rest), with and without overwrite, 3 attempts, 2 faults, one session at a time, fair | `TypeOK`, `SuccessMeansHeld`, `Delivers`, `TempKeptUntilCopied`, `ReplacesVerified`, `JobEnds`, `SessionsEnd` | pass, 220 000 states |
| `GetFile_safety` | four contents (none, one block, blocks and a rest), 2 attempts, 2 faults, overlapping sessions, fair, source deleted | `TypeOK`, `Delivers`, `TempKept`, `ReplacesVerified`, `SourceKept`, `JobEnds`, `SessionsEnd` | pass, 335 000 states |
| `WriteJob_safety` | two files, seven jobs (transaction or not, overwrite or not, wildcard or names, deletion, synchronisation, own or shared temporary names), 3 attempts, 2 faults | `TypeOK`, `AllDelivered`, `SourceKept`, `InstallsStaged`, `SyncDeletesExtra` | pass, 2.9 million states |
| `ReadJob_safety` | two files, five jobs (of these kinds, and one object for each file), 3 attempts, 2 faults | `TypeOK`, `AllFetched`, `Mirrors`, `HeldSomewhere`, `InstallsStaged` | pass, 2.7 million states |
| `Search_safety` | every mask of up to 4 characters against every name of up to 4; every tree of 11 places on up to three levels, its entries found in every order; a directory that cannot be opened, or fails after any of its entries | `MatchesMask`, `FindsExactly`, `CleansAll` | pass, 8.5 million states |
| `JobSchedule_safety` | days of 6 minutes, 3 days, every start, 5 periods, 3 durations, 4 orders, 4 selections of days, a reload | `TypeOK`, `OnceADay`, `Spaced`, `NoDayMissed` | pass, 560 000 states |
| `Scheduler_safety` | a job, 2 threads, lists of one slot, a reload at any time, a short wait, fair | `TypeOK`, `OneTaskPerJob`, `ListsExact`, `SleeperSwept`, `StopsClean`, `Collected`, `Stops` | pass, 580 000 states |
| `PutFile_overlap` | sessions may overlap | `DestVerified` | violated |
| `PutFile_made` | without overwrite, somebody makes the destination during the transfer | `KeepsExisting` | violated |
| `WriteJob_late` | no transaction, a slow answer | `DeletedIsHeld` | violated |
| `JobSchedule_days` | the last days of a month, monthly jobs | `TestsCurrentDay` | violated |
| `Scheduler_reload` | two jobs, lists of two slots, 3 threads | `ReloadsAlone` | violated |

What the violated ones show (each quotes the comment it contradicts in
`PROJECT.json`):

* *overlap*: a session between its check and `CopyFile` copies what the session
  of the next attempt has begun to write. It needs an attempt to start while the
  old session still runs; two seconds between attempts make that rare, nothing
  makes it impossible.
* *made*: without overwrite the session looks for the destination once, before it
  receives the file (769), and `CopyFile` replaces whatever is there at the end
  (950-951): a file that a user or another job has made meanwhile is overwritten.
* *late*: outside a transaction a late `get_hash` answer is taken for the one
  about the next file, whose source is then deleted although it was never sent.
* *days*: `ready_to_run` indexes the arrays of months and days with the day of
  the month, which begins with 1: the month that is looked at is the day's, the
  day the next one, and from the 12th on the months are read in the days.
* *reload*: the updater resets the event and goes on at once; the scheduler, in
  the middle of a pass or tired of waiting, walks the jobs while they are
  cleared and starts tasks that read them.

### What else the models show

These follow from the definitions, at the lines named, and no run is spent on
them; the properties exclude them where they must.

* A source that changes while it is sent leaves a temporary file whose first
  blocks are old; it is kept after the failed check, so every later attempt
  resumes after them and fails (`mainclass.cpp` 789-799, 925).
* When the announced size is 0 a read job skips the check of the hash but still
  copies the temporary file, resumed blocks included (`clientjob.cpp` 590, 704,
  755): a source that has been emptied is replaced by what an interrupted
  transfer of an earlier content left. `ReplacesVerified` of `GetFile` therefore
  allows a copy of what is in `unchecked`; without that it is refuted as soon as
  one of the contents is empty.
* In the minute 00:00 each pass of the scheduler ends the wait for the next day,
  so a job without period at 00:00 is started whenever its task ends
  (`job.cpp` 379, 519-532): hence `start > 0` in `OnceADay` and `Spaced`.
* A weekly job is never scheduled: `parse_jobs` tests a number that is still 0
  before it calls `init_weekly` (`xmlparse.cpp` 628, 663; `Scheduled`).
* A mask is not anchored at its end, and what follows `**` or `*?` is ignored
  (`support.cpp` 1244-1290): hence `Plain` and the second half of `MatchesMask`.
* `sync_files` of a write job compares the server's list with the files found with
  the object's wildcard (`clientjob.cpp` 1734, 1803). An object that names one file
  finds none, so the server's copy of that very file, just written, is deleted:
  hence the wildcard in `WildSyncDeletesExtra` and in the jobs of the run.
* `has_no_changes` is asked once (`clientjob.cpp` 1899) and the directory is listed
  again afterwards (1925): a file a user adds in between, which was never sent, is
  on the list and deleted (1940). `SourceKept` speaks of files no user has touched.
  What is deleted is every file of the directory ("clean dir from ANY files", 1884),
  also one the object does not name; the files of the models are those it takes.
* A search whose directory fails while it is read ends with result 0 and a part of
  the list (`support.cpp` 1360): a transfer then passes over the rest in silence,
  and a synchronisation with the other side's list cut short deletes what is still
  there. `Lost` in `FindsExactly` and `CleansAll`, `touched` and `missed` in the
  jobs' properties are these files.
* Files with one base name share a temporary file. In a transaction the second
  overwrites what the first has received (`mainclass.cpp` 752): the jobs with
  shared names are in the runs of both modules, `StagedFiles` then knows only
  that the content was announced for one of them, and `OwnTemps` is a condition
  of the stronger properties.

### Bounds

* **Blocks of two cells, files of at most two blocks.** A transfer has the
  cases: no block, a rest only, whole blocks only, blocks and a rest; a resume
  after no block, after some, after all. All of them occur. The contents begin
  with different blocks, so that a resume over another version is a mix.
* **Three attempts.** The second meets what the first left, the third meets a
  resume of a resume; more repeat this. `MAX_TRY` is 5 in the code.
* **Two faults.** Enough for a fault, its recovery and a fault in the
  recovery. `SourceKept` of `GetFile` excludes, by `doubtful`, a
  server that could not take the hash: that, a copy that fails and an answer that
  comes too late together lose a file. `Delivers` speaks of behaviours without faults.
* **Two files.** What goes wrong between files goes wrong between two
  neighbours; a commit can be cut in half; a list can be compared with a longer,
  a shorter and a disjoint one.
* **Trees of 11 places.** Two directories next to each other, one inside another
  down to `MaxLevel` and one below it, two whose names begin with a dot, files on
  every level; `MaxLevel` is 2 instead of 15 and only bounds the recursion.
* **One job, two threads, lists of one slot.** A task that has ended and is still
  in the list, the next task of its job, which finds no room; or a task and a
  session. Owner and updater meet at that slot in every order: the one passes over
  it and the other empties it, the one adds to it while the other has freed what is
  in it and not yet counted down. Two agents at different slots of one list need
  two slots and three threads, which were checked for safety too (7.7 million
  states, too many for the liveness properties); the theorems are about any number.
* **Days of six minutes.** The operators of the schedule only compare and add;
  the proofs hold for every length. The dates are three days of a March; the
  selections have one job of every day, one whose indices fall on the second and
  third of them, and two that never run.

### Fairness

Every thread keeps running: weak fairness of the client and of each session.
Windows schedules every runnable thread, and each blocking call of the code is a
loop with a timeout (`get_answer`, the receive loops, `process_messages`).
In `Scheduler` a thread that has been asked to finish finishes, which is what
`JobEnds` and `SessionsEnd` show of jobs and sessions; none has to end before.
Faults are never assumed to happen. A timeout is certain when nothing can arrive
any more; when the answer is still on its way it is a fault. `WriteJob`,
`ReadJob`, `Search` and `JobSchedule` are checked for safety only.

## 4. Proofs

All hold for every value of the constants that satisfies the named assumptions
(`BlocksAssumption`, `PutFileAssumption`, `GetFileAssumption`,
`WriteJobAssumption`, `ReadJobAssumption`, `SearchAssumption`,
`JobScheduleAssumption`, `SchedulerAssumption`): any contents, block size,
`MIN_FILE_SIZE`, number of attempts and of faults, any names, masks and trees, any
length of the day and any set of schedules, any number of jobs, threads and slots.

* `TypeCorrect`: `PutFile` never leaves its types, with or without overlapping
  sessions. `TypeOK` is not inductive: that a session writes inside its
  temporary file needs the strengthening `IType`, which adds that a file pointer
  is at most the length of the file, that two sessions never have it open for
  writing, and what the channels carry. `BlocksProofs` has the lemmas about
  `WriteAt` and `SubSeq` it rests on.
* `DestinationVerified`, `TempKept`, `ImplementsVerifiedFile`: when a new attempt
  waits for the old session (`~Overlap`), the destination is always verified, the
  temporary file goes only after its copy, and `PutFile` implements
  `VerifiedFile`. `DestVerified` alone is not inductive: a copy needs to know that
  the temporary file is still what was checked. `VerifiedInv` says so: one
  session lives (`OneSession`), what it was or will be asked for was announced
  (`Promised`, `Asked`), and from the check to the end of the copy the temporary
  file is what was checked (`Checked`). The assumption cannot be
  dropped, as `PutFile_overlap` shows for `DestVerified`, the property that run
  checks.
* `PutSuccessMeansHeld`, again for `~Overlap`: what a job with `overwrite` reports
  as sent is in the destination, or checked in the temporary file of a session that
  is about to copy it. `HeldInv` says what the channels of the attempt at work can
  hold: no session but its own still acts (`OnlyTry`), the answered hash is the
  destination's, the offered one the client's, and its `ok` means that the server
  has the file (`Offered`), an answer `dont_need` only comes without overwrite
  (`Refused`), and what the client has taken for sent stays where it was checked
  (`Sent`).
* `PutDelivers`: without a fault the first attempt ends well and the destination
  is what was hashed, for a file of any length, any block size and any
  `MIN_FILE_SIZE`; no assumption on sessions is needed, as no second attempt
  begins. `Straight` is the inductive part: the behaviour is a path of stages
  (`Before`, `Asking`, `Offering`, `Sending`, `Awaiting`, `Ending`) named by what
  is in the two channels. In the middle of it `Flow` says that the temporary file
  is a prefix of the source that ends between two blocks, that the frames on
  their way are the blocks that follow, in order, and that the sender goes on
  with the next one. `BlocksProofs` proves what this needs of a file cut in
  blocks: writing block p after the first p blocks gives the first p + 1
  (`PieceWritten`), the last one is the one whose end is the length
  (`BlockBounds`, `WholeFile`), what a sender reads for a block number is that
  block (`BlockRead`), what a receiver takes of a frame is all of it
  (`PieceTaken`), and a block that is written once more changes nothing
  (`PieceRewritten`).
* `FetchTypeCorrect`, `FetchKeepsTemp`, `FetchImplementsVerifiedFile`: `GetFile`
  keeps its types, its temporary file and its promise, without any assumption on
  the sessions: they may overlap, as the client alone writes the temporary file.
  `FetchInv` is the inductive part: a hash that comes with a file has been
  announced (`LegalAnswers`), the client works inside the file it has (`Placed`),
  and what it passes on to the copy is what it checked, or what nobody checks
  (`Trusted`).
* `FetchKeepsSource`: whatever is lost, delayed or cut off, in any attempt and
  with overlapping sessions, a source of which the hash could be taken and which
  no user has changed is deleted only while the client has its content.
  `KeptInv` is the inductive part. Nothing is sent on a connection before its
  attempt (`Fresh`). As long as the source is intact the sessions tell the truth
  of it (`Honest`), and the blocks that are on their way to the client are those
  that follow what it has (`InStep`, with `Train` for the frames of one answer).
  So a client that holds the source, kept from an earlier attempt, writes over it
  only what is there already (`Sure`): that is why a `delete` of an attempt given
  up, which a session may carry out at any later time (`Asked`), does no harm even
  when the copy has failed and a later attempt is receiving again.
* `FetchDelivers`: the same promise as `PutDelivers`, and the same argument,
  with the deletion of the source as one more stage. A sender that has sent its
  last block does not know it until it looks for the next one (`SentAll`), so the
  client checks, acknowledges and copies while the session is still in its loop.
* `ScheduleTypeCorrect`, `StartedOnceADay`, `StartsSpaced`: for every calendar and
  every selection of days the schedule keeps its types; a job without a period that
  does not start at midnight starts once a day; two starts of one day are a period
  apart. `ScheduleInv` is the inductive part: after a start the job waits for the
  next day or its next time is a period after the last start.
* `EverySelectedDay`: when the scheduler misses no minute (`~Skips`), a job is at
  work on each selected day after the one its configuration was read on, if that
  gives the start before the duration. `DayInv` is the inductive part: what of the
  configuration has been read decides start and end (`Configured`); the next time
  is inside the window (`Window`); on a day without the job the wait ends with the
  first look, and neither the start nor the next time has been passed unseen
  (`Missing`).
* `ReadTypeCorrect`: the types of `ReadJob`. `IType` adds what `TypeOK` cannot
  carry alone: a command in a channel is one the client can have sent
  (`LegalCommands`), an answer names a file and a content the server can have
  had (`LegalAnswers`), and where the client works on a file there is one
  (`Placed`).
* `ReadImplementsStagedFiles`: every `ReadJob` implements `StagedFiles`, whatever
  attempts are given up, sessions work late and sources change. `StagedInv` is
  the inductive part: the client's list holds only files whose temporary file is
  a content the server announced (`files \in Seq(Held)`), a copy is made of such a
  file, and in a transaction only after `commits`. `Held` only grows while the
  job runs, so a file that was received in an earlier attempt stays installable.
* `ReadTransactionDelivers`, `ReadSyncMirrors`, `ReadKeepsSource`: a transaction of
  a read job that comes to its end has every listed file it did not have to leave
  (`AllFetched`), a synchronisation has made the directories equal, unless one of
  the two searches passed over a file (`Mirrors`), and a source is deleted only
  while the client holds its content (`HeldSomewhere`), with any number of attempts
  and sessions at work. `DeliveryInv` is the inductive part. One request or one
  answer is on its way, and it is about the file the client works on (`Matched`);
  answers are true of every file no user has changed and no search has passed over,
  now and whenever they arrive, unless the job itself has deleted it (`Channels`,
  `GotTrue`, `ListTrue`); a deletion is only asked for a file that is kept
  (`SafeCommands`), and stays kept whatever later attempts fetch, copy or throw
  away; and each listed file is still to be fetched, on the list with its content in
  the temporary file or already in its destination, left behind, or arrived
  (`FetchInv`).
* `WriteTypeCorrect`: the types of `WriteJob`, overlapping sessions included.
  `IType` adds that a command in a channel is one the client can have sent
  (`LegalCommands`) and that the client has a file where it works on one
  (`Placed`).
* `WriteImplementsStagedFiles`: `WriteJob` implements `StagedFiles` when a new
  attempt waits for the old session (`~Overlap`). `StagedInv` is the inductive
  part: a `put_file` carries a hash that was announced for its file
  (`AllOffered`), the sessions of later attempts have not begun (`Fresh`), one
  session runs (`OneSession`), and what it has on its list is in the temporary
  file (`Listed`, `Held`). The rest is `Unasked`, of what there is before the
  client requests a commit: no channel holds a commit or a deletion, a session
  is to receive a file only inside its transaction, where it does not copy, and
  an undo is the last command of its channel, so that nothing is received after
  it. Without this a late session of an attempt that was given up could replace
  a destination at once.
* `WildSyncDeletesExtra`: when every job that synchronises has a wildcard, a
  synchronisation removes a file of the server only when there is no such source,
  with any number of attempts and even with overlapping sessions. `SyncInv`
  follows a name from the search through the list of the client to the command in
  a channel: its source is gone, or a user has touched it, or the client's search
  has passed it over. A job of named files
  shows that the theorem needs the wildcard (section 3).
* `TransactionDelivers`, `TransactionKeepsSource`: under both of these
  assumptions, a transaction that ends well has brought every file it listed
  (`AllDelivered`), and deletes a source only when the destination has its
  content (`SourceKept`), whatever was lost and whichever earlier attempts were
  cut off in the middle of a commit. `DeliveryInv` is the inductive part. The
  sessions of attempts that were given up have ended (`Alone`). The client and
  the session take turns: while the client works, one command of the kind it
  waits for or one answer is on its way (`Exch`, `WaitHash`, `WaitPut`,
  `WaitCommit`). A file that counts as sent is in the temporary file if the
  session has it on its list and in its destination otherwise, and no file is on
  the list twice (`Sound`), so each copy of the commit moves one file from the
  first to the second. What the client takes for sent is still the source
  (`SourceInv`). Once the commit is acknowledged the list is empty and no command
  that could fill it is on its way (`Calm`), and a deletion only meets files
  that were never listed, that a user has touched or that a search has passed
  over (`Delivered`), while the client synchronises or cleans.
* `StringMatchRight`: `string_match` takes every name a plain mask stands for, of
  any length, and no other but one that goes on after the mask or ends before it.
  What the loop may forget is the point of the proof: it searches for each token
  once and from the left. `Matching` says that the two places have been reached by
  the first place of each token; `NotMissed` that, whichever way the name fits the
  mask, they are not behind it (`Ahead`), so an earlier place of a token never
  loses a match. `SearchAssumption` and these two are all that is used.
* `SearchFindsExactly`: `file_search` lists each file once that `string_match` takes
  (`Takes`, of any mask), in the directories it enters and nowhere else, and without
  the files that `FindNextFile` did not give when it failed (`Lost`), or it fails
  itself, for every tree and every order in which entries are found. That a list is
  complete whenever the result is 0 is not true of the code and not claimed.
  `Frames` is what the recursion rests on: the calls are directories one in another
  (`Nested`), as many as `recurse_level`, none of them among the entries its caller
  has left. What is not yet found is then exactly what lies under an entry that some
  call has left, or is lost (`Pending`), each file under one of them only. `Opened`
  says that a search that has not failed could open everything it has passed;
  `SearchListed` that the list is what has been found and taken.
* `CleaningCleansAll`: a cleaning leaves what is in use, what is in a directory with
  a dot, what `FindNextFile` did not give, what came after the listing and the
  directories above these, and nothing else; after a search that failed it leaves
  everything. `DelListed` says that what the calls of `file_del` have found and left
  again is listed, each once and no directory before what is in it
  (`ChildrenFirst`). `Cleaning` carries this through the deletions: what has been
  passed is there if and only if something that stays is in it, because a directory
  that is still there when its turn comes has nothing left that is yet to be
  deleted.
* `SearchInvariant`: the conjunction of all these, `SearchInv`, which is inductive;
  the three theorems follow from it.
* `SchedulerTypeCorrect`, `OneTask`, `ListsAreExact`, `SleepersAreSwept`,
  `StopIsClean`: every safety property of `Scheduler`, for any number of jobs,
  slots, threads, reloads and short waits, a reload beginning at any time and two
  agents on one list at once, up to the first clash. `SchedInv` is the inductive
  part. A count is the number of the slots in use (`Counted`); no two slots hold one
  thread (`Exact`); a slot holds an object that is gone only until the agent that
  freed it has emptied it (`Gone`); two agents never delete the same thread
  (`Apart`), and each deletes the one in the slot it stands at (`Stands`), also
  while the other empties another slot or the owner adds to it; what an owner is
  creating is in no list yet (`Carries`, `Hands`), and the lists hold different
  kinds of threads (`Shared`); no thread is forgotten but those the list had no room
  for (`Known`); a thread of a list has not ended without leaving its work, and a
  job has one that lives (`Lives`); what the last sweep of an owner has passed stays
  empty (`Swept`), and so does what the updater has passed of the list of an owner
  that sleeps (`Slept`), as nobody else adds to it. That the owners do sleep is not
  assumed: `Scheduler_reload` shows they need not.

Every invariant and every action property of a passing run, and every refinement,
is a theorem, under the conditions named above where there are any. Only
model-checked are the liveness properties, `JobEnds` and `SessionsEnd` of the
transfers, `Collected` and `Stops` of `Scheduler`: they rest on fairness and on when
an action is enabled, which the prover does not reason about. Induction over data
and `RECURSIVE` operators are out of the prover's reach as well; no module needs
either.

## 5. What is not modelled, and why

* The bytes of a frame and the sizes of buffers. Frames are read whole, in
  order, and cut as described above.
* The end of the service inside a transfer (`finished`): in `Scheduler` it is a
  thread that ends when asked, in the transfers it is a broken connection.
* Collisions of MD5.
* `CopyFile`, `DeleteFile`, `ReadDirectoryChangesW` and sockets are Windows;
  they are modelled by what the code relies on.
* A commit whose `CopyFile` fails is in `WriteJob` and loses files, so
  `SourceKept` and `AllDelivered` exclude it (`copyFailed`).
* Several objects in one job, and files above one directory: an object is walked
  like a file, and a synchronisation deals with one object.
* The names `sync_files` compares: it takes the first name that begins with the
  one it looks for (`clientjob.cpp` 1049), so a file whose name continues another
  one's is taken for it. The models have names none of which begins another.
* The memory of strings and lists: the queue of files takes over the object's own
  string and frees it (`clientjob.cpp` 1043). `TerminateThread` with a lock of a
  queue or of the log held (`thread.cpp` 34), after which the next who wants it
  waits for ever: the locks are not in `Scheduler`.
* Times as text: `12:30pm` is read as 00:30 (`job.cpp` 203-224). `JobSchedule`
  begins with the number.
* What follows a clash of two agents in `Scheduler`: a deletion on a freed object,
  a count that is wrong, a pass over a queue that is cleared. The behaviour of the
  program is undefined there, and `Collected` and `Stops` are met by a clash.
* Templates and macros: a text that is replaced by a text, with no state.
* Log, statistics, web page, service manager, start-up, build files: no state
  another part depends on.

## 6. What is left

The locks of queues, log and statistics in `Scheduler`, with `TerminateThread`
where a thread holds one.
