# A verification development of the cpre308 repository

The repository holds the lab and project work of a course on operating systems. Its
largest program, and the one with a state of its own that outlives a call, is the
**print server**: a daemon, a client library, a command line client, drivers and virtual
printers (`proj2/src`), and an earlier threaded version of the daemon (`lab4/src/src`).
Next to it stand the **programs of the laboratories**, each complete in itself: a scheduler
simulator with its algorithms, task generator and json library (`lab6`), page replacement
(`lab7`), a shell (`proj1`), thread exercises (`lab3`, `lab4`), a character device (`lab5`), floppy
tools (`lab8`, `lab9`) and exchanges between processes (`proj2/Project2/ipc-types`). These
modules model them; what is left out is listed at the end.

## The system

| part | code (under `src/`) | state | operations |
|---|---|---|---|
| daemon loop | `proj2/src/print-server/print_server_single.c` | listening socket and its backlog, the connection `connfd` accepted last, `buffer`, `jobstr`, `produce` | accept, read a command, read a job, answer GETDRIVERS, production, consumption |
| job queues | the same file | per printer group a list `head` and a semaphore `num_jobs`; one pointer `prev` and one counter `job_number` for all | NEW .. PRINT, take a job from the tail |
| client library | `proj2/src/libprintserver/print_server_client.c` | one connection per call | `printer_print`, `printer_list_drivers` |
| cli-printer | `proj2/src/cli-printer/cli-printer.c` | its options | options, one call of the library |
| printer driver | `proj2/src/print-server/printer_driver.c` | the ends of two fifos, with stdio buffers | `printer_install`, `printer_print` |
| virtual printer | `proj2/src/print-server/printer/virt-printer.c` | fifos, stdio buffer, pipe, child process | answer a question, convert a job |
| threaded server | `lab4/src/src/main.c` | lists, their mutexes and condition variables, `supply`, `supply_mutex`, `exit_flag` | producer, a consumer per printer, joins of `main()` |
| configuration | `parse_rc_file` in both daemons | groups and their printers, in order | read once, told to clients |
| scheduler simulator | `lab6/src-2/src/Scheduler` | lists of tasks, their bursts and counters, the running task, time; the loaded module | start, tick, add and remove a task |
| algorithms | `lab6/src-2/src/Algorithms` | rings of tasks and their heads, guesses of srtn, a turn of rrr | enqueue, dequeue, timer |
| json library | `lab6/src-2/src/*/libjson` | the values, the flags of the parser | parse, free, build, measure, serialize |
| task generator | `lab6/src-2/src/SimTaskGen` | the task drawn | draw, export |
| page replacement | `lab7/src/memory_mgmt.c` | frames, per algorithm | an access under FIFO, LRU, OPT and CUST |
| shell | `proj1` | list of background jobs, children, descriptor 1, environment | run, reap, list, set, exit |
| thread exercises | `lab3`, `lab4/src/*.c`, `lab4/threaded_count.c` | counters, a shared supply, a ring buffer | produce, consume, count, print in order |
| character device | `lab5` | open count, message, its pointer | open, read, write, release |
| FAT12 tools | `lab8`, `lab9` | the decoded boot sector, the directory read | decode, list |
| exchanges | `proj2/Project2/ipc-types` | message queue, shared memory, pipe | send, receive, write, read |

Clients talk to the daemon over TCP, in blocks of a fixed size; the daemon talks to each
printer over two fifos; a printer talks to a `ps2pdf` child over a pipe. Within the daemon
everything is one loop over shared variables. In the threaded server the threads share
lists of jobs.

What is hard in it:

- `prev` is declared outside of the loop of the daemon and never reset. A walk over a list
  of one job cuts behind whatever an earlier walk, of whatever group, made of it. Which jobs
  survive, in what order, and whether the walk can start at a null head, is not obvious.
- The daemon never waits in `read`, and forgets a connection when it accepts the next.
- One turn of the loop either produces or consumes, and consumption forces a turn of
  production.
- `fgets` at the end of a fifo leaves its line as it was; a `fork` copies the stdio buffer;
  a failed `execvp` is passed over; a write without a reader kills the writer.
- The consumers of the threaded server wait on a condition with a mutex they have not
  locked, keep it locked after a timeout, and lose signals; EXIT stops them while the
  producer waits for them to finish.

- The simulator's `RemoveTask` takes the running task off its ring whichever task asked, in the middle
  of a walk over the list of tasks; each algorithm keeps heads of its own.
- `json_parse` reads a text twice and trusts the second pass to meet what the first one counted; the
  builder measures with one function what it writes with another.
- The shell reaps whichever child ended, once a turn, while it also waits for one by number.
- In the thread exercises a wakeup may come early, or to nobody; two threads add to one counter.

The properties each part owes: nothing is printed that was not asked for, jobs of a group are
printed in the order they were submitted, a job is printed, and once, every input becomes
at most one job, a conversion gets one stretch of the stream, the file of its job if that is a plain one, lists are touched by
one thread at a time, EXIT ends the server after the last job. A simulated task is in one list and in
one ring while it is ready, the task the policy names runs, its waveform and its counters agree, and
every simulation ends. What is parsed is what the grammar allows, what is built and written is read
back, and memory is filled as it was counted and freed once. Frames hold the pages the policy says;
the shell's list holds children and reports each; what threads share is shared in order; a row of
the listing tells of its file. PROJECT.json lists the hazards
with their lines and the property that watches each.

## Modules

- `PrintSpool` is the abstract promise: per group a job waits, comes out in order, and may be
  repeated at most `MaxReprints` times in all. It knows neither lists, sockets nor locks.
- `JobQueues` models the lists of the single-threaded daemon. A list is the sequence of its
  jobs from the head, a job is its `job_number`, a cut (`prev->next_job = NULL`) is
  `CutBehind`, applied to the list of *every* group since `prev` may belong to any. `Enqueue`,
  `Discard` and `Consume` are production of a good job, production of one that is dropped,
  and one printer's turn. `sent` and `printed` are histories. It implements
  `PrintSpool` with `MaxReprints = 1`. A list of no job with a count above zero would be a null
  dereference; `Consume` has no such step, and `NoNullWalk` shows that it is not missed.
- `JobQueues_proofs`, `PrintServer_proofs`, `VirtPrinter_proofs`, `ThreadedPrintServer_proofs`,
  `Simulator_proofs` and `Paging_proofs` hold the proofs about the modules they are named after, `Labs_proofs`
  those about `ThreadLabs`, `Device` and `Shell`. `PlaceTheorems` has the facts that several of them share: the ends of
  sequences, an element taken out, least places, remainders, functions defined place by place.
- `PrintServer` puts the daemon's loop and the clients around `JobQueues` (`JQ == INSTANCE`).
  `spc` is the place in a turn: `Accept`, `ReadCommand`, then `ReadJob` or `Reply`, then
  `ProduceJob`, `ProduceNothing` or a pass of `ConsumeTurn`s. Clients move between any two of
  these. A block is one message: `inbox` holds the blocks sent and not read. Its
  steps touch the queues only by the actions of `JobQueues`, so that what is proved of them holds of it. What
  a client sends after the daemon has ended, and the end of the daemon by a SIGPIPE in `printer_print`, are simplified:
  the one fails or is lost, the other is in `VirtPrinter`; of the empty fields only the description is modelled.
- `VirtPrinter` models `printer_driver.c` and `virt-printer.c` joined by the two fifos,
  line by line, a line being what one `fgets` of the printer returns. A file may end with a newline (`WriteEnd`) or
  without (`WriteUnended`: the ##END## is then in its last line, where the printer does not look), and have lines that
  begin with ##END##. Each line has its number in the stream the daemon writes (`written`, a history). A *reader* is a process that runs the loop of `virt-printer.c`; there
  is one, unless an `execvp` fails. `Fill` is the `read` below `fgets`: it takes any
  prefix of what the fifo holds. The text before an ##END## that is not the first of its line, and lines of a file that are
  one of the three questions, are left out: the printer would answer those, if it met them between two jobs. The endless copy after an end of file in a job is the
  flag `flooded`, as the bytes themselves say nothing.
- `ThreadedPrintServer` models `lab4/src/src/main.c` at the grain of single reads and writes of
  `head` and `next_job`; the program is built without optimisation, so each access in the
  text is one in the program. Unlocking a mutex, also inside `pthread_cond_timedwait`, frees
  it whoever holds it, which is what glibc does with a normal mutex. It implements `PrintSpool`
  with `MaxReprints = 0`: every PRINT of a job that is not already the last of its list is a
  submission. `Walk` and `WalkOn` are the loop to the end of a list, a step for each `next_job` it reads;
  `ReadPrinter` is a PRINTER line, which may follow the PRINT of its job only if `Regroup` is set. The
  producer's `job`, which no statement sets before the first NEW, is null then, as in a fresh stack.
- `PrinterConfig` follows the printers from a line of `config.rc` (`ReadLine`, for both daemons) over
  the daemon's `Reply` to GETDRIVERS to the loop of `printer_list_drivers`, one character a step (`Field`). Nothing
  sets the two arrays of the reply: the first request finds anything in them, a later one what the one before left
  (`Held`), and a text that does not fit ends the model (`overflow`), as the code's behaviour is undefined from there.
- `CommandLine` is the start of cli-printer, of both daemons, of the virtual printer and of the
  simulator: one `getopt` (`TakeOption`) over their tables of options, then what each makes of them:
  `check_job_info`, the fifos, which a killed printer leaves behind, the configuration file and
  the module of the simulator, with the ways each can fail.
- `SchedulerAlgorithms` has the rings of the five algorithms as sequences from their heads on, and
  their three operations as operators. `Simulator` EXTENDS it: one action per
  handler that `RunTick` calls (`OnStartTick`, `SchedulerTick`, `OnSysTick`, `OnEndTick`), the iterator of
  the walk being a variable, as a walk erases from its list. A node of a waveform is a letter. The list of times has no
  bound; the array of `SimTask.h` has 20 places, which `SimTask.cpp:70` fills without looking.
- `JsonParser` is the loop of `json_parse_ex`, flag for flag, run twice over a text that is typed as
  the first pass asks for it, and `json_value_free`. `JsonBuilder` EXTENDS it with building, measuring and
  serialising, after which the text goes back to the parser. `TaskGen` draws and exports the tasks.
- `Paging`, `Shell`, `ThreadLabs`, `Device`, `Ipc` and `Fat` model the other programs, one each. The
  four algorithms of `Paging` run side by side on one string of accesses. In `ThreadLabs` a step is what
  a thread does while it holds a mutex, and single reads and writes where it holds none. In `Device` a message
  may fill `msg`; its reader then goes on in the memory behind, which is any of `Beyond`. In `Fat` an entry is a file, a
  deleted or a free one; sizes of 2^31 bytes and more are left out.
- `MCStructures` runs the lists of `JobQueues`, the streams of `VirtPrinter` and the values of the json library, each alone
  (`what`), for all texts and trees of a few characters and values.
- `MCLabs` composes the programs of the laboratories for TLC: `prog` says which program runs. It EXTENDS `Simulator`,
  `ThreadLabs`, `Device`, `Paging` and `Shell`, whose variables rest at a start of the program while another one runs; the
  variables of the others are cells `m1`, `m2`, ... of one memory. The programs do not interact, so that each
  behaviour is one of one of them, but the simulator reads what the generator exported (`GeneratedIsRead`).
- `MCPrintServer`, `MCVirtPrinter`, `MCThreadedPrintServer`, `MCSimulator` and `MCFloppy` give the constants
  their values. Definitions whose comment starts with "Mutant of" are wrong variants of the
  one after them; each stands for a bug that one of the properties would find.

What the abstraction drops: the text of names, descriptions and files; the partial delivery of a
block within a `read`; log output; the second-long sleeps (no property depends on time); and
in `ThreadedPrintServer` wake-ups that POSIX allows without a signal. With those, a consumer could
walk into a list during the producer's `Walk` even in the shipped configuration, for the reason the
run `threads_two` shows; the runs describe a C library that wakes only for signals and timeouts.
The list semaphore of the threaded server is posted and never read, so it has no variable.

## Runs

| run | instance | shows |
|---|---|---|
| `structures` | 2 groups, 5 jobs; 2 jobs of up to 2 lines, daemon may die, ps2pdf may quit; texts of 6 characters, trees of 4 values | the invariants of the queues, the inductive invariant `IInv`, and the spool; the protocol of the fifos, the conversions, who dies after whom; the json library's memory, its language, both ways, and its end |
| `server` | 3 clients, every kind of request, backlog of 2 | inputs are queued once, as asked, in order; counted jobs are printed, connections accepted |
| `threads` | 2 groups with a printer each, 2 jobs, 3 PRINT lines | lists are exclusive, hold what is pending; EXIT comes last and ends the server |
| `labs` | each program of `MCLabs` alone, bounds below | 14 properties, at least one for each program |
| `server_lost` | violation | success is reported for a job that is never read |
| `server_empty` | violation | a job without a description ends the daemon |
| `server_stuck` | violation | the newest job of a group may never be printed |
| `virt_printer_missing` | violation | a failed `execvp` makes two readers of one fifo |
| `threads_two` | violation | two printers in a group: the list is not thread safe |
| `threads_exit` | violation | EXIT with a job whose signal was lost never ends |
| `srtn_sorts` | violation | what should sort the ring of srtn puts every task at its end |
| `floppy` | violation | an ordinary floppy: files without a row in the listing |

The violations are disagreements between the code and a comment of it, quoted under "findings" in
PROJECT.json. That the rest passes is the more interesting half: in particular the stale `prev`
never loses a job nor prints out of order. It leaves one uncounted job per group behind, for good
(`PhantomIsForever`), prints one job of each group twice, and delays the newest until another comes.

**Bounds.** The stale `prev` needs a list of two jobs to be set, a list of one job in another
group to miss, and two more jobs to show what became of it: five jobs in two groups. Three clients
are enough for a queue of connections longer than one while a third is being read, and for all
jobs of the shortest way to an uncounted job. A backlog of 2 instead of 10 makes it full with three
clients. Two jobs of two lines show both a line that leaks within a job and one that leaks into
the next, and a job that ends before its file or not at all. Two jobs and three PRINT lines show a job printed again before and after it was taken.
`threads` has one printer in each group, as `config.rc` has; `threads_two` shows that the code needs it. Its
`Regroup` is FALSE: no PRINTER line follows the PRINT of a job (see below for what happens if one does).
`ps2pdf` can be executed in `structures`; `virt_printer_missing` shows what its absence does.

For `labs`: three simulated tasks of six kinds (bursts of 1 and 2 ticks, one to three of them, equal and
different priorities, arrivals together and apart) under each of the five algorithms; two generated tasks; three rounds of the counters,
four consumers of two items each, a ring of two slots and four items; three pids, so that numbers come again; two
frames, three pages and six accesses; disks of three layouts with three to five entries of four kinds; two openers of the
device, a buffer of three, messages of up to four bytes and up to three read behind it (`MaxBeyond`); four lines of `config.rc`
with names shorter and longer than the client's array, two requests of the same daemon (`MaxRequests`) and replies of up to
48 characters (`SRVSIZE`), which a second request overflows, and arrays that held nothing, a digit or a field (`Residues`); command
lines of up to four words and, for the simulator, two lines of configuration. Three tasks are needed for a ring in
which the head, the running task and the one that leaves differ; a third page for a fault on full frames. In
`structures` texts have up to six characters from four alphabets, about structure, numbers and strings; six are an
object with a pair, or an array of two elements and a comma behind them, and four values an object in an array
next to another value.

**Deadlock** checking is off in every run: behaviours end when the bounded number of jobs, clients or
input lines is used up, and the programs themselves end (the daemon crashes, the printer
finishes, the threads are joined, a text is parsed).

**Fairness.** The daemon's loop never blocks, so `WF(Daemon)`; a client that called the library goes
on (`WF`), but nobody has to call it, so `Connect` is not fair. In `VirtPrinter` processes that can
run do (`DaemonGoesOn`, `PrinterGoesOn`); a daemon need not find a next job (`StartJob` is not fair) and need not die. In
`ThreadedPrintServer` timers expire and runnable threads run; the mutex of a list gets strong
fairness, for timed-out consumers free it again and again and hold it shortly compared with the
100 ms of their wait; no input line need ever come. In `labs` a program that computes goes on, a thread that
can run does, and a child of the shell ends; nobody need open the device or type at cli-printer. Since
the exercises never run together one condition does for several of their threads (`Apart`), at most one of every
exercise. In `structures` who called the json library goes on, and a text has an end; nobody need print. What a
program of `labs` or the json library arrives at is final, so that `EveryProgramArrives` and `EveryTextEnds` say
`[]<>`. A state that may not last (a count above 0, a connection in the backlog, a child not reported)
leads to its end exactly if it is over again and again, so that those properties say `[]<>` too, which TLC checks several
times faster than `~>`. `CountedJobsArePrinted` rests on the bounded number of clients: with a client in every turn the
daemon would produce for ever.

## Proofs

Seven modules of proofs, one for each of the modules below. What a run checks on a small instance they prove
for every value of the constants, from the assumptions named in the modules (`ConfigAssumption`,
`BoundsAssumption`, `SizesAssumption`, `BufferAssumption`, `TasksAssumption`, `PagingAssumption`, `ShellAssumption`:
numbers are numbers, a buffer has a place, the null client is no client, a task has more runs than blocks, there
are two frames or more, a pid is not 0) and from the
hypotheses stated with a theorem. In each the invariant of the run is not inductive, and the work is in the
strengthening; the proofs then go action by action, with one lemma for each that says what it keeps.

**`JobQueues_proofs`**: `TypeCorrect`, `Invariance` (`IInv`), `NeverWalksNull`, `PrintsInOrder`, `LosesNoJob`,
`PhantomStays` (an action property) and `QueuesImplementSpool`, from `MaxJobs \in Nat`. `NoNullWalk` is not
inductive: whether a count is covered depends on what a cut behind `prev` does to other lists. `IInv` says
where `prev` can be: null, and then no list ever disagreed with its count, or the *last* job of some list. So
cutting behind the `prev` of an earlier walk cuts nothing at all (`ConsumeEffect`), and cutting behind the one
a walk has just set takes one job off one list, which needs that no job is linked twice (`Unshared`). Hence the
list of a group is as long as its count or one longer (`AtMostOnePhantom`). The rest of `IInv` ties the list and
the count to the histories: a list is the youngest of the sent jobs (`ListOfSent`), and the printed ones are the
oldest, up to one repetition (`PrintedUpTo`). For the refinement, a job printed a second time is the job the spool
printed last, and the count of repetitions of a group is then still 0.

**`PrintServer_proofs`**: `Invariance` (`PSInv`), `JobsAreAsAsked`, `DaemonKeepsQueues`,
`DaemonImplementsSpool`, `PrintsInArrivalOrder`. `PSInv` follows a job from the call to the queue: what a client has sent
and not been asked for is in its inbox (`Posted`), the connection the daemon reads is the one that arrived last of those
accepted (`Arrivals`, `Reading`), and the input it holds is that client's (`Composition`, `SentAsAsked`). That each
step is one of `JobQueues`, which it is by its definition (`DaemonUsesQueues`), makes the theorems about the queues theorems about the daemon (`JQP == INSTANCE
JobQueues_proofs`); the order of arrivals then follows from theirs and from the order in which connections
are taken.

**`VirtPrinter_proofs`**: `Invariance` (`VInv`), `QuestionsAreAnswered`, `JobsAreKeptApart`, `FloodMeansCutOff`, from
`Ps2pdf # "missing"`: after a failed `execvp` there are two readers of one fifo. They hold for any `FileLines`: of files with
a final newline or not, with lines that begin with ##END## or not. The idea of `VInv` is that the stream has places:
the lines are numbered as they are written, the number of the line just read is how far the printer has come
(`Read`), and its stdio buffer and, behind it, the fifo hold the rest (`Unread`): a read below `fgets` leaves that
alone, however much it takes (`FillKeeps`), a write puts a line behind it (`SendKeeps`). `Stream` says what the
daemon writes, `DaemonPlace` where it is in it, `Exchange` that at most one question or answer is on its way, `Copying` that the
running `ps2pdf` has had the lines up to the current one, and `Converted` that the earlier ones have had theirs,
each a stretch of the stream that ends before the next begins. That such a stretch is the file of one job holds up to the first
odd line (`OddBefore`), which is the hypothesis `FilesArePlain` of the last conjunct of `ConvertedInOrder`; and a flood
begins behind a line that is no end, which is the last written only in the middle of a job or when it hides its ##END##.

**`ThreadedPrintServer_proofs`**: `TypeCorrect`, and with `OnePrinterPerGroup` `ListsAreThreadSafe`, and with
`~Regroup` besides `ListsArePending`, `ExitIsLast` and `ThreadsImplementSpool`. Both hypotheses are those of the
run, and the run `threads_two`, resp. the counterexample below, shows that they are needed. Mutual exclusion does not
follow from the mutex, which threads free that do not own it, but from `Exclusion`: who is in a list holds its
mutex, and a consumer that was signalled will not free the producer's again. `ListInv` ties `head` and `next_job` to the
histories (`Linked`), `tail` to the producer's place in the list (`Positioned`), and needs that jobs are numbered in the
order in which they are linked (`Numbered`) and that the job being linked is in no list yet, or the last of its own
(`Fresh`). `SupplyInv` is an account: `supply` is at least the number of waiting jobs (`Owed`) and of those taken and not
counted down (`Counting`), less the one linked and not counted up; it is more after a second PRINT of
a job that is the last of its list, which counts up without linking it.

**`Labs_proofs`** is about three of the smaller programs.

- `ThreadsInvariance`, `SharingIsInOrder`, for any number of rounds, items, slots and any finite set of consumers. `ThreadInv`
  has a part for each exercise: the flags are as far as the lines printed (`Chain`), a counter is the sum of the
  threads' rounds (`Counted`), the `supply` of t3 stays at most one production (`Supplied`), and for the ring that
  both semaphores and the threads' places add up to the number of slots and that the slots between the two ends
  hold what was produced in order (`Ring`, over remainders: `DivMod`).
- `DeviceHasOneReader`, for any files, data and length of the buffer, and for whatever lies behind it. `DeviceInv` says that the
  device is closed or has one user, who has read the message up to `msg_ptr`. What is ahead of the position is the
  message as far as `msg` goes (`UnreadIsMessage`); that the driver that writes its message itself is never read past
  the end needs the NUL behind its greeting.
- `ShellInvariance` (`ShellInv`) and `ShellAlwaysKeepsTrack`, for any pids: the shell starts a child only while it
  waits for none, so that the one it waits for is always the last (`JobsAndForeground`); since no number is twice among
  the children (`AllApart`), `ldel` takes out of the list the one that `waitpid` reported (`RemoveFirstIs`), from
  the middle of it or from its end (`ErasedLast`).

**`Simulator_proofs`**: `SimulatorInvariance` (`SimInv`), `SchedulerAlwaysAgrees`, `RightTaskAlwaysRuns`, for any number of
tasks, any bursts and priorities and each of the algorithms. `SchedulerAgrees` relates the rings, the states of the tasks
and the running task, and each operation of the scheduler changes all three. The lemmas `EnqueueAgrees`, `DequeueAgrees` and
`TurnAgrees` say that it is kept, of functions without a time, so that a handler has only to be one of the operations. The tasks
that are still to leave (`Leaving`) are between two handlers what the walk has passed: they are finished, or blocked
until after this tick (`Leavers`), so none of them can arrive before it has left; `Walks` keeps the walk, which erases
from its own list, in the order of the addresses. Behind `RightTaskRuns` are `Ran` (who ran leads its ring or is gone)
and `Order` (without a timer a ring is in the order of the arrivals). For srtn that is not what its name asks for: its walk
starts at the running task, which is the head, and stops at the head (`EnqueueAppends`), so that `RightTaskRuns`
says of srtn no more than that a running task is not stopped, and the run `srtn_sorts` shows the rest to fail.

`AccountsInvariance` (`Accounts`) and `AccountsAlwaysAddUp` are about the times. A task's times lie in one list, from which a
handler takes the next when one is over; `Account` says for one task where in its job it is: after its m-th block
the list is the rest of the job, what it has run and what is left of the burst are the sum of the first m + 1 runs,
and what it was blocked the sum of the first m blocks (`HasDone`); that its last node is the one of its
state (`LastNode`); that arrival, runs, blocks and the ticks it was shown ready are the time (`ClockIs`); and that its
counters count the nodes of its waveform (`CountsAre`). Around it `Places` says which tasks have had their node of
this tick, for the handlers draw in the middle of it; `OneRuns` that one task a tick runs. A sum is a function with a
value for each number of terms; what it is for the next number follows for every list from the least one for
which it would fail (`SumSteps`, by `Least`), which takes the place of an induction. `AccountsAlwaysAddUp` is for
lists like those of the run: a block, of a tick or more, between any two runs. The generator draws no others; a
block of 0 ticks would be taken for the 0 behind the last run, and the task finish early (below).

**`Paging_proofs`**: `PagingInvariance` (`PagingInv`) and `FramesAlwaysFollowPolicy`, for any number of pages and
accesses and any two frames or more. With a single frame `PRAlgo_OPT` would return the page it starts with, which is no
index. Frames fill from the first on, and what a frame holds was accessed at its two times (`Framed`). That
LRU holds the `NUM_FRAMES` pages used last follows from `Kept`: a page has the time of its last access, and what was
accessed since the oldest of them is in the frames; the rest is counting (`KeptIsRecent`). For FIFO the frames in the
order of their times of arrival are the queue (`Queued`), in which the replaced one is the first. On the LR
workload the three handlers choose the same frame (`OneAlgorithm`, `HandlersAgree`). On the sequential one the invariant
says which page is in which frame: all of them, if they fit (`Few`); else LRU and FIFO hold the last `NUM_FRAMES` and fault
every time (`Rolling`), while OPT and CUST only ever change the last frame (`LastChanges`), which needs that `maxid` ends as
an index although it starts as a page (`LastPageIs`). What a recursive function is for the next access follows again from
the least place at which it would differ (`QueueAfter`), and that it exists from `Recursion`.

Model-checked only: liveness under fairness, which is out of the prover's reach; the json library and the task generator (`MemoryAgrees`,
`TextAndValueAgree`, `GeneratedIsRead`), which are checked against recursive definitions; and the properties of the remaining programs:
`RowsTellTheirFiles`, `ExchangesArrive`, `ToldInOrder`, `DoesAsAsked`.

## What does not agree

Met while modelling, beyond the findings; the properties are stated with it in view:

- `lab3/lab03-hinchee-g/t3.c:95` says "Stop producing if there are no more consumers"; the `continue`
  behind it ends the loop with the mutex locked, which is harmless only because nobody is left.
- `lab4/src/sem_example.c:27` prints `buffer[tail & 20]`, not the element placed in `buffer[tail % 20]`.
- `lab9/src-4/src/fat12ls.c:205` compares a count of bytes with the number of entries, so that one entry in 32 is
  listed (run `floppy`). Besides, `toDOSName` keeps one blank of a padded name, or drops the name if the
  byte before its first is a blank, although line 55 promises "the filename in 8.3 format"; the "Number of hidden sectors" (line 36),
  four bytes on the disk, is kept modulo 65536; and line 100 takes it that one sector is reserved, whatever
  `iReservedSectors` says, so that on other disks something else is listed. `RowsTellTheirFiles` is about the entries that
  were read and passed, and about the fields of one or two bytes.
- `proj2/src/print-server/printer_driver.c:92` writes ##END## right behind the file. After a file without a final newline, which
  `proj2/src/libprintserver/print_server_client.h:60` allows ("Must start with a "%" sign and end with "%EOF""), it is not
  at the start of a line, `virt-printer.c:259` does not see it, and the next job, from its ##NAME line on, goes into the same
  ps2pdf; a daemon that ends then leaves a printer that floods. A line of a file that begins with ##END## ends the job
  early, and what follows is taken for another. Step 7 of `virt-printer.c:163` is "copy data from the fifo to the pipe until
  ##END## is reached". The properties of the run `structures` say what holds of any files, and what of plain ones
  (`FilesArePlain`).
- `lab6/src-2/src/Algorithms/srtn/srtn.c:64` says "sort"; the walk ends where it begins (run `srtn_sorts`), so that the task
  "with the shortest remaining time next" of the name is not looked for, although `lab6/src-2/src/README:1` says "All
  algorithms are implemented".
- `lab6/src-2/src/SimTaskGen/sim_task.h:15` says of the times that the "array must contain 1 or more values each > 0"; the
  generator may draw their number as -1 (`SimTaskGen/main.c:120`) and writes a list that begins with the 0 behind the last.
  Line 16 says that the deadline "must be greater than" arrival and times; the slack of 10, 20 or 30 percent is cut off to
  whole ticks (line 158), so that the deadline of a short task is equal.
  `GeneratedIsRead` is about what the simulator reads of the list, not about these demands.
- `lab5/hello-file-complete/hello_file.c:35` says "The max length of the message from the device"; a write of that many
  bytes or more (line 136) leaves no NUL in `msg`, and the read at line 117 goes on into what lies behind it.
  `OneReaderAtATime` says that it does so only behind all of the message.
- `proj2/src/libprintserver/print_server_client.h:71` promises "a NULL terminated array", line 74 "An array of number
  printer_driver_t* objects followed by NULL": `print_server_client.c:206` allocates exactly `count` pointers, without a NULL
  behind them, and a driver whose fields the loop did not reach stays empty. `count` itself is what the reply says, and that is
  not what is installed whenever the arrays of `print_server_single.c:256` held something: a number in front of
  the number, a field in front of the first name. Every later GETDRIVERS of a daemon finds what the one before left, so that
  its reply has all printers once more, under the old number in front, until `strcat` leaves the array.
  `ToldInOrder` says what a reply has in any case, and that the client takes it apart as it is.
- `lab7/src/memory_mgmt.c:320` starts with a page where an index of a frame is meant; on the workload it is used on
  the result still is such an index with two frames or more (`FramesFollowPolicy`, proved in `Paging_proofs`).
- In the threaded server a PRINTER line after the PRINT of a job gives it a second group. The next PRINT links the one
  `next_job` it has into a second list, and what follows it in the first is then in both. With `Regroup = TRUE` TLC finds
  `ListIsPending` violated; `ThreadSafe` and `ExitAfterLastJob` still hold.
- A name that fills the array of `printer_list_drivers` ends the list there; the number of drivers stays.
- A block of 0 ticks ends a simulated task before its later runs (`SimTask.cpp:248` takes it for the end of the list).
  The generator draws again until a time is not 0 (`SimTaskGen/main.c:129`), but a list of tasks written by hand may
  have one: `AccountsAddUp` is checked and proved for tasks without.
- The simulator reports a module that it cannot load and goes on; the first tick then calls a null
  algorithm (`Run` in `CommandLine`).

## Plan

1. Done: the print server in all its parts, the programs of the laboratories.
2. Done: theorems about the print server, its printers and its threads, the thread exercises, the device,
   the shell, the simulator and the page frames.
3. Theorems about the rest that needs no induction over data: the boot sector in `Fat`, the order of the arrivals in
   `TaskGen`.
4. The descriptor table of the daemon, in `PrintServer`.

## Not modelled

- The `wavedrom` output, the log and the colours of the simulator: formatting of state that is modelled.
- In the json library: comments, which no program enables, the digits of doubles, failing allocations,
  sorting and comparing of values, which no program calls.
- Long names of options; copies of names that overflow the eight bytes cli-printer allots them:
  `CommandLine` is about names that fit.
- The daemon's descriptors, which it never closes: the liveness of `PrintServer` is that of a daemon
  that still has some.
- The volume name in the FAT12 tools' boot sector, and numbers that need 32 bits with a sign.
- The exercises of `lab1` and `lab2` and the signal examples, which make single system calls and keep no
  state; generated files and documents.
- The copies under `proj2/Project2/src`, `proj2/old-Project2`, `shell-hinchee-G` and the second copy of
  `libjson` in each of the two programs that have it.
