----------------------------- MODULE Simulator -----------------------------
(* The scheduling simulator of lab6 (Simulator.cpp, SimTask.cpp,             *)
(* Scheduler.cpp): RunTick calls, one after the other, OnStartTick of every  *)
(* task, the algorithm's timer, OnSysTick of every task and of the finished  *)
(* ones, and OnEndTick of every task, which may move it to the finished ones *)
(* while the list is walked.  One action per handler called; the scheduler   *)
(* runs inside them and changes the states of other tasks as it swaps them.  *)
EXTENDS SchedulerAlgorithms, Integers, FiniteSets

CONSTANTS NTasks,     \* the tasks of the list, in its order: that of their addresses
          Jobs,       \* what a task may be: [priority, arrive, runs, blocks]
          Loadable    \* the algorithms, as modules that may be loaded

\* A task list gives each task its runs and the blocks between them.
ASSUME TasksAssumption ==
    /\ NTasks \in Nat
    /\ \A j \in Jobs : /\ j.priority \in Nat /\ j.arrive \in Nat
                       /\ j.runs \in Seq(Nat) /\ j.blocks \in Seq(Nat)
                       /\ Len(j.blocks) < Len(j.runs)

Tasks == 1 .. NTasks

VARIABLES alg, job,        \* read at the start: the module and the task list
          phase, at,       \* where RunTick is: the loop, and its iterator
          time, list, finished, lastTick,
          queue, meta, running,   \* the algorithm's rings and Scheduler::running_task
          task,            \* the fields of each SimTask
          ran,             \* RunTick's static running_task: who ran in the last tick,
                           \* until the walk of this tick finds its own
          drawn            \* each task's waveform, one node kind for each tick
inputs == <<alg, job>>
control == <<phase, at, time, list, finished, lastTick>>
vars == <<inputs, control, queue, meta, running, task, ran, drawn>>

\* What the first i numbers of s come to, for each i, and all of them.
Sums(s) == LET upTo[i \in 0 .. Len(s)] == IF i = 0 THEN 0 ELSE upTo[i - 1] + s[i] IN upTo
Sum(s) == Sums(s)[Len(s)]

\* SimTask's constructor: the run times at the even places of times, the block
\* times at the odd ones, and a 0 behind the last run.  The array has 20 places
\* (SimTask.h) and is filled without a look at that: jobs have at most ten runs.
Times(j) == [i \in 0 .. 2 * Len(j.runs) - 1 |->
               IF i % 2 = 0 THEN j.runs[i \div 2 + 1]
               ELSE IF i \div 2 < Len(j.blocks) THEN j.blocks[i \div 2 + 1] ELSE 0]
NewTask(j) == [state |-> "INIT", last |-> "INIT", times |-> Times(j), index |-> 0,
               next |-> j.arrive, remove |-> FALSE, runTime |-> 0, blockTime |-> 0,
               finish |-> 0, switches |-> 0, bursts |-> 0]

Init ==
    /\ alg \in Loadable /\ job \in [Tasks -> Jobs]
    /\ phase = "start" /\ at = 1 /\ time = 0
    /\ list = [t \in Tasks |-> t] /\ finished = <<>> /\ lastTick = (NTasks = 0)
    /\ queue = [c \in Classes |-> <<>>] /\ meta = [t \in Tasks |-> NoMeta]
    /\ running = NoTask /\ ran = NoTask
    /\ task = [t \in Tasks |-> NewTask(job[t])] /\ drawn = [t \in Tasks |-> <<>>]

Class(t) == ClassOf(alg, job[t].priority)

\* SwapOut of the running task, then SwapIn of the next one.
Swap(tasks, out, in) ==
    [t \in Tasks |-> IF t = in THEN [tasks[t] EXCEPT !.state = "RUNNING"]
                     ELSE IF t = out THEN [tasks[t] EXCEPT !.state = "READY"]
                     ELSE tasks[t]]

\* Scheduler::AddTask, the tasks being as the caller left them.
AddTask(t, tasks) ==
    LET m == Remember(meta[t], job[t].priority, tasks[t].runTime)
        metas == IF alg = "srtn" THEN [meta EXCEPT ![t] = m] ELSE meta
        guess == [u \in Tasks |-> metas[u].guess]
        q == Enqueue(alg, queue, running, t, Class(t), guess)
        next == HeadOf(q[Class(t)])
    IN  /\ queue' = q /\ meta' = metas /\ running' = next
        /\ task' = IF next = running THEN tasks ELSE Swap(tasks, running, next)

\* Mutant of RemoveTask: SwapOut's READY is kept.
RemoveAndSwap(t) ==
    LET q == Dequeue(alg, queue, running, Class(running))
        next == HeadOf(q[Class(running)])
    IN  queue' = q /\ running' = next /\ task' = Swap(task, running, next)

\* Scheduler::RemoveTask: the running task leaves, whichever task t asked for
\* it.  OnEndTick gives t back the state that SwapOut takes from it.
RemoveTask(t) ==
    LET q == Dequeue(alg, queue, running, Class(running))
        next == HeadOf(q[Class(running)])
    IN  /\ queue' = q /\ running' = next
        /\ task' = [Swap(task, running, next) EXCEPT ![t].state = task[t].state]

\* OnStartTick: an arrival, and the end of a block, queue the task.
OnStartTick ==
    /\ phase = "start" /\ at <= Len(list) /\ at' = at + 1
    /\ LET t == list[at]
           state == IF task[t].state = "INIT" THEN "NOT_ARRIVED" ELSE task[t].state
           now == [task EXCEPT ![t].state = state]
           ready == [now EXCEPT ![t].last = state, ![t].state = "READY",
                                ![t].bursts = @ + 1]
       IN  IF task[t].next # time
             THEN task' = now /\ UNCHANGED <<queue, meta, running>>
           ELSE IF state \in {"NOT_ARRIVED", "BLOCKED"} THEN AddTask(t, ready)
           ELSE task' = [now EXCEPT ![t].bursts = @ + 1] /\ UNCHANGED <<queue, meta, running>>
    /\ UNCHANGED <<inputs, phase, time, list, finished, lastTick, ran, drawn>>

\* Scheduler::OnSysTick: the timer of a timed algorithm turns a ring and its
\* new head runs; with no ring to turn nobody does.
SchedulerTick ==
    /\ phase = "start" /\ at > Len(list)
    /\ phase' = "run" /\ at' = 1 /\ time' = time + 1
    /\ \/ /\ alg \notin Timed /\ UNCHANGED <<queue, running, task>>
       \/ /\ alg \in Timed /\ Turns(alg, queue) = {}
          /\ running' = NoTask /\ task' = Swap(task, running, NoTask) /\ UNCHANGED queue
       \/ \E c \in Turns(alg, queue) :
            LET ring == Turn(queue[c])
            IN  /\ alg \in Timed
                /\ queue' = [queue EXCEPT ![c] = ring] /\ running' = Head(ring)
                /\ task' = Swap(task, running, Head(ring))
    /\ UNCHANGED <<inputs, list, finished, lastTick, meta, ran, drawn>>

\* The node that OnSysTick adds to the waveform: "." repeats the last one.
Draw(t) == LET w == drawn[t]
           IN  [drawn EXCEPT ![t] = Append(w, IF task[t].state = task[t].last /\ w # <<>>
                                              THEN Last(w) ELSE task[t].state)]
\* Mutant of EndOfBurst: a block lasts a tick too long.
EndOfBurstLate(k) ==
    LET i == k.index + 1
        over == [k EXCEPT !.remove = TRUE, !.index = i, !.last = k.state]
    IN  IF k.times[i] > 0
          THEN [over EXCEPT !.state = "BLOCKED", !.next = time + k.times[i] + 1,
                            !.times[i] = 0, !.index = i + 1]
          ELSE [over EXCEPT !.state = "FINISHED", !.finish = time]

\* The end of a burst: block for the next time in times, or finish when it is 0.
EndOfBurst(k) ==
    LET i == k.index + 1
        over == [k EXCEPT !.remove = TRUE, !.index = i, !.last = k.state]
    IN  IF k.times[i] > 0
          THEN [over EXCEPT !.state = "BLOCKED", !.next = time + k.times[i],
                            !.times[i] = 0, !.index = i + 1]
          ELSE [over EXCEPT !.state = "FINISHED", !.finish = time]
\* What OnSysTick makes of a task's fields.
Ticked(k) ==
    LET fresh == k.state # k.last
        seen == [k EXCEPT !.last = k.state, !.remove = FALSE, !.switches =
                   IF fresh /\ k.state \in {"RUNNING", "BLOCKED"} THEN @ + 1 ELSE @]
        used == [seen EXCEPT !.runTime = @ + 1, !.times[k.index] = @ - 1]
    IN  CASE k.state = "RUNNING" /\ k.times[k.index] = 1 -> EndOfBurst(used)
          [] k.state = "RUNNING" /\ k.times[k.index] # 1 -> used
          [] k.state = "BLOCKED" -> [seen EXCEPT !.blockTime = @ + 1]
          [] OTHER -> seen

\* The loops over the task list and then over the finished tasks.
OnSysTick ==
    /\ phase = "run" /\ at <= Len(list \o finished) /\ at' = at + 1
    /\ LET t == (list \o finished)[at]
       IN  /\ drawn' = Draw(t) /\ task' = [task EXCEPT ![t] = Ticked(@)]
           /\ ran' = IF at <= Len(list) /\ task[t].state = "RUNNING" THEN t
                     ELSE IF at = 1 THEN NoTask ELSE ran
    /\ UNCHANGED <<inputs, phase, time, list, finished, lastTick, queue, meta, running>>
AllTicked ==
    /\ phase = "run" /\ at > Len(list \o finished)
    /\ phase' = "end" /\ at' = 1
    /\ UNCHANGED <<inputs, time, list, finished, lastTick, queue, meta, running, task, ran, drawn>>

\* OnEndTick: a task whose burst is over leaves the processor to the next one
\* and keeps its own state; a finished one is erased and the iterator stays.
OnEndTick ==
    /\ phase = "end" /\ at <= Len(list)
    /\ LET t == list[at]
           done == task[t].state = "FINISHED"
       IN  /\ IF task[t].remove THEN RemoveTask(t) ELSE UNCHANGED <<queue, running, task>>
           /\ list' = IF done THEN RemoveAt(list, at) ELSE list
           /\ finished' = IF done THEN Append(finished, t) ELSE finished
           /\ at' = IF done THEN at ELSE at + 1
    /\ UNCHANGED <<inputs, phase, time, lastTick, meta, ran, drawn>>
\* main's loop: until no task remains, and once more.
TickIsOver ==
    /\ phase = "end" /\ at > Len(list)
    /\ phase' = IF lastTick THEN "exit" ELSE "start"
    /\ at' = 1 /\ lastTick' = (list = <<>>)
    /\ UNCHANGED <<inputs, time, list, finished, queue, meta, running, task, ran, drawn>>

Next == \/ OnStartTick \/ SchedulerTick \/ OnSysTick \/ AllTicked
        \/ OnEndTick \/ TickIsOver
-----------------------------------------------------------------------------
\* The tasks whose burst ended in this tick and that have not left yet; the flag
\* itself stays set until the task's next OnSysTick.
Leaving == {t \in Tasks : /\ task[t].remove
                          /\ \/ phase = "run" /\ \E i \in 1 .. at - 1 : (list \o finished)[i] = t
                             \/ phase = "end" /\ \E i \in at .. Len(list) : list[i] = t}
\* RemoveTask takes out the running task without asking which task wants to go,
\* and AddTask's srtn walks from it: the two hold it to be the only one that
\* runs, the one that is leaving and the head of its ring, and the rings to
\* hold each task that is ready or runs exactly once and no blocked one.
SchedulerAgrees ==
    /\ \A t \in Tasks : task[t].state = "RUNNING" => t = running
    /\ running # NoTask => /\ task[running].state = "RUNNING" \/ running \in Leaving
                           /\ running = HeadOf(queue[Class(running)])
    /\ Leaving \subseteq {running}
    /\ \A c \in Classes : IsInjective(queue[c])
    /\ \A c \in Classes : Range(queue[c]) =
         {t \in Tasks : /\ task[t].state \in {"READY", "RUNNING"} \/ t \in Leaving
                        /\ Class(t) = c}

Queued(t) == t \in Range(queue[Class(t)])
\* When the tasks are given their tick: the processor is idle only if no task is
\* ready; prr runs none while a higher one is ready, whatever arrivals have
\* swapped in at the start of the tick; rr and prr run the successor of the task
\* that ran before it in the same ring, if that is still there; fcfs and srtn
\* never take the processor from a task, and fcfs keeps its ring in the order of
\* arrival.  That srtn should choose by its guesses is SrtnSorts, which fails.
RightTaskRuns ==
    phase = "run" /\ at = 1 =>
      LET ready == {t \in Tasks : task[t].state = "READY"}
          preempts == alg \in Timed
      IN  /\ ready # {} => running # NoTask
          /\ alg = "prr" => \A t \in ready : Class(t) <= Class(running)
          /\ (alg \in {"rr", "prr"} /\ ran # NoTask /\ running # NoTask) =>
               (Queued(ran) /\ Class(ran) = Class(running) =>
                  Turn(From(queue[Class(ran)], ran)) = queue[Class(ran)])
          /\ (~preempts /\ ran # NoTask) => (Queued(ran) => running = ran)
          /\ alg = "fcfs" => \A i, j \in DOMAIN queue[0] : i < j =>
               LET a == queue[0][i]
                   b == queue[0][j]
               IN  \/ task[a].next < task[b].next
                   \/ task[a].next = task[b].next /\ a < b

\* What srtn.c:64 says of the code behind it, "sort": when the tasks are given
\* their tick, those that wait behind the one that runs are in the order of
\* their guesses, which is what makes the scheduler named SRTN take the one
\* with the shortest remaining time next.  The loop behind the comment starts
\* at the running task, which is the head, and stops there at once.
SrtnSorts ==
    phase = "run" /\ at = 1 /\ alg = "srtn" =>
      \A i, j \in 2 .. Len(queue[0]) :
        i < j => meta[queue[0][i]].guess <= meta[queue[0][j]].guess

\* How often a state is in a waveform.
Shown(w, state) == Cardinality({i \in DOMAIN w : w[i] = state})
Drawn(t, state) == Shown(drawn[t], state)
\* Between two ticks, the waveforms, in which a node is drawn only when a
\* task's state is not the one kept in last_state, tell the same as the
\* counters of the log: each tick is in each waveform, at most one task runs
\* in it, and a task's time from arrival to finish is what it ran, was blocked
\* and was shown ready, the bursts and blocks of its job and nothing else.
AccountsAddUp ==
    phase = "start" /\ at = 1 =>
      /\ \A t \in Tasks : /\ Len(drawn[t]) = time
                          /\ task[t].runTime = Drawn(t, "RUNNING")
                          /\ task[t].blockTime = Drawn(t, "BLOCKED")
      /\ \A i \in 1 .. time, t, u \in Tasks :
           drawn[t][i] = "RUNNING" /\ drawn[u][i] = "RUNNING" => t = u
      /\ \A t \in Range(finished) :
           /\ task[t].runTime = Sum(job[t].runs) /\ task[t].blockTime = Sum(job[t].blocks)
           /\ task[t].bursts = Len(job[t].runs)
           /\ task[t].finish = job[t].arrive + task[t].runTime + task[t].blockTime
                                 + Drawn(t, "READY")

\* main's loop has ended and every task has finished.
AllFinished == phase = "exit" /\ Len(finished) = NTasks
=============================================================================
