------------------------------ MODULE TaskGen ------------------------------
(* The generator of task lists for lab6's simulator (SimTaskGen/main.c and    *)
(* export_json.c): it draws tasks and pushes each, as run times and block     *)
(* times, into the list that the simulator reads.  rand() is any number;      *)
(* names, and the text of the file, are left out (JsonBuilder has the latter).*)
EXTENDS Integers, Sequences, SequencesExt, FiniteSets

CONSTANTS NumTasks,      \* num_tasks
          TimesModulus,  \* 19 in "(rand() + 1) % 19"
          Priorities,    \* 0 .. 3
          FirstArrival, NextArrival,   \* 5 and 15
          Maximum        \* the option -M
VARIABLES interactive, slack,   \* the options: the workload; 110, 120 or 130 percent
          task, times_num,      \* the task that is drawn
          last_arrive_time,
          generated, list       \* the tasks; as they were exported
genVars == <<interactive, slack, task, times_num, last_arrive_time, generated, list>>

Null == <<>>
GenInit == /\ interactive \in BOOLEAN /\ slack \in {110, 120, 130}
           /\ task = Null /\ times_num = 0 /\ last_arrive_time = 0
           /\ generated = <<>> /\ list = <<>>

\* An even number of times becomes the odd one below: none is -1.
TimesNum == {IF n % 2 = 0 THEN n - 1 ELSE n : n \in 0 .. TimesModulus - 1}
NewTask ==
    /\ task = Null /\ Len(list) < NumTasks
    /\ \E priority \in Priorities, n \in TimesNum,
          gap \in 0 .. (IF list = <<>> THEN FirstArrival ELSE NextArrival) - 1 :
         /\ task' = [priority |-> priority, arrive |-> last_arrive_time + gap, times |-> <<>>]
         /\ last_arrive_time' = last_arrive_time + gap /\ times_num' = n
    /\ UNCHANGED <<interactive, slack, generated, list>>

\* times[j], drawn again while it is 0.
Modulus(blocks) ==
    CASE interactive /\ blocks -> (4 - task.priority) * Maximum
      [] interactive /\ ~blocks -> 2 * Maximum
      [] ~interactive /\ blocks -> (6 - task.priority) * Maximum
      [] ~interactive /\ ~blocks -> Maximum
SetTime ==
    /\ task # Null /\ Len(task.times) < times_num
    /\ \E t \in 1 .. Modulus(Len(task.times) % 2 = 1) - 1 :
         task' = [task EXCEPT !.times = Append(@, t)]
    /\ UNCHANGED <<interactive, slack, times_num, last_arrive_time, generated, list>>

\* add_sim_task_to_json: pairs of a block and a run are pushed until one is 0,
\* as every time behind the last is.
times(j) == IF j < Len(task.times) THEN task.times[j + 1] ELSE 0
Pairs == {n \in 0 .. TimesModulus \div 2 : \A m \in 1 .. n : times(2 * m - 1) # 0 /\ times(2 * m) # 0}
\* Mutant of Exported: the last block and run are left out.
ExportedShort ==
    [priority |-> task.priority, arrive |-> task.arrive, deadline |-> task.arrive,
     runs |-> <<times(0)>>, blocks |-> <<>>]

Exported ==
    LET pairs == CHOOSE n \in Pairs : \A m \in Pairs : m <= n
        run_time == FoldSeq(LAMBDA a, b : a + b, 0, task.times)
    IN  [priority |-> task.priority, arrive |-> task.arrive,
         deadline |-> (run_time * slack) \div 100 + task.arrive,
         runs |-> <<times(0)>> \o [m \in 1 .. pairs |-> times(2 * m)],
         blocks |-> [m \in 1 .. pairs |-> times(2 * m - 1)]]
AddTask ==
    /\ task # Null /\ Len(task.times) >= times_num
    /\ list' = Append(list, Exported) /\ generated' = Append(generated, task) /\ task' = Null
    /\ UNCHANGED <<interactive, slack, times_num, last_arrive_time>>

GenNext == NewTask \/ SetTime \/ AddTask
----------------------------------------------------------------------------
\* Nothing that was drawn is lost or changed on the way through the file, whose
\* lists of runs and blocks end before the first pair with a 0, to the times of
\* the simulator, Times(e): these are the drawn times, none of them 0, in their
\* order, and then zeros.  Tasks arrive in the order of the list.  sim_task.h
\* asks for more, an odd number of times (line 15) and a deadline behind their
\* sum (line 16), which the generator does not keep: README, "What does not agree".
Readable(Times(_)) ==
    \A k \in DOMAIN list :
      LET e == list[k]
          t == generated[k].times
      IN  /\ DOMAIN Times(e) = 0 .. Cardinality(DOMAIN Times(e)) - 1
          /\ Len(t) <= Cardinality(DOMAIN Times(e))
          /\ \A j \in DOMAIN t : t[j] > 0
          /\ \A j \in DOMAIN Times(e) : Times(e)[j] = IF j < Len(t) THEN t[j + 1] ELSE 0
          /\ \A m \in 1 .. k - 1 : list[m].arrive <= e.arrive
=============================================================================
