----------------------------- MODULE JobQueues -----------------------------
(***************************************************************************)
(* The job queues of the print server (print_server_single.c): one linked  *)
(* list of jobs per printer group, the semaphore num_jobs that counts its  *)
(* jobs, and the pointer prev with which main() cuts the tail of a list.   *)
(*                                                                         *)
(* A job is known by its job_number, NoJob is a null pointer, and a list   *)
(* is the sequence of its jobs from the head.  main() pushes at the head   *)
(* and takes from the tail, and declares prev once, outside of its loop:   *)
(* a walk over a list of one job leaves prev at whatever an earlier walk,  *)
(* maybe of the list of another group, made of it.                         *)
(***************************************************************************)
EXTENDS Integers, Sequences

CONSTANTS Groups,   \* the printer groups of config.rc
          MaxJobs   \* bound: jobs created in a behaviour

ASSUME MaxJobsAssumption == MaxJobs \in Nat

NoJob == -1

VARIABLES job_number, \* the number of the next job
          queue,      \* group -> its list, head first
          num_jobs,   \* group -> value of the semaphore
          prev,       \* the pointer that consumption cuts behind
          sent,       \* history: group -> jobs queued, in order
          printed     \* history: group -> jobs given to its printers, in order

vars == <<job_number, queue, num_jobs, prev, sent, printed>>

Jobs == 0 .. MaxJobs - 1

TypeOK ==
  /\ job_number \in 0 .. MaxJobs
  /\ queue \in [Groups -> Seq(Jobs)]
  /\ num_jobs \in [Groups -> Nat]
  /\ prev \in Jobs \cup {NoJob}
  /\ sent \in [Groups -> Seq(Jobs)]
  /\ printed \in [Groups -> Seq(Jobs)]

Init ==
  /\ job_number = 0
  /\ queue = [g \in Groups |-> <<>>]
  /\ num_jobs = [g \in Groups |-> 0]
  /\ prev = NoJob
  /\ sent = [g \in Groups |-> <<>>]
  /\ printed = [g \in Groups |-> <<>>]

\* NEW: a job is allocated and takes the next number.
NewJob ==
  /\ job_number < MaxJobs
  /\ job_number' = job_number + 1

\* Mutant of Enqueue: the job becomes the tail, which is taken first.
EnqueueAtTail(g) ==
  /\ NewJob
  /\ queue' = [queue EXCEPT ![g] = Append(@, job_number)]
  /\ num_jobs' = [num_jobs EXCEPT ![g] = @ + 1]
  /\ sent' = [sent EXCEPT ![g] = Append(@, job_number)]
  /\ UNCHANGED <<prev, printed>>

\* NEW .. PRINT for the group g: the new job becomes the head of the list.
Enqueue(g) ==
  /\ NewJob
  /\ queue' = [queue EXCEPT ![g] = <<job_number>> \o @]
  /\ num_jobs' = [num_jobs EXCEPT ![g] = @ + 1]
  /\ sent' = [sent EXCEPT ![g] = Append(@, job_number)]
  /\ UNCHANGED <<prev, printed>>

\* NEW .. PRINT without a file, or for no group or an unknown one: the job
\* is dropped, only its number is used up.
Discard ==
  /\ NewJob
  /\ UNCHANGED <<queue, num_jobs, prev, sent, printed>>

\* Mutant of CutBehind: the list is never cut.
CutNothing(s, j) == s

\* What j->next_job = NULL makes of the list s.
CutBehind(s, j) ==
  IF \E i \in 1 .. Len(s) : s[i] = j
    THEN SubSeq(s, 1, CHOOSE i \in 1 .. Len(s) : s[i] = j)
    ELSE s

\* Mutant of PrevAfterWalk: prev is one job too far behind.
PrevTooFar(s) == IF Len(s) > 2 THEN s[Len(s) - 2] ELSE prev

\* Where prev is after the walk to the end of the list s.
PrevAfterWalk(s) == IF Len(s) > 1 THEN s[Len(s) - 1] ELSE prev

\* Mutant of Consume: the semaphore is not looked at.
ConsumeAnyway(g) ==
  /\ Len(queue[g]) > 0
  /\ num_jobs' = [num_jobs EXCEPT ![g] = @ - 1]
  /\ prev' = PrevAfterWalk(queue[g])
  /\ queue' = IF prev' # NoJob
                THEN [h \in Groups |-> CutBehind(queue[h], prev')]
                ELSE [queue EXCEPT ![g] = <<>>]
  /\ printed' = [printed EXCEPT ![g] = Append(@, queue[g][Len(queue[g])])]
  /\ UNCHANGED <<job_number, sent>>

\* A printer of the group g finds num_jobs above zero and takes a job.
\* The walk starts with job = head and reads job->next_job, so an empty
\* list would be a null dereference: it has no successor state here, and
\* NoNullWalk says that it never happens.
Consume(g) ==
  /\ num_jobs[g] > 0
  /\ Len(queue[g]) > 0
  /\ num_jobs' = [num_jobs EXCEPT ![g] = @ - 1]
  /\ prev' = PrevAfterWalk(queue[g])
  /\ queue' = IF prev' # NoJob
                THEN [h \in Groups |-> CutBehind(queue[h], prev')]
                ELSE [queue EXCEPT ![g] = <<>>]
  /\ printed' = [printed EXCEPT ![g] = Append(@, queue[g][Len(queue[g])])]
  /\ UNCHANGED <<job_number, sent>>

Next == 
  \/ Discard
  \/ \E g \in Groups : Enqueue(g) \/ Consume(g)

Spec == Init /\ [][Next]_vars

-----------------------------------------------------------------------------
\* Jobs that are linked in the list of g without being counted.
Lag(g) == Len(queue[g]) - num_jobs[g]

\* A counted job is there to be taken: the walk of main() over the list of a
\* group whose semaphore is above zero never starts at a null head.
NoNullWalk == \A g \in Groups : num_jobs[g] > 0 => Len(queue[g]) > 0

\* However main() interleaves the groups, the stale prev leaves at most one
\* uncounted job in the list of a group.
AtMostOnePhantom == \A g \in Groups : Lag(g) \in {0, 1}

\* The jobs of a group reach its printers in the order they were queued,
\* none is skipped, and at most one of them is printed twice, back to back.
PrintedInOrder ==
  \A g \in Groups :
    \E k \in 0 .. Len(printed[g]) :
      \A i \in 1 .. Len(printed[g]) :
        LET n == IF i <= k THEN i ELSE i - 1
        IN  n \in 1 .. Len(sent[g]) /\ printed[g][i] = sent[g][n]

\* Cutting behind prev only ever loses the job that is being printed: a
\* job queued and not yet printed is still linked in the list of its group.
NoJobLost ==
  \A g \in Groups : \A i \in 1 .. Len(sent[g]) :
    \/ \E k \in 1 .. Len(printed[g]) : printed[g][k] = sent[g][i]
    \/ \E k \in 1 .. Len(queue[g]) : queue[g][k] = sent[g][i]

\* Once the count and the list of a group disagree they never agree again:
\* no later sequence of jobs repairs the list.
PhantomIsForever == [][\A g \in Groups : Lag(g) = 1 => Lag(g)' = 1]_vars

\* The list of a group holds the youngest of its jobs, the youngest first.
ListOfSent(g) ==
  /\ Len(queue[g]) =< Len(sent[g])
  /\ \A i \in 1 .. Len(queue[g]) : queue[g][i] = sent[g][Len(sent[g]) + 1 - i]

\* prev, when it is set, is the last job of the list of some group.
PrevIsATail ==
  prev # NoJob => \E g \in Groups : /\ Len(queue[g]) > 0
                                    /\ prev = queue[g][Len(queue[g])]

\* No job is linked twice.
Unshared ==
  \A g, h \in Groups :
    \A i \in 1 .. Len(queue[g]), k \in 1 .. Len(queue[h]) :
      queue[g][i] = queue[h][k] => g = h /\ i = k

\* The i-th printed job is the i-th sent one, up to a repetition after k.
PrintedUpTo(g, k) ==
  \A i \in 1 .. Len(printed[g]) :
    printed[g][i] = sent[g][IF i =< k THEN i ELSE i - 1]

\* The inductive invariant behind the properties above: the parts that say
\* how prev, the lists and the two histories fit together between steps.
IInv ==
  /\ TypeOK
  /\ AtMostOnePhantom
  /\ PrevIsATail
  /\ prev = NoJob => \A g \in Groups : Lag(g) = 0
  /\ Unshared
  /\ \A g \in Groups : \A i \in 1 .. Len(queue[g]) : queue[g][i] < job_number
  /\ \A g \in Groups :
       /\ ListOfSent(g)
       /\ Len(printed[g]) = Len(sent[g]) - num_jobs[g]
       /\ Lag(g) = 0 => PrintedUpTo(g, Len(printed[g]))
       /\ Lag(g) = 1 => \E k \in 1 .. Len(printed[g]) : PrintedUpTo(g, k)

\* The queues implement a spool that prints in order and, per group, repeats
\* one job.  Repeated(g) is the place of the repetition, 0 when there is none.
Repeated(g) ==
  IF \E i \in 2 .. Len(printed[g]) : printed[g][i] = printed[g][i - 1]
    THEN CHOOSE i \in 2 .. Len(printed[g]) : printed[g][i] = printed[g][i - 1]
    ELSE 0
ReprintsOf(g) == IF Repeated(g) = 0 THEN 0 ELSE 1
Spool == INSTANCE PrintSpool
  WITH Jobs <- Jobs, MaxReprints <- 1, out <- printed,
       reprints <- [g \in Groups |-> ReprintsOf(g)],
       waiting <- [g \in Groups |->
                     SubSeq(sent[g], Len(printed[g]) - ReprintsOf(g) + 1,
                            Len(sent[g]))]
ImplementsSpool == Spool!Spec
=============================================================================
