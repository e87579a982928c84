------------------------ MODULE ThreadedPrintServer ------------------------
(***************************************************************************)
(* The threaded print server of lab4 (main.c): a producer thread reads the *)
(* input and appends jobs to the list of their group, a consumer thread    *)
(* per printer takes jobs from the head, main() joins them all.            *)
(*                                                                         *)
(* Lists are modelled by their pointers, and a thread may be interrupted   *)
(* between two of its reads and writes of them.  A mutex is what the C     *)
(* library makes of it: unlocking, also inside of a condition wait, frees  *)
(* it whoever holds it.  That matters, because a consumer waits on the     *)
(* condition without having locked the mutex, and after a timeout goes     *)
(* back to its loop with the mutex locked.                                 *)
(*                                                                         *)
(* A list's semaphore num_jobs is only ever posted and has no part here.   *)
(***************************************************************************)
EXTENDS Integers, Sequences, FiniteSets

CONSTANTS Groups, Printers,
          GroupOf,   \* printer -> the group it is in
          NoGroup,   \* the group of a job without PRINTER, or of an unknown one
          Regroup,   \* whether a PRINTER line may follow the PRINT of a job
          MaxJobs,   \* bound: NEW lines
          MaxPrints  \* bound: PRINT lines

ASSUME ConfigAssumption ==
  /\ GroupOf \in [Printers -> Groups]
  /\ NoGroup \notin Groups
  /\ {"free", "producer"} \cap Printers = {}
  /\ Regroup \in BOOLEAN
  /\ MaxJobs \in Nat /\ MaxPrints \in Nat

Null == -1
Jobs == 0 .. MaxJobs - 1
Free == "free"
Producer == "producer"

VARIABLES head,        \* group -> first job of its list
          next_job,    \* job -> the job linked behind it
          lock,        \* group -> who locked the mutex of the list, or Free
          supply, supply_mutex, exit_flag,
          ppc,         \* where the producer is
          job, group,  \* its job, and the group_name of that
          tail,        \* its j: where it is in the list
          job_number,
          prints,      \* PRINT lines read
          cpc,         \* printer -> where its thread is
          cjob, cprev, \* printer -> its job and prev
          mpc,         \* where main() is
          sent,        \* history: group -> jobs linked, in order
          printed      \* history: group -> jobs printed, in order

lists == <<head, next_job, sent>>
producervars == <<ppc, job, group, tail, job_number, prints>>
consumervars == <<cpc, cjob, cprev, printed>>
vars == <<lists, lock, supply, supply_mutex, exit_flag, producervars,
          consumervars, mpc>>

\* job is not initialised in main.c; it is taken to be null, as the check of it
\* in each branch of the producer expects.  Waits do not wake without a signal.
Init ==
  /\ head = [g \in Groups |-> Null]
  /\ next_job = [j \in Jobs |-> Null]
  /\ lock = [g \in Groups |-> Free]
  /\ supply = 0 /\ supply_mutex = Free /\ exit_flag = FALSE
  /\ ppc = "read" /\ job = Null /\ group = NoGroup /\ tail = Null
  /\ job_number = 0 /\ prints = 0
  /\ cpc = [p \in Printers |-> "test"]
  /\ cjob = [p \in Printers |-> Null]
  /\ cprev = [p \in Printers |-> Null]
  /\ mpc = "join producer"
  /\ sent = [g \in Groups |-> <<>>]
  /\ printed = [g \in Groups |-> <<>>]

-----------------------------------------------------------------------------
(* producer_thread                                                         *)

\* NEW: a job without a group.
ReadNew ==
  /\ ppc = "read" /\ job_number < MaxJobs
  /\ job' = job_number
  /\ job_number' = job_number + 1
  /\ group' = NoGroup
  /\ UNCHANGED <<lists, lock, supply, supply_mutex, exit_flag, ppc, tail, prints,
                 consumervars, mpc>>

IsSent(j) == \E g \in Groups : \E i \in 1 .. Len(sent[g]) : sent[g][i] = j

\* PRINTER, for a job that has or gets a FILE: the last such line counts.  One
\* after the job was printed makes it a job of two lists, with one next_job.
ReadPrinter ==
  /\ ppc = "read" /\ job # Null
  /\ Regroup \/ ~ IsSent(job)
  /\ group' \in Groups \cup {NoGroup}
  /\ UNCHANGED <<lists, lock, supply, supply_mutex, exit_flag, ppc, job, tail,
                 job_number, prints, consumervars, mpc>>

\* PRINT leaves the job in place: a second PRINT prints it again.
ReadPrint ==
  /\ ppc = "read" /\ job # Null /\ prints < MaxPrints
  /\ prints' = prints + 1
  /\ ppc' = IF group \in Groups THEN "lock" ELSE "read"
  /\ UNCHANGED <<lists, lock, supply, supply_mutex, exit_flag, job, group, tail,
                 job_number, consumervars, mpc>>

\* Mutant of Lock: the producer does not lock the list.
LockNothing ==
  /\ ppc = "lock"
  /\ ppc' = "walk"
  /\ UNCHANGED <<lists, lock, supply, supply_mutex, exit_flag, job, group, tail,
                 job_number, prints, consumervars, mpc>>

Lock ==
  /\ ppc = "lock" /\ lock[group] = Free
  /\ lock' = [lock EXCEPT ![group] = Producer]
  /\ ppc' = "walk"
  /\ UNCHANGED <<lists, supply, supply_mutex, exit_flag, job, group, tail, job_number,
                 prints, consumervars, mpc>>

\* Mutant of Walk: it stops at the first job.
WalkOneStep ==
  /\ ppc = "walk"
  /\ tail' = head[group]
  /\ ppc' = "link"
  /\ UNCHANGED <<lists, lock, supply, supply_mutex, exit_flag, job, group, job_number,
                 prints, consumervars, mpc>>

\* j = head, and on to the end of the list if there is one.
Walk ==
  /\ ppc = "walk"
  /\ tail' = head[group]
  /\ ppc' = IF head[group] = Null THEN "link" ELSE "step"
  /\ UNCHANGED <<lists, lock, supply, supply_mutex, exit_flag, job, group, job_number,
                 prints, consumervars, mpc>>

\* while(j->next_job != NULL) j = j->next_job
WalkOn ==
  /\ ppc = "step"
  /\ IF next_job[tail] = Null
       THEN ppc' = "link" /\ UNCHANGED tail
       ELSE tail' = next_job[tail] /\ UNCHANGED ppc
  /\ UNCHANGED <<lists, lock, supply, supply_mutex, exit_flag, job, group, job_number,
                 prints, consumervars, mpc>>

\* A job that is the last one already is not linked again.
Link ==
  /\ ppc = "link"
  /\ IF tail = Null
       THEN head' = [head EXCEPT ![group] = job] /\ UNCHANGED next_job
       ELSE next_job' = [next_job EXCEPT ![tail] = job] /\ UNCHANGED head
  /\ sent' = IF tail = job THEN sent
                           ELSE [sent EXCEPT ![group] = Append(@, job)]
  /\ ppc' = "terminate"
  /\ UNCHANGED <<lock, supply, supply_mutex, exit_flag, job, group, tail, job_number,
                 prints, consumervars, mpc>>

\* job->next_job = NULL, and the unlock.
Terminate ==
  /\ ppc = "terminate"
  /\ next_job' = [next_job EXCEPT ![job] = Null]
  /\ ppc' = "unlock"
  /\ UNCHANGED <<head, sent, lock, supply, supply_mutex, exit_flag, job, group, tail,
                 job_number, prints, consumervars, mpc>>

UnlockList ==
  /\ ppc = "unlock"
  /\ lock' = [lock EXCEPT ![group] = Free]
  /\ ppc' = "count"
  /\ UNCHANGED <<lists, supply, supply_mutex, exit_flag, job, group, tail, job_number,
                 prints, consumervars, mpc>>

CountUp ==
  /\ ppc = "count" /\ supply_mutex = Free
  /\ supply' = supply + 1
  /\ ppc' = "signal"
  /\ UNCHANGED <<lists, lock, supply_mutex, exit_flag, job, group, tail, job_number,
                 prints, consumervars, mpc>>

WaitingIn(g) == {p \in Printers : GroupOf[p] = g /\ cpc[p] = "waiting"}

\* A signal wakes one waiting consumer and is lost on the others.
Signal ==
  /\ ppc = "signal"
  /\ \/ /\ WaitingIn(group) = {}
        /\ UNCHANGED cpc
     \/ \E p \in WaitingIn(group) : cpc' = [cpc EXCEPT ![p] = "signalled"]
  /\ ppc' = "read"
  /\ UNCHANGED <<lists, lock, supply, supply_mutex, exit_flag, job, group, tail,
                 job_number, prints, cjob, cprev, printed, mpc>>

ReadExit ==
  /\ ppc = "read"
  /\ exit_flag' = TRUE
  /\ ppc' = "drain"
  /\ UNCHANGED <<lists, lock, supply, supply_mutex, job, group, tail, job_number, prints,
                 consumervars, mpc>>

\* Mutant of Drained: off by one.
DrainedToOne ==
  /\ ppc = "drain" /\ supply_mutex = Free /\ supply =< 1
  /\ supply_mutex' = Producer
  /\ ppc' = "returned"
  /\ UNCHANGED <<lists, lock, supply, exit_flag, job, group, tail, job_number, prints,
                 consumervars, mpc>>

\* The loop over supply ends with the mutex of supply locked for good.
Drained ==
  /\ ppc = "drain" /\ supply_mutex = Free /\ supply < 1
  /\ supply_mutex' = Producer
  /\ ppc' = "returned"
  /\ UNCHANGED <<lists, lock, supply, exit_flag, job, group, tail, job_number, prints,
                 consumervars, mpc>>

EndOfInput ==
  /\ ppc = "read"
  /\ ppc' = "returned"
  /\ UNCHANGED <<lists, lock, supply, supply_mutex, exit_flag, job, group, tail,
                 job_number, prints, consumervars, mpc>>

-----------------------------------------------------------------------------
(* printer_thread                                                          *)

Step(p, next) == cpc' = [cpc EXCEPT ![p] = next]
ofproducer == <<supply_mutex, exit_flag, producervars, sent, next_job, mpc>>

\* Mutant of Test: the loop has no end.
TestNothing(p) ==
  /\ cpc[p] = "test"
  /\ Step(p, "wait")
  /\ UNCHANGED <<ofproducer, head, lock, supply, cjob, cprev, printed>>

\* The test of the loop.
Test(p) ==
  /\ cpc[p] = "test"
  /\ Step(p, IF exit_flag THEN "returned" ELSE "wait")
  /\ UNCHANGED <<ofproducer, head, lock, supply, cjob, cprev, printed>>

\* Mutant of EnterWait: a pause instead of a condition wait.
EnterSleep(p) ==
  /\ cpc[p] = "wait"
  /\ Step(p, "waiting")
  /\ UNCHANGED <<ofproducer, head, lock, supply, cjob, cprev, printed>>

\* pthread_cond_timedwait frees the mutex, its own or another's, and waits.
EnterWait(p) ==
  /\ cpc[p] = "wait"
  /\ lock' = [lock EXCEPT ![GroupOf[p]] = Free]
  /\ Step(p, "waiting")
  /\ UNCHANGED <<ofproducer, head, supply, cjob, cprev, printed>>

TimeOut(p) ==
  /\ cpc[p] = "waiting"
  /\ Step(p, "timed out")
  /\ UNCHANGED <<ofproducer, head, lock, supply, cjob, cprev, printed>>

\* It locks the mutex before it returns; a timeout goes on with the loop.
Reacquire(p) ==
  /\ cpc[p] \in {"signalled", "timed out"} /\ lock[GroupOf[p]] = Free
  /\ lock' = [lock EXCEPT ![GroupOf[p]] = p]
  /\ Step(p, IF cpc[p] = "signalled" THEN "look" ELSE "test")
  /\ UNCHANGED <<ofproducer, head, supply, cjob, cprev, printed>>

Look(p) ==
  /\ cpc[p] = "look"
  /\ Step(p, IF head[GroupOf[p]] = Null THEN "unlock" ELSE "take")
  /\ UNCHANGED <<ofproducer, head, lock, supply, cjob, cprev, printed>>

\* The head is read again; a head that became null meanwhile would be a null
\* dereference and has no successor state here.
Take(p) ==
  /\ cpc[p] = "take" /\ head[GroupOf[p]] # Null
  /\ cjob' = [cjob EXCEPT ![p] = head[GroupOf[p]]]
  /\ cprev' = [cprev EXCEPT ![p] = next_job[head[GroupOf[p]]]]
  /\ Step(p, "unlink")
  /\ UNCHANGED <<ofproducer, head, lock, supply, printed>>

\* Mutant of Unlink: the job stays at the head.
PrintOnly(p) ==
  /\ cpc[p] = "unlink"
  /\ printed' = [printed EXCEPT ![GroupOf[p]] = Append(@, cjob[p])]
  /\ Step(p, "count")
  /\ UNCHANGED <<ofproducer, head, lock, supply, cjob, cprev>>

\* The new head, and printer_print.
Unlink(p) ==
  /\ cpc[p] = "unlink"
  /\ head' = [head EXCEPT ![GroupOf[p]] = cprev[p]]
  /\ printed' = [printed EXCEPT ![GroupOf[p]] = Append(@, cjob[p])]
  /\ Step(p, "count")
  /\ UNCHANGED <<ofproducer, lock, supply, cjob, cprev>>

CountDown(p) ==
  /\ cpc[p] = "count" /\ supply_mutex = Free
  /\ supply' = supply - 1
  /\ Step(p, "unlock")
  /\ UNCHANGED <<ofproducer, head, lock, cjob, cprev, printed>>

Unlock(p) ==
  /\ cpc[p] = "unlock"
  /\ lock' = [lock EXCEPT ![GroupOf[p]] = Free]
  /\ Step(p, "test")
  /\ UNCHANGED <<ofproducer, head, supply, cjob, cprev, printed>>

-----------------------------------------------------------------------------
(* main                                                                    *)

JoinProducer ==
  /\ mpc = "join producer" /\ ppc = "returned"
  /\ mpc' = "join consumers"
  /\ UNCHANGED <<lists, lock, supply, supply_mutex, exit_flag, producervars, consumervars>>

TearDown ==
  /\ mpc = "join consumers" /\ \A p \in Printers : cpc[p] = "returned"
  /\ mpc' = "down"
  /\ UNCHANGED <<lists, lock, supply, supply_mutex, exit_flag, producervars, consumervars>>

ReadLine == ReadNew \/ ReadPrinter \/ ReadPrint \/ ReadExit \/ EndOfInput
Work == Walk \/ WalkOn \/ Link \/ Terminate \/ UnlockList \/ CountUp \/ Signal \/ Drained
Consumer(p) ==
  \/ Test(p) \/ EnterWait(p) \/ TimeOut(p) \/ Look(p) \/ Take(p) \/ Unlink(p)
  \/ CountDown(p) \/ Unlock(p)
Main == JoinProducer \/ TearDown

Next == \/ ReadLine \/ Lock \/ Work \/ Main
        \/ \E p \in Printers : Reacquire(p) \/ Consumer(p)

\* Threads that can run do, a wait times out, and a mutex that is freed again
\* and again is obtained at last.  Input need not come.
Fairness ==
  /\ SF_vars(Lock) /\ WF_vars(Work) /\ WF_vars(Main)
  /\ \A p \in Printers : SF_vars(Reacquire(p)) /\ WF_vars(Consumer(p))

Spec == Init /\ [][Next]_vars /\ Fairness
-----------------------------------------------------------------------------
InList(g) ==
  {p \in Printers : GroupOf[p] = g /\ cpc[p] \in {"look", "take", "unlink"}}
    \cup (IF group = g /\ ppc \in {"walk", "step", "link", "terminate"} THEN {Producer} ELSE {})

\* "A list of print jobs that must be kept thread safe": two threads are never
\* in the same list at once, although consumers free a mutex they do not own
\* and come back from a timeout while the producer is in the list; and a job
\* that a consumer saw at the head is still there when it takes it.
ThreadSafe ==
  /\ \A g \in Groups : Cardinality(InList(g)) =< 1
  /\ \A p \in Printers : cpc[p] = "take" => head[GroupOf[p]] # Null

Pending(g) == SubSeq(sent[g], Len(printed[g]) + 1, Len(sent[g]))

\* The list of g is s: head and the next_job of each job lead through it.
ListIs(g, s) ==
  /\ head[g] = IF s = <<>> THEN Null ELSE s[1]
  /\ \A i \in 1 .. Len(s) : next_job[s[i]] = IF i < Len(s) THEN s[i + 1] ELSE Null

\* Whatever is interrupted where, a list holds the jobs that were sent and
\* not yet printed, in their order; a job in it that is printed again changes
\* nothing.
ListIsPending ==
  ppc # "terminate" => \A g \in Groups : ListIs(g, Pending(g))

\* EXIT is obeyed only after the last job: the producer that saw it has not
\* left its loop while a job is still to be printed.
ExitAfterLastJob ==
  (exit_flag /\ ppc = "returned") => \A g \in Groups : Pending(g) = <<>>

\* The threads implement a spool in which every job comes out once.
Spool == INSTANCE PrintSpool
  WITH MaxReprints <- 0, waiting <- [g \in Groups |-> Pending(g)],
       out <- printed, reprints <- [g \in Groups |-> 0]
ImplementsSpool == Spool!Spec

\* A consumer that timed out keeps the mutex locked, but not for ever.
ProducerNotLockedOut == ppc = "lock" ~> ppc = "walk"

\* When every job is printed EXIT takes the threads and main() down: neither
\* the mutex of a list nor that of supply, left locked, holds one of them.
ExitOnceDrained == (exit_flag /\ supply < 1) ~> mpc = "down"

\* After EXIT the producer is "Waiting on all consumers to exit", and main()
\* joins them and tears the server down.
ExitGoesDown == exit_flag ~> mpc = "down"
=============================================================================
