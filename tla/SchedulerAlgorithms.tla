------------------------ MODULE SchedulerAlgorithms ------------------------
(* The scheduling algorithms of lab6 (Algorithms/<name>/<name>.c), each a     *)
(* struct scheduler_operations that the simulator loads as a module: fcfs,   *)
(* rr, prr, rrr and srtn.  The run queues are rings of struct task (fcfs: a  *)
(* list), one for each priority in prr and rrr; here each is the sequence of *)
(* its tasks from the head on, so "head = head->next" turns the sequence and *)
(* "insert before head" appends to it.                                       *)
EXTENDS Naturals, Sequences, SequencesExt

NoTask == 0                     \* the null pointer
Classes == 0 .. 3               \* head0 .. head3; the others use only head0
ByPriority == {"prr", "rrr"}
Timed == {"rr", "prr", "rrr"}   \* those with a periodic_timer, of period 1

HeadOf(ring) == IF ring = <<>> THEN NoTask ELSE Head(ring)
\* The same ring seen from its member t.
From(ring, t) ==
    LET i == CHOOSE j \in DOMAIN ring : ring[j] = t
    IN  SubSeq(ring, i, Len(ring)) \o SubSeq(ring, 1, i - 1)
\* A ring of one task, or t before the head; r taken out, its successor the head.
Link(ring, t) == Append(ring, t)
Unlink(ring, r) == Tail(From(ring, r))
Turn(ring) == IF ring = <<>> THEN ring ELSE Append(Tail(ring), Head(ring))
\* fcfs's list, whose dequeue takes the head, whichever task it is given.
LinkTail(list, t) == Append(list, t)
DropHead(list) == Tail(list)

\* The head pointer that prr and rrr choose for a task of this priority.
ClassOf(alg, priority) == IF alg \notin ByPriority THEN 0
                          ELSE IF priority < 3 THEN priority ELSE 3

\* srtn's loop: from the running task r on while the guesses are smaller than
\* t's, but never past the head, with which r usually starts; t goes before it.
SrtnInsert(ring, r, t, guess) ==
    LET seen == From(ring, r)
        stop == CHOOSE i \in DOMAIN seen :
                  /\ guess[seen[i]] >= guess[t] \/ seen[i] = Head(ring)
                  /\ \A j \in 1 .. i - 1 :
                       guess[seen[j]] < guess[t] /\ seen[j] # Head(ring)
    IN  Link(From(ring, seen[stop]), t)

\* task_enqueue(r, t) on the rings q; class is t's.  It returns the head of
\* that class, whatever runs in the others.
Enqueue(alg, q, r, t, class, guess) ==
    [q EXCEPT ![class] = CASE alg = "srtn" /\ @ # <<>> -> SrtnInsert(@, r, t, guess)
                           [] alg = "fcfs" -> LinkTail(@, t)
                           [] OTHER -> Link(@, t)]
\* task_dequeue(r).
Dequeue(alg, q, r, class) ==
    [q EXCEPT ![class] = IF alg = "fcfs" THEN DropHead(@) ELSE Unlink(@, r)]

\* periodic_timer: the classes whose turn it may be.  prr takes the highest
\* that is not empty; rrr draws one, and takes the highest if it drew an empty
\* one, so any class that is not empty may come up.
Busy(q) == {c \in Classes : q[c] # <<>>}
\* Mutant of PrrTurns: the lowest class first.
LowestTurns(q) == {c \in Busy(q) : \A d \in Busy(q) : c <= d}

PrrTurns(q) == {c \in Busy(q) : \A d \in Busy(q) : d <= c}
RrrTurns(q) == {IF s \in Busy(q) THEN s ELSE CHOOSE c \in PrrTurns(q) : TRUE : s \in Classes}
Turns(alg, q) == IF Busy(q) = {} THEN {}
                 ELSE IF alg = "rrr" THEN RrrTurns(q) ELSE PrrTurns(q)

\* srtn's metadata of a task that is queued: calloc'ed with a guess from the
\* priority the first time, then 0.2 of the old guess and 0.8 of what it takes
\* for the last burst: all the time run so far, less the value of the last time.
NoMeta == [known |-> FALSE, guess |-> 0, last |-> 0]
Remember(m, priority, runTime) ==
    IF ~m.known THEN [known |-> TRUE, guess |-> 2 * (4 - priority), last |-> 0]
    ELSE LET last == runTime - m.last
         IN  [m EXCEPT !.last = last, !.guess = (2 * @ + 8 * last) \div 10]
=============================================================================
