-------------------------- MODULE Simulator_proofs --------------------------
(* Proofs about Simulator: whatever the tasks and the algorithm, the rings,  *)
(* the running task and the states of the tasks agree, and the task that     *)
(* runs in a tick is the one the algorithm stands for.                       *)
EXTENDS Simulator, PlaceTheorems

States == {"INIT", "NOT_ARRIVED", "READY", "RUNNING", "BLOCKED", "FINISHED"}
Fields(n) ==
  [state : States, last : States, times : [0 .. 2 * n - 1 -> Int], index : Nat,
   next : Nat, remove : BOOLEAN, runTime : Nat, blockTime : Nat, finish : Nat,
   switches : Nat, bursts : Nat]
Runs(t) == Len(job[t].runs)

SimTypes ==
  /\ job \in [Tasks -> Jobs]
  /\ phase \in {"start", "run", "end", "exit"}
  /\ at \in Nat \ {0} /\ time \in Nat
  /\ list \in Seq(Tasks) /\ finished \in Seq(Tasks)
  /\ queue \in [Classes -> Seq(Tasks)]
  /\ running \in Tasks \cup {NoTask} /\ ran \in Tasks \cup {NoTask}
  /\ task = [t \in Tasks |-> task[t]]
  /\ \A t \in Tasks : task[t] \in Fields(Runs(t))

\* A task that is not over looks for its burst at an even place of times, and
\* behind the last burst there is a 0.
Bursts ==
  \A t \in Tasks :
    /\ task[t].times[2 * Runs(t) - 1] = 0
    /\ task[t].state # "FINISHED" => \E m \in 0 .. Runs(t) - 1 : task[t].index = 2 * m

\* The list is in the order of the addresses; the finished tasks stay finished.
Walks ==
  /\ \A i, j \in 1 .. Len(list) : i < j => list[i] < list[j]
  /\ \A i \in 1 .. Len(finished) : /\ task[finished[i]].state = "FINISHED"
                                   /\ finished[i] \notin Leaving
  /\ phase = "run" => at <= Len(list \o finished) + 1

\* A task whose burst is over will not be back at the start of the next tick.
Gone(t) == \/ task[t].state = "FINISHED"
           \/ task[t].state = "BLOCKED" /\ task[t].next > time
Leavers == \A t \in Leaving : Gone(t)

\* With one ring, its head runs.
OneRing == alg \notin ByPriority => running = HeadOf(queue[0])

\* Who ran in this tick, or in the last one, leads its ring or is gone.
Ran ==
  /\ phase = "run" /\ at > 1 => ran \in {NoTask, running}
  /\ phase \in {"end", "start"} =>
       \/ ran = NoTask
       \/ ran \in Tasks /\ ran = HeadOf(queue[Class(ran)])
       \/ ran \in Tasks /\ Gone(ran)
  /\ Len(list) = 0 /\ Len(finished) = 0 => ran = NoTask

\* Without a timer the ring keeps the order of the arrivals.
Before(a, b) == \/ task[a].next < task[b].next
                \/ task[a].next = task[b].next /\ a < b
Order ==
  alg \notin Timed =>
    /\ \A i, j \in 1 .. Len(queue[0]) :
         i < j /\ queue[0][i] \notin Leaving => Before(queue[0][i], queue[0][j])
    /\ \A i \in 1 .. Len(queue[0]) :
         LET t == queue[0][i]
         IN  /\ t \notin Leaving => task[t].next <= time
             /\ phase # "start" /\ t \notin Leaving => task[t].next < time
             /\ phase = "start" /\ task[t].next = time =>
                  \A p \in at .. Len(list) : t < list[p]

SimInv ==
  /\ SimTypes /\ Bursts /\ Walks /\ Leavers
  /\ SchedulerAgrees /\ OneRing /\ Ran /\ Order /\ RightTaskRuns

-----------------------------------------------------------------------------
(* Rings.                                                                  *)

\* A ring without repetitions, by its places.
LEMMA Injective ==
  ASSUME NEW S, NEW r \in Seq(S)
  PROVE  /\ IsInjective(r) <=> \A i, j \in 1 .. Len(r) : r[i] = r[j] => i = j
         /\ Range(r) = {r[i] : i \in 1 .. Len(r)}
         /\ Len(r) \in Nat
         /\ r = <<>> <=> Len(r) = 0
         /\ \A i \in 1 .. Len(r) : r[i] \in S
<1>1. DOMAIN r = 1 .. Len(r) /\ Len(r) \in Nat
  BY LenProperties
<1>2. r = <<>> <=> Len(r) = 0
  BY EmptySeq
<1>3. \A i \in 1 .. Len(r) : r[i] \in S
  BY ElementOfSeq
<1> QED BY <1>1, <1>2, <1>3 DEF IsInjective, Range

\* A task that arrives is put behind the others.
LEMMA AppendRing ==
  ASSUME NEW r \in Seq(Tasks), IsInjective(r), NEW t \in Tasks, t \notin Range(r)
  PROVE  /\ Append(r, t) \in Seq(Tasks) /\ IsInjective(Append(r, t))
         /\ Range(Append(r, t)) = Range(r) \cup {t}
         /\ Append(r, t) # <<>>
         /\ Append(r, t)[1] = IF r = <<>> THEN t ELSE r[1]
<1> DEFINE a == Append(r, t)
<1>1. /\ a \in Seq(Tasks) /\ Len(a) = Len(r) + 1
      /\ \A i \in 1 .. Len(r) : a[i] = r[i]
      /\ a[Len(r) + 1] = t
  BY AppendProperties
<1>2. PICK n \in Nat : n = Len(r)
  BY Injective
<1> HIDE DEF a
<1>3. \A i \in 1 .. n + 1 : i \in 1 .. n \/ i = n + 1
  BY <1>2
<1>4. \A i \in 1 .. n : r[i] # t
  BY <1>2, Injective
<1>5. IsInjective(a)
  <2>1. ASSUME NEW i \in 1 .. n + 1, NEW j \in 1 .. n + 1, a[i] = a[j]
        PROVE  i = j
    <3>1. CASE i \in 1 .. n /\ j \in 1 .. n
      <4>1. \A x, y \in 1 .. n : r[x] = r[y] => x = y
        BY <1>2, Injective
      <4> QED BY <1>1, <1>2, <2>1, <3>1, <4>1
    <3>2. CASE i = n + 1 \/ j = n + 1
      BY <1>1, <1>2, <1>3, <1>4, <2>1, <3>2
    <3> QED BY <1>3, <3>1, <3>2
  <2> QED BY <1>1, <1>2, <2>1, Injective
<1>6. Range(a) = Range(r) \cup {t}
  <2>1. Range(a) = {a[i] : i \in 1 .. n + 1}
    BY <1>1, <1>2, Injective
  <2>2. Range(r) = {r[i] : i \in 1 .. n}
    BY <1>2, Injective
  <2>3. n + 1 \in 1 .. n + 1 /\ \A i \in 1 .. n : i \in 1 .. n + 1
    BY <1>2
  <2> QED BY <1>1, <1>2, <1>3, <2>1, <2>2, <2>3
<1>7. a # <<>>
  BY <1>1, <1>2, Injective
<1>8. a[1] = IF r = <<>> THEN t ELSE r[1]
  <2>1. CASE n = 0
    <3>1. a[n + 1] = t /\ n + 1 = 1
      BY <1>1, <1>2, <2>1
    <3>2. r = <<>>
      BY <1>2, <2>1, EmptySeq
    <3> QED BY <3>1, <3>2
  <2>2. CASE n # 0
    <3>1. 1 \in 1 .. n
      BY <1>2, <2>2
    <3> QED BY <1>1, <1>2, <2>2, <3>1, Injective
  <2> QED BY <2>1, <2>2
<1> QED BY <1>1, <1>5, <1>6, <1>7, <1>8 DEF a

\* The head that leaves is in no other place of its ring.
LEMMA TailRing ==
  ASSUME NEW r \in Seq(Tasks), IsInjective(r), r # <<>>
  PROVE  /\ Tail(r) \in Seq(Tasks) /\ IsInjective(Tail(r))
         /\ Head(r) = r[1] /\ r[1] \in Tasks /\ r[1] \in Range(r)
         /\ Range(Tail(r)) = Range(r) \ {r[1]}
         /\ Len(Tail(r)) = Len(r) - 1
         /\ \A i \in 1 .. Len(r) - 1 : Tail(r)[i] = r[i + 1] /\ r[i + 1] # r[1]
<1> DEFINE a == Tail(r)
<1>1. PICK n \in Nat \ {0} : n = Len(r)
  BY Injective
<1>2. /\ a \in Seq(Tasks) /\ Len(a) = n - 1 /\ Head(r) = r[1]
      /\ \A i \in 1 .. n - 1 : a[i] = r[i + 1]
  BY <1>1, HeadTailProperties
<1> HIDE DEF a
<1>3. \A i, j \in 1 .. n : r[i] = r[j] => i = j
  BY <1>1, Injective
<1>4. /\ 1 \in 1 .. n /\ \A i \in 1 .. n - 1 : i + 1 \in 1 .. n /\ i + 1 # 1
      /\ \A i, j \in 1 .. n - 1 : i + 1 = j + 1 => i = j
      /\ \A i \in 1 .. n : i = 1 \/ (i - 1 \in 1 .. n - 1 /\ i - 1 + 1 = i)
  BY <1>1
<1>5. \A i \in 1 .. n - 1 : r[i + 1] # r[1]
  BY <1>3, <1>4
<1>6. IsInjective(a)
  <2>1. \A i, j \in 1 .. n - 1 : a[i] = a[j] => i = j
    BY <1>2, <1>3, <1>4
  <2> QED BY <1>2, <2>1, Injective
<1>7. Range(r) = {r[i] : i \in 1 .. n} /\ Range(a) = {a[i] : i \in 1 .. n - 1}
  BY <1>1, <1>2, Injective
<1>8. Range(a) = Range(r) \ {r[1]}
  <2>1. ASSUME NEW x \in Range(a) PROVE x \in Range(r) \ {r[1]}
    <3>1. PICK i \in 1 .. n - 1 : x = r[i + 1]
      BY <1>2, <1>7, <2>1
    <3> QED BY <1>4, <1>5, <1>7, <3>1
  <2>2. ASSUME NEW x \in Range(r), x # r[1] PROVE x \in Range(a)
    <3>1. PICK i \in 1 .. n : x = r[i]
      BY <1>7, <2>2
    <3>2. i - 1 \in 1 .. n - 1 /\ a[i - 1] = r[i]
      BY <1>2, <1>4, <2>2, <3>1
    <3> QED BY <1>7, <3>1, <3>2
  <2> QED BY <2>1, <2>2
<1>9. r[1] \in Tasks /\ r[1] \in Range(r)
  BY <1>1, <1>4, <1>7, Injective
<1> QED BY <1>1, <1>2, <1>5, <1>6, <1>8, <1>9 DEF a

\* Seen from its head a ring is as it was.
LEMMA FromHead ==
  ASSUME NEW r \in Seq(Tasks), IsInjective(r), r # <<>>
  PROVE  From(r, r[1]) = r
<1>1. PICK n \in Nat \ {0} : n = Len(r)
  BY Injective
<1>2. \A i, j \in 1 .. n : r[i] = r[j] => i = j
  BY <1>1, Injective
<1>3. DOMAIN r = 1 .. n
  BY <1>1, LenProperties
<1> DEFINE k == CHOOSE j \in DOMAIN r : r[j] = r[1]
<1>4. k = 1
  <2>1. 1 \in DOMAIN r
    BY <1>1, <1>3
  <2>2. k \in DOMAIN r /\ r[k] = r[1]
    BY <2>1
  <2> QED BY <1>2, <1>3, <2>1, <2>2
<1>5. From(r, r[1]) = SubSeq(r, k, Len(r)) \o SubSeq(r, 1, k - 1)
  BY DEF From
<1> HIDE DEF k
<1>6. SubSeq(r, 1, 1 - 1) = <<>>
  <2>1. 1 - 1 < 1 /\ 1 - 1 \in Int /\ 1 \in Int
    OBVIOUS
  <2> QED BY <2>1, SubSeqEmpty
<1>7. SubSeq(r, 1, Len(r)) = r
  BY SubSeqFull
<1>8. r \o <<>> = r
  BY ConcatEmptySeq
<1> QED BY <1>4, <1>5, <1>6, <1>7, <1>8

\* After a turn the head of before is the last one, and seen from it the ring
\* turns into itself.
LEMMA TurnRing ==
  ASSUME NEW r \in Seq(Tasks), IsInjective(r), r # <<>>
  PROVE  /\ Turn(r) \in Seq(Tasks) /\ IsInjective(Turn(r)) /\ Turn(r) # <<>>
         /\ Range(Turn(r)) = Range(r)
         /\ Head(Turn(r)) = Turn(r)[1] /\ Turn(r)[1] \in Range(r)
         /\ Turn(From(Turn(r), r[1])) = Turn(r)
<1> DEFINE s == Tail(r)
           u == Append(s, r[1])
<1>1. Turn(r) = u
  BY TailRing DEF Turn
<1>2. /\ s \in Seq(Tasks) /\ IsInjective(s) /\ r[1] \in Tasks
      /\ Range(s) = Range(r) \ {r[1]} /\ r[1] \in Range(r)
  BY TailRing
<1> HIDE DEF s
<1>3. /\ u \in Seq(Tasks) /\ IsInjective(u) /\ u # <<>> /\ Range(u) = Range(s) \cup {r[1]}
  BY <1>2, AppendRing
<1>4. /\ Len(u) = Len(s) + 1 /\ \A i \in 1 .. Len(s) : u[i] = s[i]
      /\ u[Len(s) + 1] = r[1]
  BY <1>2, AppendProperties
<1>5. PICK n \in Nat : n = Len(s)
  BY <1>2, Injective
<1>9. u = Append(s, r[1])
  OBVIOUS
<1> HIDE DEF u
<1>6. Turn(From(u, r[1])) = u
  <2> DEFINE k == CHOOSE j \in DOMAIN u : u[j] = r[1]
  <2>1. DOMAIN u = 1 .. n + 1 /\ Len(u) = n + 1 /\ n + 1 \in 1 .. n + 1
    BY <1>3, <1>4, <1>5, LenProperties
  <2>2. k = n + 1
    <3>1. k \in DOMAIN u /\ u[k] = r[1]
      BY <1>4, <1>5, <2>1
    <3>2. \A i, j \in 1 .. n + 1 : u[i] = u[j] => i = j
      BY <1>3, <2>1, Injective
    <3>3. u[n + 1] = r[1]
      BY <1>4, <1>5
    <3> HIDE DEF k
    <3> QED BY <2>1, <3>1, <3>2, <3>3
  <2>3. From(u, r[1]) = SubSeq(u, k, Len(u)) \o SubSeq(u, 1, k - 1)
    BY DEF From
  <2> HIDE DEF k
  <2>4. SubSeq(u, n + 1, n + 1) = <<r[1]>>
    <3>1. /\ SubSeq(u, n + 1, n + 1) \in Seq(Tasks) /\ Len(SubSeq(u, n + 1, n + 1)) = 1
          /\ SubSeq(u, n + 1, n + 1)[1] = u[n + 1]
      <4>1. n + 1 \in Int /\ n + 1 <= n + 1 /\ \A i \in n + 1 .. n + 1 : u[i] \in Tasks
        BY <1>2, <1>4, <1>5
      <4>2. n + 1 - (n + 1) + 1 = 1 /\ 1 \in 1 .. 1 /\ n + 1 + 1 - 1 = n + 1
        BY <1>5
      <4> QED BY <1>5, <4>1, <4>2, SubSeqProperties
    <3>2. /\ <<r[1]>> \in Seq(Tasks) /\ Len(<<r[1]>>) = 1 /\ <<r[1]>>[1] = r[1]
      BY <1>2
    <3>3. \A i \in 1 .. 1 : i = 1
      OBVIOUS
    <3>4. u[n + 1] = r[1]
      BY <1>4, <1>5
    <3> QED BY <3>1, <3>2, <3>3, <3>4, SeqEqual
  <2>5. SubSeq(u, 1, n) = s
    <3>1. /\ SubSeq(u, 1, n) \in Seq(Tasks) /\ Len(SubSeq(u, 1, n)) = n
          /\ \A i \in 1 .. n : SubSeq(u, 1, n)[i] = u[i]
      <4>1. \A i \in 1 .. n : u[i] \in Tasks
        BY <1>2, <1>4, <1>5, Injective
      <4>2. /\ 1 \in Int /\ n \in Int /\ (1 <= n \/ n = 0) /\ n - 1 + 1 = n
            /\ \A i \in 1 .. n : 1 + i - 1 = i
        BY <1>5
      <4> QED BY <4>1, <4>2, SubSeqProperties
    <3> QED BY <1>2, <1>4, <1>5, <3>1, SeqEqual
  <2> DEFINE c == <<r[1]>> \o s
  <2>6. From(u, r[1]) = c
    <3>1. k - 1 = n /\ Len(u) = n + 1
      BY <1>5, <2>1, <2>2
    <3>2. SubSeq(u, k, Len(u)) = <<r[1]>> /\ SubSeq(u, 1, k - 1) = s
      BY <2>2, <2>4, <2>5, <3>1
    <3> QED BY <2>3, <3>2
  <2>7. /\ c \in Seq(Tasks) /\ Len(c) = n + 1 /\ c[1] = r[1]
        /\ \A i \in 1 .. n : c[i + 1] = s[i]
    <3>1. /\ <<r[1]>> \in Seq(Tasks) /\ Len(<<r[1]>>) = 1 /\ <<r[1]>>[1] = r[1]
      BY <1>2
    <3> DEFINE h == <<r[1]>>
    <3> HIDE DEF h
    <3>2. /\ h \o s \in Seq(Tasks) /\ Len(h \o s) = Len(h) + Len(s)
          /\ \A i \in 1 .. Len(h) + Len(s) :
               (h \o s)[i] = IF i <= Len(h) THEN h[i] ELSE s[i - Len(h)]
      BY <1>2, <3>1, ConcatProperties DEF h
    <3>3. Len(h) = 1 /\ h[1] = r[1]
      BY <3>1 DEF h
    <3>4. 1 + n = n + 1 /\ 1 \in 1 .. 1 + n /\ 1 <= 1
          /\ \A i \in 1 .. n : i + 1 \in 1 .. 1 + n /\ ~ (i + 1 <= 1) /\ i + 1 - 1 = i
      BY <1>5
    <3> QED BY <1>5, <3>2, <3>3, <3>4 DEF h
  <2> HIDE DEF c
  <2>8. c # <<>> /\ Head(c) = r[1] /\ Tail(c) = s
    <3>1. c # <<>>
      BY <1>5, <2>7, EmptySeq
    <3>2. /\ Head(c) = c[1] /\ Tail(c) \in Seq(Tasks) /\ Len(Tail(c)) = n
          /\ \A i \in 1 .. n : Tail(c)[i] = c[i + 1]
      <4>1. n + 1 - 1 = n
        BY <1>5
      <4> QED BY <2>7, <3>1, <4>1, HeadTailProperties
    <3> QED BY <1>2, <1>5, <2>7, <3>1, <3>2, SeqEqual
  <2> QED BY <1>9, <2>6, <2>8 DEF Turn
<1>7. Head(u) = u[1] /\ u[1] \in Range(u)
  BY <1>3, TailRing
<1>8. Range(u) = Range(r)
  BY <1>2, <1>3
<1> QED BY <1>1, <1>3, <1>6, <1>7, <1>8

-----------------------------------------------------------------------------
(* The algorithms on their rings.                                          *)

Rings == [Classes -> Seq(Tasks)]
\* Only the ring of class c has changed.
RingIs(p, q, c, ring) ==
  p \in Rings /\ p[c] = ring /\ \A d \in Classes : d # c => p[d] = q[d]

\* The null pointer is no task, and only an empty ring has it as its head.
LEMMA NoTaskIsNone ==
  /\ NoTask \notin Tasks /\ 0 \in Classes
  /\ \A r \in Seq(Tasks) : /\ HeadOf(r) = IF r = <<>> THEN NoTask ELSE r[1]
                           /\ HeadOf(r) = NoTask <=> r = <<>>
<1>1. NoTask \notin Tasks /\ 0 \in Classes
  BY TasksAssumption DEF NoTask, Tasks, Classes
<1>2. ASSUME NEW r \in Seq(Tasks), r # <<>> PROVE Head(r) = r[1] /\ r[1] \in Tasks
  BY <1>2, HeadTailProperties, EmptySeq, LenProperties, ElementOfSeq
<1> QED BY <1>1, <1>2 DEF HeadOf

\* Each task has one of the heads; without priorities it is head0.
LEMMA ClassType ==
  ASSUME SimTypes, NEW t \in Tasks
  PROVE  Class(t) \in Classes /\ (alg \notin ByPriority => Class(t) = 0)
<1>1. job[t].priority \in Nat
  BY TasksAssumption DEF SimTypes
<1> QED BY <1>1 DEF Class, ClassOf, Classes

\* srtn's walk never leaves the head: whatever the guesses, it is fcfs.
LEMMA EnqueueAppends ==
  ASSUME NEW q \in Rings, NEW t \in Tasks, NEW c \in Classes, NEW r, NEW guess,
         \A d \in Classes : IsInjective(q[d]),
         alg \notin ByPriority => r = HeadOf(q[c])
  PROVE  Enqueue(alg, q, r, t, c, guess) = [q EXCEPT ![c] = Append(q[c], t)]
<1>1. alg = "srtn" => alg \notin ByPriority
  BY DEF ByPriority
<1>2. q[c] \in Seq(Tasks) /\ IsInjective(q[c])
  BY DEF Rings
<1>3. ASSUME alg = "srtn", q[c] # <<>> PROVE SrtnInsert(q[c], r, t, guess) = Append(q[c], t)
  <2> DEFINE ring == q[c]
             seen == From(ring, r)
             stop == CHOOSE i \in DOMAIN seen :
                       /\ guess[seen[i]] >= guess[t] \/ seen[i] = Head(ring)
                       /\ \A j \in 1 .. i - 1 :
                            guess[seen[j]] < guess[t] /\ seen[j] # Head(ring)
  <2>1. r = ring[1] /\ Head(ring) = ring[1]
    BY <1>1, <1>2, <1>3, NoTaskIsNone, HeadTailProperties
  <2>2. seen = ring
    BY <1>2, <1>3, <2>1, FromHead
  <2>3. PICK n \in Nat \ {0} : n = Len(ring) /\ DOMAIN ring = 1 .. n
    BY <1>2, <1>3, Injective, LenProperties
  <2>4. stop = 1
    <3>1. \A i \in 1 .. n : i # 1 => 1 \in 1 .. i - 1
      BY <2>3
    <3>2. 1 \in 1 .. n /\ 1 .. 1 - 1 = {}
      BY <2>3
    <3> HIDE DEF ring
    <3> QED BY <2>1, <2>2, <2>3, <3>1, <3>2
  <2>5. SrtnInsert(ring, r, t, guess) = Append(From(ring, seen[stop]), t)
    BY DEF SrtnInsert, Link
  <2> HIDE DEF stop
  <2> QED BY <1>2, <1>3, <2>2, <2>4, <2>5, FromHead
<1>4. Enqueue(alg, q, r, t, c, guess)
        = [q EXCEPT ![c] = IF alg = "srtn" /\ q[c] # <<>> THEN SrtnInsert(q[c], r, t, guess)
                                                          ELSE Append(q[c], t)]
  BY DEF Enqueue, LinkTail, Link
<1> QED BY <1>3, <1>4

\* task_dequeue of the head takes it out and leaves its successors in order.
LEMMA DequeueDrops ==
  ASSUME NEW q \in Rings, NEW c \in Classes, IsInjective(q[c]), q[c] # <<>>,
         NEW r, r = HeadOf(q[c]), NEW p, p = Dequeue(alg, q, r, c)
  PROVE  p \in Rings /\ RingIs(p, q, c, Tail(q[c]))
<1>1. q[c] \in Seq(Tasks)
  BY DEF Rings
<1>2. From(q[c], r) = q[c]
  BY <1>1, NoTaskIsNone, FromHead
<1>3. p = [q EXCEPT ![c] = Tail(q[c])]
  BY <1>2 DEF Dequeue, DropHead, Unlink
<1>4. Tail(q[c]) \in Seq(Tasks)
  BY <1>1, TailRing
<1> QED BY <1>3, <1>4 DEF Rings, RingIs

\* The timer turns a ring that has tasks, if any has; prr's the highest.
LEMMA TurnsAreBusy ==
  ASSUME NEW q
  PROVE  /\ Turns(alg, q) \subseteq Busy(q)
         /\ Turns(alg, q) = {} => Busy(q) = {}
         /\ alg # "rrr" => \A c \in Turns(alg, q), d \in Busy(q) : d <= c
<1>1. Busy(q) \subseteq 0 .. 3
  BY DEF Busy, Classes
<1>2. Busy(q) # {} => PrrTurns(q) # {}
  <2> SUFFICES ASSUME Busy(q) # {} PROVE \E c \in Busy(q) : \A d \in Busy(q) : d <= c
    BY DEF PrrTurns
  <2>1. \A d \in Busy(q) : d = 0 \/ d = 1 \/ d = 2 \/ d = 3
    BY <1>1
  <2>2. CASE 3 \in Busy(q)
    BY <2>1, <2>2
  <2>3. CASE 3 \notin Busy(q) /\ 2 \in Busy(q)
    BY <2>1, <2>3
  <2>4. CASE 3 \notin Busy(q) /\ 2 \notin Busy(q) /\ 1 \in Busy(q)
    BY <2>1, <2>4
  <2>5. CASE 3 \notin Busy(q) /\ 2 \notin Busy(q) /\ 1 \notin Busy(q)
    BY <2>1, <2>5
  <2> QED BY <2>2, <2>3, <2>4, <2>5
<1>3. PrrTurns(q) \subseteq Busy(q) /\ \A c \in PrrTurns(q), d \in Busy(q) : d <= c
  BY DEF PrrTurns
<1>4. Busy(q) # {} => RrrTurns(q) \subseteq Busy(q) /\ RrrTurns(q) # {}
  <2> SUFFICES ASSUME Busy(q) # {} PROVE RrrTurns(q) \subseteq Busy(q) /\ RrrTurns(q) # {}
    OBVIOUS
  <2>1. (CHOOSE c \in PrrTurns(q) : TRUE) \in PrrTurns(q)
    BY <1>2
  <2>2. 0 \in Classes
    BY DEF Classes
  <2> QED BY <1>3, <2>1, <2>2 DEF RrrTurns
<1> QED BY <1>2, <1>3, <1>4 DEF Turns

-----------------------------------------------------------------------------
(* The agreement of the scheduler, on the states of the tasks alone: state   *)
(* maps tasks to states, class to classes, and leaving are those on their    *)
(* way out.                                                                *)

Live == {"READY", "RUNNING"}
Agreed(class, state, q, r, leaving) ==
  /\ \A t \in Tasks : state[t] = "RUNNING" => t = r
  /\ r # NoTask => /\ state[r] = "RUNNING" \/ r \in leaving
                   /\ r = HeadOf(q[class[r]])
  /\ leaving \subseteq {r}
  /\ \A c \in Classes : IsInjective(q[c])
  /\ \A c \in Classes :
       Range(q[c]) = {t \in Tasks : (state[t] \in Live \/ t \in leaving) /\ class[t] = c}
ClassMap == [t \in Tasks |-> Class(t)]
StateMap == [t \in Tasks |-> task[t].state]

\* Only the states of s, r and t have changed; only those of s and t.
SwapIs(new, state, r, s, t) ==
  \A u \in Tasks : new[u] = IF u = s THEN "RUNNING" ELSE IF u = r \/ u = t THEN "READY"
                             ELSE state[u]
LeaveIs(new, state, t, s) ==
  \A u \in Tasks : new[u] = IF u = t THEN state[t] ELSE IF u = s THEN "RUNNING" ELSE state[u]
Agrees == Agreed(ClassMap, StateMap, queue, running, Leaving)

\* SchedulerAgrees, said of the functions that a handler changes.
LEMMA AgreedIsAgrees == SimTypes => (SchedulerAgrees <=> Agrees)
<1> SUFFICES ASSUME SimTypes PROVE SchedulerAgrees <=> Agrees
  OBVIOUS
<1>1. \A t \in Tasks : ClassMap[t] = Class(t) /\ StateMap[t] = task[t].state
  BY DEF ClassMap, StateMap
<1>2. Leaving \subseteq Tasks
  BY DEF Leaving
<1>3. running # NoTask => running \in Tasks
  BY DEF SimTypes
<1>4. \A c \in Classes :
        {t \in Tasks : /\ task[t].state \in {"READY", "RUNNING"} \/ t \in Leaving
                       /\ Class(t) = c}
          = {t \in Tasks : (StateMap[t] \in Live \/ t \in Leaving) /\ ClassMap[t] = c}
  BY <1>1 DEF Live
<1> HIDE DEF Leaving
<1> QED BY <1>1, <1>3, <1>4 DEF SchedulerAgrees, Agreed, Agrees

Enqueued(class, state, q, r, t, p, s, new) ==
  /\ class \in [Tasks -> Classes] /\ state \in [Tasks -> States] /\ q \in Rings
  /\ r \in Tasks \cup {NoTask} /\ Agreed(class, state, q, r, {})
  /\ t \in Tasks /\ state[t] \notin Live
  /\ RingIs(p, q, class[t], Append(q[class[t]], t)) /\ s = HeadOf(p[class[t]])
  /\ SwapIs(new, state, r, s, t)
Dequeued(class, state, q, t, p, s, new) ==
  /\ class \in [Tasks -> Classes] /\ state \in [Tasks -> States] /\ q \in Rings
  /\ t \in Tasks /\ state[t] \notin Live /\ Agreed(class, state, q, t, {t})
  /\ RingIs(p, q, class[t], Tail(q[class[t]])) /\ s = HeadOf(p[class[t]])
  /\ LeaveIs(new, state, t, s)
Turned(class, state, q, r, c, p, s, new) ==
  /\ class \in [Tasks -> Classes] /\ state \in [Tasks -> States] /\ q \in Rings
  /\ r \in Tasks \cup {NoTask} /\ Agreed(class, state, q, r, {})
  /\ c \in Classes /\ q[c] # <<>>
  /\ RingIs(p, q, c, Turn(q[c])) /\ s = Head(p[c])
  /\ SwapIs(new, state, r, s, s)

\* A task that is not in a ring is queued, and the head of its ring runs.
LEMMA EnqueueAgrees ==
  ASSUME NEW class, NEW state, NEW q, NEW r, NEW t, NEW p, NEW s, NEW new,
         Enqueued(class, state, q, r, t, p, s, new)
  PROVE  /\ s \in Tasks /\ Agreed(class, new, p, s, {})
         /\ s = t \/ state[s] \in Live
         /\ \A c \in Classes : q[c] # <<>> => HeadOf(p[c]) = HeadOf(q[c])
<1> DEFINE k == class[t]
<1> USE DEF Enqueued
<1>1. k \in Classes /\ q[k] \in Seq(Tasks)
  BY DEF Rings
<1>2. t \notin Range(q[k]) /\ IsInjective(q[k])
  BY <1>1 DEF Agreed
<1>3. /\ p[k] \in Seq(Tasks) /\ IsInjective(p[k])
      /\ Range(p[k]) = Range(q[k]) \cup {t} /\ p[k] # <<>>
      /\ p[k][1] = IF q[k] = <<>> THEN t ELSE q[k][1]
  <2>1. p[k] = Append(q[k], t)
    BY DEF RingIs
  <2> QED BY <1>1, <1>2, <2>1, AppendRing
<1>4. \A c \in Classes : c # k => p[c] = q[c]
  BY DEF RingIs
<1>6. s = p[k][1] /\ s \in Tasks /\ s \in Range(q[k]) \cup {t}
  <2>1. s = p[k][1]
    BY <1>3, NoTaskIsNone
  <2> QED BY <1>3, <2>1, TailRing
<1>7. class[s] = k /\ (s = t \/ state[s] \in Live)
  BY <1>1, <1>6 DEF Agreed
<1>8. \A c \in Classes : q[c] # <<>> => HeadOf(p[c]) = HeadOf(q[c])
  <2>1. q[k] # <<>> => HeadOf(p[k]) = HeadOf(q[k])
    BY <1>1, <1>3, NoTaskIsNone
  <2> QED BY <1>4, <2>1
<1>9. \A u \in Tasks : new[u] = IF u = s THEN "RUNNING" ELSE IF u = r \/ u = t THEN "READY"
                                ELSE state[u]
  BY DEF SwapIs
<1>10. r # NoTask => r \in Tasks /\ state[r] = "RUNNING"
  BY DEF Agreed
<1>11. \A u \in Tasks : new[u] \in Live <=> (state[u] \in Live \/ u = t)
  BY <1>7, <1>9, <1>10, NoTaskIsNone DEF Live
<1>12. \A u \in Tasks : new[u] = "RUNNING" => u = s
  BY <1>9 DEF Agreed
<1>13. s # NoTask /\ new[s] = "RUNNING" /\ s = HeadOf(p[class[s]])
  BY <1>6, <1>7, <1>9, NoTaskIsNone
<1>14. \A c \in Classes : IsInjective(p[c])
  BY <1>3, <1>4 DEF Agreed
<1>15. \A c \in Classes : Range(p[c]) = {u \in Tasks : (new[u] \in Live \/ u \in {}) /\ class[u] = c}
  <2>1. \A c \in Classes : Range(q[c]) = {u \in Tasks : (state[u] \in Live \/ u \in {}) /\ class[u] = c}
    BY DEF Agreed
  <2>2. ASSUME NEW c \in Classes, c # k
        PROVE  Range(p[c]) = {u \in Tasks : (new[u] \in Live \/ u \in {}) /\ class[u] = c}
    BY <1>4, <1>11, <2>1, <2>2
  <2>3. Range(p[k]) = {u \in Tasks : (new[u] \in Live \/ u \in {}) /\ class[u] = k}
    BY <1>1, <1>3, <1>11, <2>1
  <2> QED BY <2>2, <2>3
<1>16. Agreed(class, new, p, s, {})
  BY <1>12, <1>13, <1>14, <1>15 DEF Agreed
<1> QED BY <1>6, <1>7, <1>8, <1>16

\* The running task leaves its ring and keeps its state; the next one runs.
LEMMA DequeueAgrees ==
  ASSUME NEW class, NEW state, NEW q, NEW t, NEW p, NEW s, NEW new,
         Dequeued(class, state, q, t, p, s, new)
  PROVE  /\ s \in Tasks \cup {NoTask} /\ s # t
         /\ Agreed(class, new, p, s, {})
         /\ s # NoTask => state[s] \in Live
         /\ q[class[t]] # <<>>
<1> DEFINE k == class[t]
<1> USE DEF Dequeued
<1>1. k \in Classes /\ q[k] \in Seq(Tasks) /\ IsInjective(q[k]) /\ t # NoTask
  BY NoTaskIsNone DEF Rings, Agreed
<1>2. t = HeadOf(q[k])
  BY <1>1 DEF Agreed
<1>3. q[k] # <<>> /\ t = q[k][1]
  BY <1>1, <1>2, NoTaskIsNone
<1>4. /\ p[k] \in Seq(Tasks) /\ IsInjective(p[k]) /\ Range(p[k]) = Range(q[k]) \ {t}
  <2>1. p[k] = Tail(q[k])
    BY DEF RingIs
  <2> QED BY <1>1, <1>3, <2>1, TailRing
<1>5. \A c \in Classes : c # k => p[c] = q[c]
  BY DEF RingIs
<1>7. \/ s = NoTask
      \/ s \in Tasks /\ s \in Range(p[k])
  <2>1. CASE p[k] = <<>>
    BY <1>4, <2>1, NoTaskIsNone
  <2>2. CASE p[k] # <<>>
    <3>1. s = p[k][1]
      BY <1>4, <2>2, NoTaskIsNone
    <3> QED BY <1>4, <2>2, <3>1, TailRing
  <2> QED BY <2>1, <2>2
<1>8. s # NoTask => s \in Tasks /\ s # t /\ class[s] = k /\ state[s] \in Live
  BY <1>1, <1>4, <1>7 DEF Agreed
<1>9. \A u \in Tasks : new[u] = IF u = t THEN state[t] ELSE IF u = s THEN "RUNNING" ELSE state[u]
  BY DEF LeaveIs
<1>10. \A u \in Tasks : new[u] \in Live <=> (state[u] \in Live /\ u # t)
  BY <1>8, <1>9, NoTaskIsNone DEF Live
<1>11. \A u \in Tasks : new[u] = "RUNNING" => u = s
  BY <1>9 DEF Agreed, Live
<1>12. s # NoTask => new[s] = "RUNNING" /\ s = HeadOf(p[class[s]])
  BY <1>8, <1>9
<1>13. \A c \in Classes : IsInjective(p[c])
  BY <1>4, <1>5 DEF Agreed
<1>14. \A c \in Classes : Range(p[c]) = {u \in Tasks : (new[u] \in Live \/ u \in {}) /\ class[u] = c}
  <2>1. \A c \in Classes : Range(q[c]) = {u \in Tasks : (state[u] \in Live \/ u \in {t}) /\ class[u] = c}
    BY DEF Agreed
  <2>2. ASSUME NEW c \in Classes, c # k
        PROVE  Range(p[c]) = {u \in Tasks : (new[u] \in Live \/ u \in {}) /\ class[u] = c}
    BY <1>5, <1>10, <2>1, <2>2
  <2>3. Range(p[k]) = {u \in Tasks : (new[u] \in Live \/ u \in {}) /\ class[u] = k}
    BY <1>1, <1>4, <1>10, <2>1
  <2> QED BY <2>2, <2>3
<1>15. Agreed(class, new, p, s, {})
  BY <1>11, <1>12, <1>13, <1>14 DEF Agreed
<1>16. s # t /\ s \in Tasks \cup {NoTask}
  BY <1>1, <1>7, <1>8
<1> QED BY <1>3, <1>8, <1>15, <1>16

\* A ring turns, and its new head runs instead of whoever ran.
LEMMA TurnAgrees ==
  ASSUME NEW class, NEW state, NEW q, NEW r, NEW c, NEW p, NEW s, NEW new,
         Turned(class, state, q, r, c, p, s, new)
  PROVE  /\ s \in Tasks /\ class[s] = c
         /\ Agreed(class, new, p, s, {})
         /\ \A d \in Classes : Range(p[d]) = Range(q[d])
<1> USE DEF Turned
<1>1. q[c] \in Seq(Tasks) /\ IsInjective(q[c])
  BY DEF Rings, Agreed
<1>2. p[c] = Turn(q[c]) /\ \A d \in Classes : d # c => p[d] = q[d]
  BY DEF RingIs
<1>3. /\ p[c] \in Seq(Tasks) /\ IsInjective(p[c]) /\ Range(p[c]) = Range(q[c])
      /\ p[c] # <<>> /\ s = p[c][1] /\ s \in Range(q[c])
  BY <1>1, <1>2, TurnRing
<1>5. s \in Tasks /\ class[s] = c /\ state[s] \in Live /\ s # NoTask
  BY <1>3, NoTaskIsNone DEF Agreed
<1>6. \A u \in Tasks : new[u] = IF u = s THEN "RUNNING" ELSE IF u = r THEN "READY" ELSE state[u]
  BY DEF SwapIs
<1>7. r # NoTask => r \in Tasks /\ state[r] = "RUNNING"
  BY DEF Agreed
<1>8. \A u \in Tasks : new[u] \in Live <=> state[u] \in Live
  BY <1>5, <1>6, <1>7, NoTaskIsNone DEF Live
<1>9. /\ \A u \in Tasks : new[u] = "RUNNING" => u = s
  BY <1>6 DEF Agreed
<1>10. new[s] = "RUNNING" /\ s = HeadOf(p[class[s]])
  BY <1>3, <1>5, <1>6, NoTaskIsNone
<1>11. \A d \in Classes : IsInjective(p[d]) /\ Range(p[d]) = Range(q[d])
  BY <1>2, <1>3 DEF Agreed
<1>12. \A d \in Classes : Range(p[d]) = {u \in Tasks : (new[u] \in Live \/ u \in {}) /\ class[u] = d}
  <2>1. \A d \in Classes : Range(q[d]) = {u \in Tasks : (state[u] \in Live \/ u \in {}) /\ class[u] = d}
    BY DEF Agreed
  <2> QED BY <1>8, <1>11, <2>1
<1>13. Agreed(class, new, p, s, {})
  BY <1>9, <1>10, <1>11, <1>12 DEF Agreed
<1> QED BY <1>2, <1>5, <1>11, <1>13

\* The running task's burst ends: it is on its way out, still in its ring.
LEMMA BurstEndAgrees ==
  ASSUME NEW class \in [Tasks -> Classes], NEW state \in [Tasks -> States],
         NEW q \in Rings, NEW r \in Tasks \cup {NoTask},
         Agreed(class, state, q, r, {}), NEW t \in Tasks, state[t] = "RUNNING",
         NEW new \in [Tasks -> States], new[t] \notin Live,
         \A u \in Tasks : u # t => new[u] = state[u]
  PROVE  t = r /\ Agreed(class, new, q, r, {t})
<1>1. t = r
  BY DEF Agreed
<1>2. r # NoTask /\ r = HeadOf(q[class[r]])
  BY <1>1, NoTaskIsNone DEF Agreed
<1>3. \A u \in Tasks : new[u] = "RUNNING" => u = r
  BY <1>1 DEF Agreed, Live
<1>4. \A c \in Classes : Range(q[c]) = {u \in Tasks : (new[u] \in Live \/ u \in {t}) /\ class[u] = c}
  <2>1. \A u \in Tasks : (new[u] \in Live \/ u \in {t}) <=> (state[u] \in Live \/ u \in {})
    BY DEF Live
  <2>2. \A c \in Classes : Range(q[c]) = {u \in Tasks : (state[u] \in Live \/ u \in {}) /\ class[u] = c}
    BY DEF Agreed
  <2> QED BY <2>1, <2>2
<1>5. \A c \in Classes : IsInjective(q[c])
  BY DEF Agreed
<1> QED BY <1>1, <1>2, <1>3, <1>4, <1>5 DEF Agreed

-----------------------------------------------------------------------------
(* What a handler makes of the fields of the tasks.                        *)

\* Only states, counters and last_state have changed.
Kept ==
  /\ task' = [t \in Tasks |-> task'[t]]
  /\ \A t \in Tasks : /\ task'[t] \in Fields(Runs(t))
                      /\ task'[t].times = task[t].times /\ task'[t].index = task[t].index
                      /\ task'[t].next = task[t].next /\ task'[t].remove = task[t].remove

\* Assignments to single fields keep a task a task and the other fields as they are.
LEMMA SetState ==
  ASSUME NEW n \in Nat, NEW k \in Fields(n), NEW s \in States
  PROVE  /\ [k EXCEPT !.state = s] \in Fields(n)
         /\ [k EXCEPT !.state = s].state = s
         /\ [k EXCEPT !.state = s].times = k.times /\ [k EXCEPT !.state = s].index = k.index
         /\ [k EXCEPT !.state = s].next = k.next /\ [k EXCEPT !.state = s].remove = k.remove
BY DEF Fields

\* The same for last_state.
LEMMA SetLast ==
  ASSUME NEW n \in Nat, NEW k \in Fields(n), NEW s \in States
  PROVE  /\ [k EXCEPT !.last = s] \in Fields(n) /\ [k EXCEPT !.last = s].state = k.state
         /\ [k EXCEPT !.last = s].times = k.times /\ [k EXCEPT !.last = s].index = k.index
         /\ [k EXCEPT !.last = s].next = k.next /\ [k EXCEPT !.last = s].remove = k.remove
BY DEF Fields

\* The same for the count of bursts.
LEMMA CountBurst ==
  ASSUME NEW n, NEW k \in Fields(n), NEW l, l = [k EXCEPT !.bursts = @ + 1]
  PROVE  /\ l \in Fields(n) /\ l.state = k.state /\ l.times = k.times
         /\ l.index = k.index /\ l.next = k.next /\ l.remove = k.remove
BY DEF Fields

\* Several fields of one task are set as one record.
LEMMA NestedSet ==
  ASSUME NEW T, NEW f, NEW t \in T, f = [u \in T |-> f[u]], NEW s
  PROVE  /\ [f EXCEPT ![t].last = s, ![t].state = "READY", ![t].bursts = @ + 1]
              = [f EXCEPT ![t] = [f[t] EXCEPT !.last = s, !.state = "READY", !.bursts = @ + 1]]
         /\ [f EXCEPT ![t].bursts = @ + 1] = [f EXCEPT ![t] = [f[t] EXCEPT !.bursts = @ + 1]]
<1>1. [f EXCEPT ![t].last = s, ![t].state = "READY", ![t].bursts = @ + 1]
        = [f EXCEPT ![t] = [f[t] EXCEPT !.last = s, !.state = "READY", !.bursts = @ + 1]]
  OBVIOUS
<1>2. [f EXCEPT ![t].bursts = @ + 1] = [f EXCEPT ![t] = [f[t] EXCEPT !.bursts = @ + 1]]
  OBVIOUS
<1> QED BY <1>1, <1>2

\* A task has at least one run.
LEMMA RunsType ==
  ASSUME SimTypes, NEW t \in Tasks
  PROVE  Runs(t) \in Nat \ {0} /\ job[t].priority \in Nat
<1>1. job[t].runs \in Seq(Nat) /\ job[t].blocks \in Seq(Nat) /\ job[t].priority \in Nat
      /\ Len(job[t].blocks) < Len(job[t].runs)
  BY TasksAssumption DEF SimTypes
<1>2. Len(job[t].runs) \in Nat /\ Len(job[t].blocks) \in Nat
  BY <1>1, LenProperties
<1> QED BY <1>1, <1>2 DEF Runs

\* SwapOut and SwapIn change the states of two tasks and nothing else.
LEMMA SwapKeeps ==
  ASSUME SimTypes, NEW tasks, NEW out, NEW in,
         \A t \in Tasks : /\ tasks[t] \in Fields(Runs(t))
                          /\ tasks[t].times = task[t].times /\ tasks[t].index = task[t].index
                          /\ tasks[t].next = task[t].next /\ tasks[t].remove = task[t].remove,
         NEW new, new = Swap(tasks, out, in)
  PROVE  /\ new = [t \in Tasks |-> new[t]]
         /\ \A t \in Tasks :
              /\ new[t] \in Fields(Runs(t))
              /\ new[t].times = task[t].times /\ new[t].index = task[t].index
              /\ new[t].next = task[t].next /\ new[t].remove = task[t].remove
              /\ new[t].state = IF t = in THEN "RUNNING" ELSE IF t = out THEN "READY"
                                ELSE tasks[t].state
<1>1. new = [t \in Tasks |-> IF t = in THEN [tasks[t] EXCEPT !.state = "RUNNING"]
                             ELSE IF t = out THEN [tasks[t] EXCEPT !.state = "READY"]
                             ELSE tasks[t]]
  BY DEF Swap
<1>2. new = [t \in Tasks |-> new[t]]
  BY <1>1
<1>3. ASSUME NEW t \in Tasks
      PROVE  /\ new[t] \in Fields(Runs(t))
             /\ new[t].times = task[t].times /\ new[t].index = task[t].index
             /\ new[t].next = task[t].next /\ new[t].remove = task[t].remove
             /\ new[t].state = IF t = in THEN "RUNNING" ELSE IF t = out THEN "READY"
                               ELSE tasks[t].state
  <2>1. "RUNNING" \in States /\ "READY" \in States
    BY DEF States
  <2>2. Runs(t) \in Nat /\ tasks[t] \in Fields(Runs(t))
    BY RunsType
  <2>3. CASE t = in
    <3>1. new[t] = [tasks[t] EXCEPT !.state = "RUNNING"]
      BY <1>1, <2>3
    <3> QED BY <2>1, <2>2, <2>3, <3>1, SetState
  <2>4. CASE t # in /\ t = out
    <3>1. new[t] = [tasks[t] EXCEPT !.state = "READY"]
      BY <1>1, <2>4
    <3> QED BY <2>1, <2>2, <2>4, <3>1, SetState
  <2>5. CASE t # in /\ t # out
    <3>1. new[t] = tasks[t]
      BY <1>1, <2>5
    <3> QED BY <2>2, <2>5, <3>1
  <2> QED BY <2>3, <2>4, <2>5
<1> QED BY <1>2, <1>3

\* Between the ticks every task whose burst is over has left its ring.
LEMMA NobodyLeaves == phase \in {"start", "exit"} => Leaving = {}
BY DEF Leaving

\* OnStartTick queues its task or leaves the scheduler alone.
LEMMA StartTickKeeps ==
  ASSUME SimInv, OnStartTick, NEW t, t = list[at]
  PROVE  /\ t \in Tasks /\ at \in 1 .. Len(list)
         /\ Kept
         /\ \/ /\ UNCHANGED <<queue, running>>
               /\ \A u \in Tasks : task'[u].state = IF u = t /\ task[u].state = "INIT"
                                                    THEN "NOT_ARRIVED" ELSE task[u].state
            \/ /\ task[t].next = time /\ task[t].state \in {"INIT", "NOT_ARRIVED", "BLOCKED"}
               /\ queue' = [queue EXCEPT ![Class(t)] = Append(queue[Class(t)], t)]
               /\ running' = HeadOf(queue'[Class(t)])
               /\ \A u \in Tasks : task'[u].state = IF u = running' THEN "RUNNING"
                                                    ELSE IF u = running THEN "READY"
                                                    ELSE IF u = t THEN "READY" ELSE task[u].state
<1>1. at \in 1 .. Len(list) /\ t \in Tasks
  <2>1. list \in Seq(Tasks) /\ Len(list) \in Nat /\ at \in Nat \ {0} /\ at <= Len(list)
    BY LenProperties DEF SimInv, SimTypes, OnStartTick
  <2> QED BY <2>1, ElementOfSeq
<1> DEFINE state == IF task[t].state = "INIT" THEN "NOT_ARRIVED" ELSE task[t].state
           now == [task EXCEPT ![t].state = state]
           ready == [now EXCEPT ![t].last = state, ![t].state = "READY", ![t].bursts = @ + 1]
           idle == [now EXCEPT ![t].bursts = @ + 1]
<1>2. task = [u \in Tasks |-> task[u]] /\ \A u \in Tasks : task[u] \in Fields(Runs(u)) /\ Runs(u) \in Nat
  BY RunsType DEF SimInv, SimTypes
<1>3. state \in States /\ task[t].state \in States
  <2>1. task[t].state \in States
    BY <1>1, <1>2 DEF Fields
  <2> QED BY <2>1 DEF States
<1> DEFINE a == [task[t] EXCEPT !.state = state]
           b == [a EXCEPT !.last = state, !.state = "READY", !.bursts = @ + 1]
           c == [a EXCEPT !.bursts = @ + 1]
<1>4. /\ now = [u \in Tasks |-> IF u = t THEN a ELSE task[u]]
      /\ ready = [u \in Tasks |-> IF u = t THEN b ELSE task[u]]
      /\ idle = [u \in Tasks |-> IF u = t THEN c ELSE task[u]]
  <2> HIDE DEF state
  <2>1. now = [u \in Tasks |-> IF u = t THEN a ELSE task[u]]
    BY <1>1, <1>2
  <2>2. now[t] = a
    BY <1>1, <2>1
  <2>3. /\ ready = [now EXCEPT ![t] = b]
        /\ idle = [now EXCEPT ![t] = c]
    <3>1. now = [u \in Tasks |-> now[u]]
      BY <2>1
    <3> HIDE DEF a, now
    <3>2. ready = [now EXCEPT ![t] = [now[t] EXCEPT !.last = state, !.state = "READY", !.bursts = @ + 1]]
      BY <1>1, <3>1, NestedSet
    <3>3. idle = [now EXCEPT ![t] = [now[t] EXCEPT !.bursts = @ + 1]]
      BY <1>1, <3>1, NestedSet
    <3> QED BY <2>2, <3>2, <3>3
  <2> HIDE DEF now, ready, idle, a, b, c
  <2> QED BY <1>1, <2>1, <2>3
<1>5. /\ a \in Fields(Runs(t)) /\ a.state = state
      /\ a.times = task[t].times /\ a.index = task[t].index
      /\ a.next = task[t].next /\ a.remove = task[t].remove
  BY <1>1, <1>2, <1>3, SetState
<1>6. /\ b \in Fields(Runs(t)) /\ b.state = "READY"
      /\ b.times = a.times /\ b.index = a.index /\ b.next = a.next /\ b.remove = a.remove
  <2> HIDE DEF a, state
  <2> DEFINE b1 == [a EXCEPT !.last = state]
             b2 == [b1 EXCEPT !.state = "READY"]
  <2>1. Runs(t) \in Nat /\ "READY" \in States
    BY <1>1, <1>2 DEF States
  <2>2. /\ b1 \in Fields(Runs(t)) /\ b1.times = a.times /\ b1.index = a.index
        /\ b1.next = a.next /\ b1.remove = a.remove
    BY <1>3, <1>5, <2>1, SetLast
  <2>3. b = [b2 EXCEPT !.bursts = @ + 1]
    OBVIOUS
  <2> HIDE DEF b, b1
  <2>4. /\ b2 \in Fields(Runs(t)) /\ b2.times = b1.times /\ b2.index = b1.index
        /\ b2.next = b1.next /\ b2.remove = b1.remove /\ b2.state = "READY"
    BY <2>1, <2>2, SetState
  <2> HIDE DEF b2
  <2>5. /\ b \in Fields(Runs(t)) /\ b.times = b2.times /\ b.index = b2.index
        /\ b.next = b2.next /\ b.remove = b2.remove /\ b.state = b2.state
    BY <2>1, <2>3, <2>4, CountBurst
  <2> QED BY <2>2, <2>4, <2>5
<1>7. /\ c \in Fields(Runs(t)) /\ c.state = a.state
      /\ c.times = a.times /\ c.index = a.index /\ c.next = a.next /\ c.remove = a.remove
  <2> HIDE DEF a, state
  <2> QED BY <1>5 DEF Fields
<1>8. /\ alg' = alg /\ job' = job
      /\ IF task[t].next # time THEN task' = now /\ UNCHANGED <<queue, running>>
         ELSE IF state \in {"NOT_ARRIVED", "BLOCKED"} THEN AddTask(t, ready)
         ELSE task' = idle /\ UNCHANGED <<queue, running>>
  BY DEF OnStartTick, inputs
<1> HIDE DEF a, b, c, now, ready, idle
<1>9. CASE task' = now /\ UNCHANGED <<queue, running>>
  <2>1. \A u \in Tasks : task'[u] = IF u = t THEN a ELSE task[u]
    BY <1>4, <1>9
  <2>2. Kept
    BY <1>2, <1>4, <1>5, <1>9, <2>1 DEF Kept
  <2>3. \A u \in Tasks : task'[u].state = IF u = t /\ task[u].state = "INIT"
                                          THEN "NOT_ARRIVED" ELSE task[u].state
    BY <1>5, <2>1
  <2> QED BY <1>1, <1>9, <2>2, <2>3
<1>10. CASE task' = idle /\ UNCHANGED <<queue, running>>
  <2>1. \A u \in Tasks : task'[u] = IF u = t THEN c ELSE task[u]
    BY <1>4, <1>10
  <2>2. Kept
    BY <1>2, <1>4, <1>5, <1>7, <1>10, <2>1 DEF Kept
  <2>3. \A u \in Tasks : task'[u].state = IF u = t /\ task[u].state = "INIT"
                                          THEN "NOT_ARRIVED" ELSE task[u].state
    BY <1>5, <1>7, <2>1
  <2> QED BY <1>1, <1>10, <2>2, <2>3
<1>11. CASE task[t].next = time /\ state \in {"NOT_ARRIVED", "BLOCKED"} /\ AddTask(t, ready)
  <2>1. task[t].state \in {"INIT", "NOT_ARRIVED", "BLOCKED"}
    BY <1>11
  <2> DEFINE m == Remember(meta[t], job[t].priority, ready[t].runTime)
             metas == IF alg = "srtn" THEN [meta EXCEPT ![t] = m] ELSE meta
             guess == [u \in Tasks |-> metas[u].guess]
             q == Enqueue(alg, queue, running, t, Class(t), guess)
  <2>2. queue' = q /\ running' = HeadOf(queue'[Class(t)])
        /\ task' = IF running' = running THEN ready ELSE Swap(ready, running, running')
    BY <1>11 DEF AddTask
  <2> HIDE DEF guess
  <2>3. Class(t) \in Classes /\ queue \in Rings /\ \A d \in Classes : IsInjective(queue[d])
    BY <1>1, ClassType DEF SimInv, SimTypes, SchedulerAgrees, Rings
  <2>4. alg \notin ByPriority => running = HeadOf(queue[Class(t)])
    BY <1>1, ClassType DEF SimInv, OneRing
  <2>5. queue' = [queue EXCEPT ![Class(t)] = Append(queue[Class(t)], t)]
    BY <1>1, <2>2, <2>3, <2>4, EnqueueAppends, SMTT(30)
  <2>6. /\ \A u \in Tasks : ready[u] = IF u = t THEN b ELSE task[u]
        /\ ready = [u \in Tasks |-> ready[u]]
    BY <1>4
  <2>7. \A u \in Tasks : /\ ready[u] \in Fields(Runs(u))
                         /\ ready[u].times = task[u].times /\ ready[u].index = task[u].index
                         /\ ready[u].next = task[u].next /\ ready[u].remove = task[u].remove
                         /\ ready[u].state = IF u = t THEN "READY" ELSE task[u].state
    BY <1>2, <1>5, <1>6, <2>6
  <2>8. running \in Tasks => task[running].state = "RUNNING" /\ running # t
    <3>1. Leaving = {}
      BY NobodyLeaves DEF OnStartTick
    <3> QED BY <2>1, <3>1, NoTaskIsNone DEF SimInv, SchedulerAgrees
  <2>9. /\ Kept
        /\ \A u \in Tasks : task'[u].state = IF u = running' THEN "RUNNING"
                                             ELSE IF u = running THEN "READY"
                                             ELSE ready[u].state
    <3>1. CASE running' = running
      <4>1. task' = ready
        BY <2>2, <3>1
      <4> QED BY <2>6, <2>7, <2>8, <3>1, <4>1 DEF Kept
    <3>2. CASE running' # running
      <4>1. task' = Swap(ready, running, running')
        BY <2>2, <3>2
      <4>2. SimTypes
        BY DEF SimInv
      <4> QED BY <2>7, <4>1, <4>2, SwapKeeps DEF Kept
    <3> QED BY <3>1, <3>2
  <2> QED BY <1>1, <1>11, <2>1, <2>2, <2>5, <2>7, <2>9
<1> HIDE DEF state
<1> QED BY <1>8, <1>9, <1>10, <1>11

\* The module and the task list are read once.
LEMMA Fixed ==
  ASSUME UNCHANGED inputs
  PROVE  /\ alg' = alg /\ job' = job /\ ClassMap' = ClassMap
         /\ \A t : Class(t)' = Class(t) /\ Runs(t)' = Runs(t)
<1>1. alg' = alg /\ job' = job
  BY DEF inputs
<1>2. \A t : Class(t)' = Class(t) /\ Runs(t)' = Runs(t)
  BY <1>1 DEF Class, Runs
<1>3. ClassMap' = ClassMap
  BY <1>2 DEF ClassMap
<1> QED BY <1>1, <1>2, <1>3

\* What the facts about the single tasks need of a handler.
LEMMA KeptParts ==
  ASSUME SimTypes, Bursts, UNCHANGED inputs, Kept,
         \A t \in Tasks : task'[t].state # "FINISHED" => task[t].state # "FINISHED"
  PROVE  /\ Bursts'
         /\ (job \in [Tasks -> Jobs])' /\ (task = [t \in Tasks |-> task[t]])'
         /\ (\A t \in Tasks : task[t] \in Fields(Runs(t)))'
<1>1. \A t : Runs(t)' = Runs(t)
  BY Fixed
<1>2. job' = job
  BY Fixed
<1>3. ASSUME NEW t \in Tasks
      PROVE  /\ task'[t].times[2 * Runs(t)' - 1] = 0
             /\ task'[t].state # "FINISHED" => \E m \in 0 .. Runs(t)' - 1 : task'[t].index = 2 * m
  BY <1>1, <1>3 DEF Kept, Bursts
<1>4. Bursts'
  BY <1>3 DEF Bursts
<1>5. (\A t \in Tasks : task[t] \in Fields(Runs(t)))'
  BY <1>1 DEF Kept
<1>6. (job \in [Tasks -> Jobs])' /\ (task = [t \in Tasks |-> task[t]])'
  BY <1>2 DEF Kept, SimTypes
<1> QED BY <1>4, <1>5, <1>6

\* StateMap and ClassMap have the types that the lemmas on rings ask for.
LEMMA MapTypes ==
  ASSUME SimTypes
  PROVE  /\ ClassMap \in [Tasks -> Classes] /\ StateMap \in [Tasks -> States]
         /\ queue \in Rings /\ running \in Tasks \cup {NoTask}
         /\ \A t \in Tasks : ClassMap[t] = Class(t) /\ StateMap[t] = task[t].state
<1>1. \A t \in Tasks : Class(t) \in Classes
  BY ClassType
<1>2. \A t \in Tasks : task[t].state \in States
  BY DEF SimTypes, Fields
<1> QED BY <1>1, <1>2 DEF ClassMap, StateMap, SimTypes, Rings

-----------------------------------------------------------------------------
(* OnStartTick.                                                            *)

\* An arrival keeps the agreement of rings, states and running task.
LEMMA OnStartTickAgrees ==
  ASSUME SimInv, OnStartTick, NEW t, t = list[at]
  PROVE  /\ SimTypes' /\ Bursts' /\ SchedulerAgrees' /\ OneRing'
         /\ \A u \in Tasks : /\ task'[u].state = "FINISHED" <=> task[u].state = "FINISHED"
                             /\ u # t /\ task[u].state = "BLOCKED" => task'[u].state = "BLOCKED"
         /\ task[t].next # time /\ task[t].state = "BLOCKED" => task'[t].state = "BLOCKED"
         /\ \A c \in Classes : queue[c] # <<>> => HeadOf(queue'[c]) = HeadOf(queue[c])
         /\ \/ queue' = queue
            \/ /\ task[t].next = time
               /\ queue' = [queue EXCEPT ![Class(t)] = Append(queue[Class(t)], t)]
<1> DEFINE Idle == /\ UNCHANGED <<queue, running>>
                   /\ \A u \in Tasks : task'[u].state = IF u = t /\ task[u].state = "INIT"
                                                        THEN "NOT_ARRIVED" ELSE task[u].state
           Arrives == /\ task[t].next = time
                      /\ task[t].state \in {"INIT", "NOT_ARRIVED", "BLOCKED"}
                      /\ queue' = [queue EXCEPT ![Class(t)] = Append(queue[Class(t)], t)]
                      /\ running' = HeadOf(queue'[Class(t)])
                      /\ \A u \in Tasks : task'[u].state = IF u = running' THEN "RUNNING"
                                                           ELSE IF u = running THEN "READY"
                                                           ELSE IF u = t THEN "READY"
                                                           ELSE task[u].state
<1>1. t \in Tasks /\ Kept /\ (Idle \/ Arrives)
  BY StartTickKeeps
<1>2. /\ SimTypes /\ Bursts /\ SchedulerAgrees /\ OneRing
      /\ UNCHANGED inputs /\ phase = "start" /\ phase' = "start"
  BY DEF SimInv, OnStartTick
<1>3. Leaving = {} /\ Leaving' = {}
  <2>1. (phase \in {"start", "exit"} => Leaving = {})'
    BY NobodyLeaves, PTL
  <2> QED BY <1>2, <2>1, NobodyLeaves
<1>4. Agreed(ClassMap, StateMap, queue, running, {})
  BY <1>2, <1>3, AgreedIsAgrees DEF Agrees
<1>5. /\ ClassMap \in [Tasks -> Classes] /\ StateMap \in [Tasks -> States]
      /\ queue \in Rings /\ running \in Tasks \cup {NoTask}
      /\ \A u \in Tasks : ClassMap[u] = Class(u) /\ StateMap[u] = task[u].state
  BY <1>2, MapTypes
<1>6. ClassMap' = ClassMap /\ alg' = alg
  BY <1>2, Fixed
<1>7. /\ queue' \in Rings /\ running' \in Tasks \cup {NoTask}
      /\ Agreed(ClassMap, StateMap', queue', running', {})
      /\ \A u \in Tasks : /\ task'[u].state = "FINISHED" <=> task[u].state = "FINISHED"
                          /\ u # t /\ task[u].state = "BLOCKED" => task'[u].state = "BLOCKED"
      /\ task[t].next # time /\ task[t].state = "BLOCKED" => task'[t].state = "BLOCKED"
      /\ \A c \in Classes : queue[c] # <<>> => HeadOf(queue'[c]) = HeadOf(queue[c])
      /\ \/ queue' = queue
         \/ /\ task[t].next = time
            /\ queue' = [queue EXCEPT ![Class(t)] = Append(queue[Class(t)], t)]
      /\ OneRing'
  <2>1. CASE Idle
    <3>1. \A u \in Tasks : StateMap'[u] = task'[u].state
      BY DEF StateMap
    <3>2. \A u \in Tasks : /\ StateMap'[u] = "RUNNING" <=> StateMap[u] = "RUNNING"
                           /\ StateMap'[u] \in Live <=> StateMap[u] \in Live
      BY <1>5, <2>1, <3>1 DEF Live
    <3>3. Agreed(ClassMap, StateMap', queue, running, {})
      <4>1. \A c \in Classes :
              {u \in Tasks : (StateMap'[u] \in Live \/ u \in {}) /\ ClassMap[u] = c}
                = {u \in Tasks : (StateMap[u] \in Live \/ u \in {}) /\ ClassMap[u] = c}
        BY <3>2
      <4>2. running # NoTask => (StateMap'[running] = "RUNNING" <=> StateMap[running] = "RUNNING")
        BY <1>5, <3>2
      <4> QED BY <1>4, <3>2, <4>1, <4>2 DEF Agreed
    <3>4. OneRing'
      BY <1>2, <1>6, <2>1 DEF OneRing
    <3>5. \A u \in Tasks : /\ task'[u].state = "FINISHED" <=> task[u].state = "FINISHED"
                           /\ task[u].state = "BLOCKED" => task'[u].state = "BLOCKED"
      BY <2>1
    <3>6. queue' = queue /\ running' = running
      BY <2>1
    <3> QED BY <1>1, <1>5, <3>3, <3>4, <3>5, <3>6
  <2>2. CASE Arrives
    <3>0. RingIs(queue', queue, Class(t), Append(queue[Class(t)], t)) /\ queue' \in Rings
      <4>1. Class(t) \in Classes /\ queue[Class(t)] \in Seq(Tasks)
        BY <1>1, <1>2, <1>5, ClassType DEF Rings
      <4>2. Append(queue[Class(t)], t) \in Seq(Tasks)
        BY <1>1, <4>1, AppendProperties
      <4> QED BY <1>5, <2>2, <4>1, <4>2 DEF Rings, RingIs
    <3>1. /\ \A c \in Classes : queue[c] # <<>> => HeadOf(queue'[c]) = HeadOf(queue[c])
          /\ queue' \in Rings /\ running' \in Tasks
          /\ Agreed(ClassMap, StateMap', queue', running', {})
          /\ running' = t \/ StateMap[running'] \in Live
      <4>1. StateMap[t] \notin Live /\ ClassMap[t] = Class(t)
        BY <1>1, <1>5, <2>2 DEF Live
      <4> HIDE DEF Arrives
      <4>2. /\ RingIs(queue', queue, ClassMap[t], Append(queue[ClassMap[t]], t))
            /\ running' = HeadOf(queue'[ClassMap[t]])
        BY <2>2, <3>0, <4>1 DEF Arrives
      <4>4. SwapIs(StateMap', StateMap, running, running', t)
        <5>1. \A u \in Tasks : StateMap'[u] = task'[u].state
          BY DEF StateMap
        <5> QED BY <1>5, <2>2, <5>1 DEF Arrives, SwapIs
      <4>3. t \in Tasks
        BY <1>1
      <4>5. Enqueued(ClassMap, StateMap, queue, running, t, queue', running', StateMap')
        BY <1>4, <1>5, <4>1, <4>2, <4>3, <4>4 DEF Enqueued
      <4> QED BY <3>0, <4>5, EnqueueAgrees
    <3>2. \A u \in Tasks : task'[u].state = IF u = running' THEN "RUNNING"
                                            ELSE IF u = running THEN "READY"
                                            ELSE IF u = t THEN "READY" ELSE task[u].state
      BY <2>2
    <3>3. running \in Tasks => task[running].state = "RUNNING"
      BY <1>4, <1>5, NoTaskIsNone DEF Agreed
    <3>4. running' = t \/ task[running'].state \in Live
      BY <1>5, <3>1
    <3>5. \A u \in Tasks : /\ task'[u].state = "FINISHED" <=> task[u].state = "FINISHED"
                           /\ u # t /\ task[u].state = "BLOCKED" => task'[u].state = "BLOCKED"
      BY <1>1, <2>2, <3>1, <3>2, <3>3, <3>4 DEF Live
    <3>6. OneRing'
      <4>1. alg \notin ByPriority => Class(t) = 0
        BY <1>1, <1>2, ClassType
      <4> QED BY <1>6, <2>2, <4>1 DEF OneRing
    <3> QED BY <2>2, <3>1, <3>5, <3>6
  <2> QED BY <1>1, <2>1, <2>2
<1> HIDE DEF Idle, Arrives
<1>8. Bursts' /\ (job \in [Tasks -> Jobs])' /\ (task = [u \in Tasks |-> task[u]])'
      /\ (\A u \in Tasks : task[u] \in Fields(Runs(u)))'
  BY <1>1, <1>2, <1>7, KeptParts
<1>9. SimTypes'
  <2>1. /\ phase' = phase /\ at' = at + 1 /\ time' = time /\ list' = list
        /\ finished' = finished /\ ran' = ran
    BY DEF OnStartTick
  <2>2. /\ phase \in {"start", "run", "end", "exit"}
        /\ at \in Nat \ {0} /\ time \in Nat
        /\ list \in Seq(Tasks) /\ finished \in Seq(Tasks)
        /\ ran \in Tasks \cup {NoTask}
    BY <1>2 DEF SimTypes
  <2>3. at' \in Nat \ {0}
    BY <2>1, <2>2
  <2> QED BY <1>7, <1>8, <2>1, <2>2, <2>3 DEF SimTypes, Rings
<1>10. SchedulerAgrees'
  <2>1. Agrees'
    BY <1>3, <1>6, <1>7 DEF Agrees
  <2>2. (SimTypes => (SchedulerAgrees <=> Agrees))'
    BY AgreedIsAgrees, PTL
  <2> QED BY <1>9, <2>1, <2>2
<1> QED BY <1>7, <1>8, <1>9, <1>10

\* What the lists say, with numbers for the lengths.
LEMMA ListTypes ==
  ASSUME SimTypes
  PROVE  /\ Len(list) \in Nat /\ Len(finished) \in Nat /\ at \in Nat /\ at >= 1 /\ time \in Nat
         /\ \A i \in 1 .. Len(list) : list[i] \in Tasks
         /\ \A i \in 1 .. Len(finished) : finished[i] \in Tasks
         /\ Len(list \o finished) = Len(list) + Len(finished)
         /\ \A i \in 1 .. Len(list) : (list \o finished)[i] = list[i]
         /\ \A i \in 1 .. Len(list) + Len(finished) :
              i > Len(list) => (list \o finished)[i] = finished[i - Len(list)]
         /\ \A t \in Tasks : task[t].next \in Nat /\ t \in Nat
         /\ queue[0] \in Seq(Tasks) /\ Len(queue[0]) \in Nat
         /\ \A i \in 1 .. Len(queue[0]) : queue[0][i] \in Tasks
<1>1. list \in Seq(Tasks) /\ finished \in Seq(Tasks) /\ at \in Nat \ {0} /\ time \in Nat
      /\ queue[0] \in Seq(Tasks)
  BY NoTaskIsNone DEF SimTypes
<1>2. Len(list) \in Nat /\ Len(finished) \in Nat /\ Len(queue[0]) \in Nat
  BY <1>1, LenProperties
<1>3. /\ \A i \in 1 .. Len(list) : list[i] \in Tasks
      /\ \A i \in 1 .. Len(finished) : finished[i] \in Tasks
      /\ \A i \in 1 .. Len(queue[0]) : queue[0][i] \in Tasks
  BY <1>1, ElementOfSeq
<1>4. /\ Len(list \o finished) = Len(list) + Len(finished)
      /\ \A i \in 1 .. Len(list) + Len(finished) :
           (list \o finished)[i] = IF i <= Len(list) THEN list[i] ELSE finished[i - Len(list)]
  BY <1>1, ConcatProperties
<1>5. \A m, n \in Nat : /\ \A i \in 1 .. m : i \in 1 .. m + n /\ i <= m
                        /\ \A i \in 1 .. m + n : i > m => ~ (i <= m)
  OBVIOUS
<1>6. \A t \in Tasks : task[t].next \in Nat /\ t \in Nat
  BY TasksAssumption DEF SimTypes, Fields, Tasks
<1>7. at \in Nat /\ at >= 1
  BY <1>1
<1> QED BY <1>1, <1>2, <1>3, <1>4, <1>5, <1>6, <1>7

\* OnStartTick keeps the invariant.
LEMMA StartTickInvariant == SimInv /\ OnStartTick => SimInv'
<1> SUFFICES ASSUME SimInv, OnStartTick PROVE SimInv'
  OBVIOUS
<1> DEFINE t == list[at]
<1>1. /\ SimTypes' /\ Bursts' /\ SchedulerAgrees' /\ OneRing'
      /\ \A u \in Tasks : /\ task'[u].state = "FINISHED" <=> task[u].state = "FINISHED"
                          /\ u # t /\ task[u].state = "BLOCKED" => task'[u].state = "BLOCKED"
      /\ task[t].next # time /\ task[t].state = "BLOCKED" => task'[t].state = "BLOCKED"
      /\ \A c \in Classes : queue[c] # <<>> => HeadOf(queue'[c]) = HeadOf(queue[c])
      /\ \/ queue' = queue
         \/ /\ task[t].next = time
            /\ queue' = [queue EXCEPT ![Class(t)] = Append(queue[Class(t)], t)]
  BY OnStartTickAgrees
<1>2. t \in Tasks /\ at \in 1 .. Len(list) /\ Kept
  BY StartTickKeeps
<1>3. /\ phase = "start" /\ phase' = "start" /\ time' = time /\ at' = at + 1
      /\ list' = list /\ finished' = finished /\ ran' = ran
      /\ UNCHANGED inputs
  BY DEF OnStartTick
<1>4. Leaving = {} /\ Leaving' = {}
  <2>1. (phase \in {"start", "exit"} => Leaving = {})'
    BY NobodyLeaves, PTL
  <2> QED BY <1>3, <2>1, NobodyLeaves
<1>5. SimTypes /\ Walks /\ Ran /\ Order /\ SchedulerAgrees /\ OneRing
  BY DEF SimInv
<1>6. alg' = alg /\ \A u : Class(u)' = Class(u)
  BY <1>3, Fixed
<1>7. \A u \in Tasks : task'[u].next = task[u].next
  BY <1>2 DEF Kept
<1> HIDE DEF t
<1>13. \A u \in Tasks : /\ task'[u].state = "FINISHED" <=> task[u].state = "FINISHED"
                        /\ task[u].state = "BLOCKED" /\ task[u].next # time =>
                             task'[u].state = "BLOCKED"
  BY <1>1
<1>14. \A c \in Classes : queue[c] # <<>> => HeadOf(queue'[c]) = HeadOf(queue[c])
  BY <1>1
<1>8. Walks'
  <2>1. \A i \in 1 .. Len(finished) : task[finished[i]].state = "FINISHED" /\ finished[i] \in Tasks
    BY <1>5, ListTypes DEF Walks
  <2> QED BY <1>1, <1>3, <1>4, <1>5, <2>1 DEF Walks
<1>9. Leavers'
  BY <1>4 DEF Leavers
<1>10. Ran'
  <2>1. CASE ran = NoTask
    BY <1>3, <2>1 DEF Ran
  <2>2. CASE ran \in Tasks /\ ran = HeadOf(queue[Class(ran)])
    <3>1. Class(ran) \in Classes /\ queue[Class(ran)] \in Seq(Tasks)
      BY <1>5, <2>2, ClassType DEF SimTypes
    <3>2. queue[Class(ran)] # <<>>
      BY <2>2, <3>1, NoTaskIsNone
    <3>3. ran = HeadOf(queue'[Class(ran)'])
      BY <1>3, <1>6, <1>14, <2>2, <3>1, <3>2
    <3> QED BY <1>3, <1>5, <2>2, <3>3 DEF Ran
  <2>3. CASE ran \in Tasks /\ Gone(ran)
    <3>1. \/ task'[ran].state = "FINISHED"
          \/ task'[ran].state = "BLOCKED" /\ task'[ran].next > time'
      <4>1. CASE task[ran].state = "FINISHED"
        BY <1>13, <2>3, <4>1
      <4>2. CASE task[ran].state = "BLOCKED" /\ task[ran].next > time
        <5>1. task[ran].next # time
          BY <1>5, <2>3, <4>2, ListTypes
        <5> QED BY <1>3, <1>7, <1>13, <2>3, <4>2, <5>1
      <4> QED BY <2>3, <4>1, <4>2 DEF Gone
    <3> QED BY <1>3, <1>5, <2>3, <3>1 DEF Ran, Gone
  <2> QED BY <1>3, <1>5, <2>1, <2>2, <2>3 DEF Ran
<1>11. Order'
  <2> SUFFICES ASSUME alg \notin Timed PROVE Order'
    BY <1>6 DEF Order
  <2> DEFINE q == queue[0]
             Late(u, k) == task[u].next = time => \A p \in k .. Len(list) : u < list[p]
  <2>1. PICK n \in Nat, m \in Nat : n = Len(q) /\ m = Len(list)
    BY <1>5, ListTypes
  <2>2. /\ at \in 1 .. m /\ \A i \in 1 .. n : q[i] \in Tasks
        /\ q \in Seq(Tasks) /\ time \in Nat
        /\ \A u \in Tasks : task[u].next \in Nat /\ u \in Nat
        /\ \A i \in 1 .. m : list[i] \in Tasks
    BY <1>2, <1>5, <2>1, ListTypes
  <2>3. /\ \A i, j \in 1 .. n : i < j => Before(q[i], q[j])
        /\ \A i \in 1 .. n : task[q[i]].next <= time /\ Late(q[i], at)
    BY <1>3, <1>4, <1>5, <2>1 DEF Order
  <2>5. \A u \in Tasks : Late(u, at)  => Late(u, at + 1)
    <3>1. \A p \in at + 1 .. m : p \in at .. m
      BY <2>2
    <3> QED BY <2>1, <3>1
  <2> HIDE DEF Late
  <2>6. SUFFICES /\ \A i, j \in 1 .. Len(queue'[0]) : i < j => Before(queue'[0][i], queue'[0][j])
                 /\ \A i \in 1 .. Len(queue'[0]) : /\ queue'[0][i] \in Tasks
                                                   /\ task[queue'[0][i]].next <= time
                                                   /\ Late(queue'[0][i], at + 1)
    <3> HIDE DEF q
    <3>1. \A i \in 1 .. Len(queue'[0]) : queue'[0][i] \in Tasks
      BY <2>6
    <3>2. \A i, j \in 1 .. Len(queue'[0]) :
            LET a == queue'[0][i]
                b == queue'[0][j]
            IN  i < j => \/ task'[a].next < task'[b].next
                         \/ task'[a].next = task'[b].next /\ a < b
      BY <1>7, <2>6, <3>1 DEF Before
    <3>3. \A i \in 1 .. Len(queue'[0]) :
            LET u == queue'[0][i]
            IN  /\ task'[u].next <= time'
                /\ task'[u].next = time' => \A p \in at' .. Len(list') : u < list'[p]
      BY <1>3, <1>7, <2>6, <3>1 DEF Late
    <3> QED BY <1>3, <1>4, <1>6, <3>2, <3>3 DEF Order, Before
  <2>7. CASE queue' = queue
    BY <2>1, <2>2, <2>3, <2>5, <2>7
  <2>8. CASE /\ task[t].next = time
             /\ queue' = [queue EXCEPT ![Class(t)] = Append(queue[Class(t)], t)]
    <3>1. Class(t) = 0 /\ 0 \in Classes /\ queue \in [Classes -> Seq(Tasks)]
      BY <1>2, <1>5, ClassType, NoTaskIsNone DEF SimTypes, Timed, ByPriority
    <3>2. queue'[0] = Append(q, t)
      BY <2>8, <3>1
    <3> DEFINE r == Append(q, t)
    <3>3. Len(r) = n + 1 /\ r[n + 1] = t /\ \A i \in 1 .. n : r[i] = q[i]
      BY <1>2, <2>1, <2>2, AppendProperties
    <3> HIDE DEF r, q
    <3>4. \A i \in 1 .. n : Before(q[i], t)
      <4>1. ASSUME NEW i \in 1 .. n, task[q[i]].next = time PROVE q[i] < t
        <5>1. at \in at .. m
          BY <2>2
        <5> QED BY <2>1, <2>3, <4>1, <5>1 DEF Late, t
      <4>2. \A i \in 1 .. n : task[q[i]].next <= time /\ task[q[i]].next \in Nat
        BY <2>2, <2>3
      <4> QED BY <2>2, <2>8, <4>1, <4>2 DEF Before
    <3>5. Late(t, at + 1)
      <4>1. ASSUME NEW p \in at + 1 .. m PROVE t < list[p]
        <5>1. p \in 1 .. m /\ at < p
          BY <2>2
        <5> QED BY <1>5, <2>1, <2>2, <5>1 DEF Walks, t
      <4> QED BY <2>1, <4>1 DEF Late
    <3>6. \A i \in 1 .. n + 1 : i \in 1 .. n \/ i = n + 1
      OBVIOUS
    <3>7. \A i, j \in 1 .. n + 1 : i < j => i \in 1 .. n
      OBVIOUS
    <3>8. \A i, j \in 1 .. n + 1 : i < j => Before(r[i], r[j])
      BY <2>3, <3>3, <3>4, <3>6, <3>7
    <3>9. \A i \in 1 .. n + 1 : /\ r[i] \in Tasks /\ task[r[i]].next <= time
                                /\ Late(r[i], at + 1)
      <4>1. task[t].next <= time
        BY <2>2, <2>8
      <4> QED BY <1>2, <2>2, <2>3, <2>5, <3>3, <3>5, <3>6, <4>1
    <3> QED BY <3>2, <3>3, <3>8, <3>9 DEF r
  <2> QED BY <1>1, <2>7, <2>8
<1>12. RightTaskRuns'
  BY <1>3 DEF RightTaskRuns
<1> QED BY <1>1, <1>8, <1>9, <1>10, <1>11, <1>12 DEF SimInv

-----------------------------------------------------------------------------
(* SchedulerTick.                                                          *)

\* A handler that leaves the tasks alone keeps what is known of each.
LEMMA KeptWhenUnchanged ==
  ASSUME SimTypes, task' = task
  PROVE  Kept
BY DEF SimTypes, Kept

\* What a turn of the ring c does.
TurnTick(c) ==
  /\ c \in Classes /\ queue[c] # <<>>
  /\ Turned(ClassMap, StateMap, queue, running, c, queue', running', StateMap')
  /\ queue'[c] = Turn(queue[c]) /\ queue' \in Rings
  /\ Kept
  /\ \A u \in Tasks : task'[u].state = IF u = running' THEN "RUNNING"
                                       ELSE IF u = running THEN "READY" ELSE task[u].state

\* With no ring to turn nobody ran, so that nothing changes.
LEMMA SchedulerTickKeeps ==
  ASSUME SimInv, SchedulerTick
  PROVE  \/ /\ UNCHANGED <<queue, running, task>>
            /\ alg \notin Timed \/ (Busy(queue) = {} /\ running = NoTask)
         \/ alg \in Timed /\ \E c \in Turns(alg, queue) : TurnTick(c)
<1> DEFINE Takes(c) == /\ alg \in Timed /\ queue' = [queue EXCEPT ![c] = Turn(queue[c])]
                       /\ running' = Head(Turn(queue[c]))
                       /\ task' = Swap(task, running, Head(Turn(queue[c])))
<1>1. /\ SimTypes /\ SchedulerAgrees /\ phase = "start"
  BY DEF SimInv, SchedulerTick
<1>2. Leaving = {} /\ Agreed(ClassMap, StateMap, queue, running, {})
  <2>1. Leaving = {}
    BY <1>1, NobodyLeaves
  <2> QED BY <1>1, <2>1, AgreedIsAgrees DEF Agrees
<1>3. /\ ClassMap \in [Tasks -> Classes] /\ StateMap \in [Tasks -> States]
      /\ queue \in Rings /\ running \in Tasks \cup {NoTask}
      /\ \A u \in Tasks : ClassMap[u] = Class(u) /\ StateMap[u] = task[u].state
  BY <1>1, MapTypes
<1>4. /\ task = [u \in Tasks |-> task[u]]
      /\ \A u \in Tasks : task[u] \in Fields(Runs(u))
  BY <1>1 DEF SimTypes
<1>5. CASE alg \notin Timed /\ UNCHANGED <<queue, running, task>>
  BY <1>5
<1>6. CASE alg \in Timed /\ Turns(alg, queue) = {} /\ running' = NoTask
           /\ task' = Swap(task, running, NoTask) /\ UNCHANGED queue
  <2>1. Busy(queue) = {}
    BY <1>6, TurnsAreBusy
  <2>2. running = NoTask
    <3>1. \A c \in Classes : HeadOf(queue[c]) = NoTask
      BY <2>1 DEF Busy, HeadOf
    <3> QED BY <1>2, <1>3, <3>1 DEF Agreed
  <2>3. task' = task
    <3>1. task' = [u \in Tasks |-> task[u]]
      BY <1>6, <2>2, NoTaskIsNone DEF Swap
    <3> QED BY <1>4, <3>1
  <2> QED BY <1>6, <2>1, <2>2, <2>3
<1>7. ASSUME NEW c \in Turns(alg, queue), Takes(c) PROVE TurnTick(c)
  <2>1. c \in Classes /\ queue[c] # <<>> /\ queue[c] \in Seq(Tasks) /\ IsInjective(queue[c])
    BY <1>2, <1>3, TurnsAreBusy DEF Rings, Agreed, Busy
  <2>2. Turn(queue[c]) \in Seq(Tasks)
    BY <2>1, TurnRing
  <2>3. RingIs(queue', queue, c, Turn(queue[c])) /\ queue' \in Rings
    BY <1>3, <1>7, <2>1, <2>2 DEF Rings, RingIs
  <2>4. queue'[c] = Turn(queue[c])
    BY <2>3 DEF RingIs
  <2>5. task' = Swap(task, running, running')
    BY <1>7
  <2>6. /\ Kept
        /\ \A u \in Tasks : task'[u].state = IF u = running' THEN "RUNNING"
                                             ELSE IF u = running THEN "READY"
                                             ELSE task[u].state
    BY <1>1, <1>4, <2>5, SwapKeeps DEF Kept
  <2>7. SwapIs(StateMap', StateMap, running, running', running')
    <3>1. \A u \in Tasks : StateMap'[u] = task'[u].state
      BY DEF StateMap
    <3> QED BY <1>3, <2>6, <3>1 DEF SwapIs
  <2>8. running' = Head(queue'[c])
    BY <1>7, <2>4
  <2>9. Turned(ClassMap, StateMap, queue, running, c, queue', running', StateMap')
    BY <1>2, <1>3, <2>1, <2>3, <2>7, <2>8 DEF Turned
  <2> QED BY <2>1, <2>3, <2>4, <2>6, <2>9 DEF TurnTick
<1>8. \/ alg \notin Timed /\ UNCHANGED <<queue, running, task>>
      \/ /\ alg \in Timed /\ Turns(alg, queue) = {} /\ running' = NoTask
         /\ task' = Swap(task, running, NoTask) /\ UNCHANGED queue
      \/ \E c \in Turns(alg, queue) : Takes(c)
  BY DEF SchedulerTick
<1>9. CASE \E c \in Turns(alg, queue) : Takes(c)
  <2>1. alg \in Timed
    BY <1>9
  <2> HIDE DEF Takes
  <2> QED BY <1>7, <1>9, <2>1
<1> QED BY <1>5, <1>6, <1>8, <1>9

\* The timer keeps the agreement of rings, states and running task.
LEMMA SchedulerTickAgrees ==
  ASSUME SimInv, SchedulerTick
  PROVE  /\ Leaving = {} /\ Leaving' = {}
         /\ Kept /\ queue' \in Rings /\ running' \in Tasks \cup {NoTask}
         /\ Agreed(ClassMap, StateMap, queue, running, {})
         /\ Agreed(ClassMap, StateMap', queue', running', {})
         /\ \A d \in Classes : Range(queue'[d]) = Range(queue[d])
         /\ \A u \in Tasks : /\ task'[u].state \in Live <=> task[u].state \in Live
                             /\ task'[u].state = "FINISHED" <=> task[u].state = "FINISHED"
<1>1. /\ SimTypes /\ SchedulerAgrees /\ phase = "start" /\ phase' = "run" /\ at' = 1
  BY DEF SimInv, SchedulerTick
<1>2. Leaving = {} /\ Leaving' = {}
  <2>1. 1 .. at' - 1 = {}
    BY <1>1
  <2> QED BY <1>1, <2>1, NobodyLeaves DEF Leaving
<1>3. Agreed(ClassMap, StateMap, queue, running, {})
  BY <1>1, <1>2, AgreedIsAgrees DEF Agrees
<1>4. /\ ClassMap \in [Tasks -> Classes] /\ StateMap \in [Tasks -> States]
      /\ queue \in Rings /\ running \in Tasks \cup {NoTask}
      /\ \A u \in Tasks : ClassMap[u] = Class(u) /\ StateMap[u] = task[u].state
  BY <1>1, MapTypes
<1>5. CASE UNCHANGED <<queue, running, task>>
  <2>1. StateMap' = StateMap
    BY <1>5 DEF StateMap
  <2>2. Kept
    BY <1>1, <1>5, KeptWhenUnchanged
  <2> QED BY <1>2, <1>3, <1>4, <1>5, <2>1, <2>2
<1>6. ASSUME NEW c \in Turns(alg, queue), TurnTick(c)
      PROVE  /\ Kept /\ queue' \in Rings /\ running' \in Tasks \cup {NoTask}
             /\ Agreed(ClassMap, StateMap', queue', running', {})
             /\ \A d \in Classes : Range(queue'[d]) = Range(queue[d])
             /\ \A u \in Tasks : /\ task'[u].state \in Live <=> task[u].state \in Live
                                 /\ task'[u].state = "FINISHED" <=> task[u].state = "FINISHED"
  <2>1. /\ Turned(ClassMap, StateMap, queue, running, c, queue', running', StateMap')
        /\ Kept /\ queue' \in Rings
        /\ \A u \in Tasks : task'[u].state = IF u = running' THEN "RUNNING"
                                             ELSE IF u = running THEN "READY"
                                             ELSE task[u].state
    BY <1>6 DEF TurnTick
  <2>2. /\ running' \in Tasks
        /\ Agreed(ClassMap, StateMap', queue', running', {})
        /\ \A d \in Classes : Range(queue'[d]) = Range(queue[d])
    BY <2>1, TurnAgrees
  <2>3. \A u \in Tasks : StateMap'[u] = task'[u].state
    BY DEF StateMap
  <2>4. \A u \in Tasks : ClassMap[u] \in Classes
    BY <1>4
  <2>5. \A u \in Tasks : u \in Range(queue[ClassMap[u]]) <=> StateMap[u] \in Live
    BY <1>3, <2>4 DEF Agreed
  <2>6. \A u \in Tasks : u \in Range(queue'[ClassMap[u]]) <=> StateMap'[u] \in Live
    BY <2>2, <2>4 DEF Agreed
  <2>7. \A u \in Tasks : task'[u].state \in Live <=> task[u].state \in Live
    BY <1>4, <2>2, <2>3, <2>4, <2>5, <2>6
  <2>8. \A u \in Tasks : task'[u].state = "FINISHED" <=> task[u].state = "FINISHED"
    BY <2>1, <2>7 DEF Live
  <2> QED BY <2>1, <2>2, <2>7, <2>8
<1>7. CASE \E c \in Turns(alg, queue) : TurnTick(c)
  BY <1>2, <1>3, <1>6, <1>7
<1> QED BY <1>5, <1>7, SchedulerTickKeeps

\* The task that runs is the one the algorithm stands for.
LEMMA SchedulerTickChooses == SimInv /\ SchedulerTick => RightTaskRuns'
<1> SUFFICES ASSUME SimInv, SchedulerTick PROVE RightTaskRuns'
  OBVIOUS
<1>1. /\ SimTypes /\ Order /\ Ran /\ OneRing /\ phase = "start"
      /\ time' = time + 1 /\ ran' = ran /\ UNCHANGED inputs
  BY DEF SimInv, SchedulerTick
<1>2. /\ Leaving = {} /\ Kept
      /\ Agreed(ClassMap, StateMap, queue, running, {})
      /\ Agreed(ClassMap, StateMap', queue', running', {})
      /\ \A d \in Classes : Range(queue'[d]) = Range(queue[d])
      /\ \A u \in Tasks : task'[u].state \in Live <=> task[u].state \in Live
  BY SchedulerTickAgrees
<1>3. alg' = alg /\ \A u : Class(u)' = Class(u)
  BY <1>1, Fixed
<1>4. /\ \A u \in Tasks : Class(u) \in Classes /\ (alg \notin ByPriority => Class(u) = 0)
      /\ \A u \in Tasks : ClassMap[u] = Class(u) /\ StateMap[u] = task[u].state
      /\ \A u \in Tasks : StateMap'[u] = task'[u].state
      /\ queue \in Rings
  BY <1>1, ClassType, MapTypes DEF StateMap
<1>5. \A u \in Tasks : u \in Range(queue[Class(u)]) <=> task[u].state \in Live
  BY <1>2, <1>4 DEF Agreed
<1>6. \A u \in Tasks : u \in Range(queue'[Class(u)]) <=> task'[u].state \in Live
  BY <1>2, <1>4, <1>5
<1>7. ASSUME NEW u \in Tasks, task'[u].state = "READY"
      PROVE  Class(u) \in Busy(queue) /\ queue[Class(u)] # <<>>
  <2>1. u \in Range(queue[Class(u)])
    BY <1>2, <1>5, <1>7 DEF Live
  <2>2. Range(<<>>) = {}
    BY DEF Range
  <2>3. queue[Class(u)] # <<>>
    BY <2>1, <2>2
  <2> QED BY <1>4, <2>3 DEF Busy
\* Who ran before is the head of its ring or in no ring.
<1>8. \/ ran = NoTask
      \/ /\ ran \in Tasks /\ queue[Class(ran)] # <<>>
         /\ ran = queue[Class(ran)][1] /\ ran = HeadOf(queue[Class(ran)])
      \/ ran \in Tasks /\ ran \notin Range(queue'[Class(ran)])
  <2>1. ASSUME ran \in Tasks, ran = HeadOf(queue[Class(ran)])
        PROVE  queue[Class(ran)] # <<>> /\ ran = queue[Class(ran)][1]
    <3>1. queue[Class(ran)] \in Seq(Tasks)
      BY <1>4, <2>1 DEF Rings
    <3> QED BY <2>1, <3>1, NoTaskIsNone
  <2>2. ASSUME ran \in Tasks, Gone(ran) PROVE ran \notin Range(queue'[Class(ran)])
    <3>1. task[ran].state \notin Live
      BY <2>2 DEF Gone, Live
    <3> QED BY <1>2, <1>6, <2>2, <3>1
  <2>3. \/ ran = NoTask
        \/ ran \in Tasks /\ ran = HeadOf(queue[Class(ran)])
        \/ ran \in Tasks /\ Gone(ran)
    BY <1>1 DEF Ran
  <2> QED BY <2>1, <2>2, <2>3
<1> DEFINE ready == {t \in Tasks : task'[t].state = "READY"}
           Idle == ready # {} => running' # NoTask
           Highest == alg = "prr" => \A t \in ready : Class(t) <= Class(running')
           Successor == (alg \in {"rr", "prr"} /\ ran # NoTask /\ running' # NoTask) =>
                          (ran \in Range(queue'[Class(ran)]) /\ Class(ran) = Class(running') =>
                             Turn(From(queue'[Class(ran)], ran)) = queue'[Class(ran)])
           Stays == (alg \notin Timed /\ ran # NoTask) =>
                      (ran \in Range(queue'[Class(ran)]) => running' = ran)
           Arrivals == alg \notin Timed => \A i, j \in DOMAIN queue'[0] : i < j =>
                         LET a == queue'[0][i]
                             b == queue'[0][j]
                         IN  \/ task'[a].next < task'[b].next
                             \/ task'[a].next = task'[b].next /\ a < b
<1>9. SUFFICES Idle /\ Highest /\ Successor /\ Stays /\ Arrivals
  <2>1. alg' = alg /\ job' = job
    BY <1>1, Fixed
  <2> HIDE DEF ready
  <2>2. {t \in Tasks : task[t].state = "READY"}' = ready
    BY DEF ready
  <2> QED BY <1>1, <1>9, <2>1, <2>2 DEF RightTaskRuns, Queued, Class, Timed
<1>10. CASE /\ UNCHANGED <<queue, running, task>>
            /\ alg \notin Timed \/ (Busy(queue) = {} /\ running = NoTask)
  <2>1. CASE Busy(queue) = {} /\ running = NoTask /\ alg \in Timed
    <3>1. ready = {}
      BY <1>7, <2>1
    <3> HIDE DEF ready
    <3> QED BY <1>10, <2>1, <3>1
  <2>2. CASE alg \notin Timed
    <3>1. alg \notin ByPriority /\ alg # "prr" /\ alg # "rr"
      BY <2>2 DEF Timed, ByPriority
    <3>2. running = HeadOf(queue[0]) /\ queue[0] \in Seq(Tasks) /\ IsInjective(queue[0])
      BY <1>1, <1>2, <1>4, <3>1, NoTaskIsNone DEF OneRing, Rings, Agreed
    <3>3. Idle
      <4>1. ASSUME NEW u \in ready PROVE running # NoTask
        <5>1. queue[0] # <<>>
          BY <1>4, <1>7, <3>1
        <5> QED BY <3>2, <5>1, NoTaskIsNone
      <4> QED BY <1>10, <4>1
    <3>4. Stays
      <4>1. CASE ran \in Tasks /\ ran = HeadOf(queue[Class(ran)])
        BY <1>4, <1>10, <3>1, <3>2, <4>1
      <4> QED BY <1>8, <4>1
    <3>5. Arrivals
      <4>1. DOMAIN queue[0] = 1 .. Len(queue[0])
        BY <3>2, LenProperties
      <4>2. \A i, j \in 1 .. Len(queue[0]) : i < j => Before(queue[0][i], queue[0][j])
        BY <1>2, <1>1, <2>2 DEF Order
      <4> QED BY <1>10, <4>1, <4>2 DEF Before
    <3> HIDE DEF ready
    <3> QED BY <3>1, <3>3, <3>4, <3>5
  <2> QED BY <1>10, <2>1, <2>2
<1>11. CASE alg \in Timed /\ \E c \in Turns(alg, queue) : TurnTick(c)
  <2>1. PICK c \in Turns(alg, queue) : TurnTick(c)
    BY <1>11
  <2>2. /\ c \in Classes /\ queue[c] # <<>> /\ queue'[c] = Turn(queue[c])
        /\ Turned(ClassMap, StateMap, queue, running, c, queue', running', StateMap')
    BY <2>1 DEF TurnTick
  <2>3. running' \in Tasks /\ ClassMap[running'] = c
    BY <2>2, TurnAgrees
  <2>4. Class(running') = c /\ running' # NoTask
    BY <1>4, <2>3, NoTaskIsNone
  <2>5. Highest
    <3>1. alg = "prr" => \A d \in Busy(queue) : d <= c
      BY TurnsAreBusy
    <3> QED BY <1>7, <2>4, <3>1
  <2>6. Successor
    <3>1. ASSUME ran \in Tasks, queue[Class(ran)] # <<>>, ran = queue[Class(ran)][1],
                 Class(ran) = c
          PROVE  Turn(From(queue'[Class(ran)], ran)) = queue'[Class(ran)]
      <4>1. queue[c] \in Seq(Tasks) /\ IsInjective(queue[c])
        BY <1>2, <1>4, <2>2 DEF Rings, Agreed
      <4> QED BY <2>2, <3>1, <4>1, TurnRing
    <3> QED BY <1>8, <2>4, <3>1
  <2> HIDE DEF ready
  <2> QED BY <1>11, <2>4, <2>5, <2>6
<1> QED BY <1>10, <1>11, SchedulerTickKeeps

\* The timer keeps the invariant.
LEMMA SchedulerTickInvariant == SimInv /\ SchedulerTick => SimInv'
<1> SUFFICES ASSUME SimInv, SchedulerTick PROVE SimInv'
  OBVIOUS
<1>1. /\ SimTypes /\ Bursts /\ Walks /\ Ran /\ Order /\ OneRing
      /\ phase = "start" /\ phase' = "run" /\ at' = 1 /\ time' = time + 1
      /\ list' = list /\ finished' = finished /\ ran' = ran /\ UNCHANGED inputs
  BY DEF SimInv, SchedulerTick
<1>2. /\ Leaving = {} /\ Leaving' = {}
      /\ Kept /\ queue' \in Rings /\ running' \in Tasks \cup {NoTask}
      /\ Agreed(ClassMap, StateMap', queue', running', {})
      /\ \A u \in Tasks : task'[u].state = "FINISHED" <=> task[u].state = "FINISHED"
  BY SchedulerTickAgrees
<1>3. alg' = alg /\ job' = job /\ ClassMap' = ClassMap
  BY <1>1, Fixed
<1>4. Bursts' /\ (job \in [Tasks -> Jobs])' /\ (task = [u \in Tasks |-> task[u]])'
      /\ (\A u \in Tasks : task[u] \in Fields(Runs(u)))'
  BY <1>1, <1>2, KeptParts
<1>5. SimTypes'
  <2>1. /\ time \in Nat /\ list \in Seq(Tasks) /\ finished \in Seq(Tasks)
        /\ ran \in Tasks \cup {NoTask}
    BY <1>1 DEF SimTypes
  <2>2. at' \in Nat \ {0} /\ time' \in Nat /\ phase' \in {"start", "run", "end", "exit"}
    BY <1>1, <2>1
  <2> QED BY <1>1, <1>2, <1>4, <2>1, <2>2 DEF SimTypes, Rings
<1>6. SchedulerAgrees'
  <2>1. Agrees'
    BY <1>2, <1>3 DEF Agrees
  <2>2. (SimTypes => (SchedulerAgrees <=> Agrees))'
    BY AgreedIsAgrees, PTL
  <2> QED BY <1>5, <2>1, <2>2
<1>7. Walks'
  <2>1. \A i \in 1 .. Len(finished) : task[finished[i]].state = "FINISHED" /\ finished[i] \in Tasks
    BY <1>1, ListTypes DEF Walks
  <2>2. at' <= Len(list' \o finished') + 1
    <3>1. \A m, n \in Nat : 1 <= m + n + 1
      OBVIOUS
    <3> QED BY <1>1, <3>1, ListTypes
  <2> QED BY <1>1, <1>2, <2>1, <2>2 DEF Walks
<1>8. Leavers'
  BY <1>2 DEF Leavers
<1>9. Ran'
  <2>1. ~ (at' > 1)
    BY <1>1
  <2> QED BY <1>1, <2>1 DEF Ran
<1>10. OneRing' /\ Order'
  <2>1. CASE /\ UNCHANGED <<queue, running, task>>
    <3>1. OneRing'
      BY <1>1, <1>3, <2>1 DEF OneRing
    <3>2. SUFFICES ASSUME alg \notin Timed PROVE Order'
      BY <1>3, <3>1 DEF Order
    <3>3. /\ \A i, j \in 1 .. Len(queue[0]) : i < j => Before(queue[0][i], queue[0][j])
          /\ \A i \in 1 .. Len(queue[0]) : task[queue[0][i]].next <= time
      BY <1>1, <1>2, <3>2 DEF Order
    <3>4. \A i \in 1 .. Len(queue[0]) : /\ task[queue[0][i]].next <= time'
                                        /\ task[queue[0][i]].next < time'
      <4>1. \A m, n \in Nat : m <= n => m <= n + 1 /\ m < n + 1
        OBVIOUS
      <4>2. \A i \in 1 .. Len(queue[0]) : task[queue[0][i]].next \in Nat
        BY <1>1, ListTypes
      <4>3. time \in Nat
        BY <1>1, ListTypes
      <4> QED BY <1>1, <3>3, <4>1, <4>2, <4>3
    <3> QED BY <1>1, <2>1, <3>3, <3>4 DEF Order, Before
  <2>2. CASE alg \in Timed /\ \E c \in Turns(alg, queue) : TurnTick(c)
    <3>1. PICK c \in Turns(alg, queue) : TurnTick(c)
      BY <2>2
    <3>2. /\ c \in Classes /\ queue[c] # <<>> /\ queue'[c] = Turn(queue[c])
          /\ Turned(ClassMap, StateMap, queue, running, c, queue', running', StateMap')
      BY <3>1 DEF TurnTick
    <3>3. ASSUME alg \notin ByPriority PROVE c = 0
      BY <1>1, <3>2, <3>3, TurnAgrees, ClassType, MapTypes
    <3>4. running' = HeadOf(queue'[c])
      <4>1. queue[c] \in Seq(Tasks) /\ IsInjective(queue[c])
        BY <3>2 DEF Turned, Agreed, Rings
      <4>2. queue'[c] # <<>> /\ running' = Head(queue'[c])
        BY <3>2, <4>1, TurnRing DEF Turned
      <4> QED BY <4>2 DEF HeadOf
    <3> QED BY <1>3, <2>2, <3>3, <3>4 DEF OneRing, Order
  <2> QED BY <2>1, <2>2, SchedulerTickKeeps
<1> QED BY <1>4, <1>5, <1>6, <1>7, <1>8, <1>9, <1>10, SchedulerTickChooses DEF SimInv

-----------------------------------------------------------------------------
(* OnSysTick.                                                              *)

\* The fields that the invariant speaks of.
Looks(k, state, times, index, next, remove) ==
  k.state = state /\ k.times = times /\ k.index = index /\ k.next = next /\ k.remove = remove
TimesOf(n) == [0 .. 2 * n - 1 -> Int]

\* A loop over the tasks changes one of them at a time.
LEMMA SetOne ==
  ASSUME NEW n, NEW k \in Fields(n)
  PROVE  /\ \A v \in States : LET l == [k EXCEPT !.last = v]
                              IN  l \in Fields(n) /\ Looks(l, k.state, k.times, k.index, k.next, k.remove)
         /\ \A v \in BOOLEAN : LET l == [k EXCEPT !.remove = v]
                               IN  l \in Fields(n) /\ Looks(l, k.state, k.times, k.index, k.next, v)
         /\ \A v \in Nat : LET l == [k EXCEPT !.switches = v]
                           IN  l \in Fields(n) /\ Looks(l, k.state, k.times, k.index, k.next, k.remove)
         /\ \A v \in Nat : LET l == [k EXCEPT !.runTime = v]
                           IN  l \in Fields(n) /\ Looks(l, k.state, k.times, k.index, k.next, k.remove)
         /\ \A v \in Nat : LET l == [k EXCEPT !.blockTime = v]
                           IN  l \in Fields(n) /\ Looks(l, k.state, k.times, k.index, k.next, k.remove)
         /\ \A v \in Nat : LET l == [k EXCEPT !.finish = v]
                           IN  l \in Fields(n) /\ Looks(l, k.state, k.times, k.index, k.next, k.remove)
         /\ \A v \in Nat : LET l == [k EXCEPT !.index = v]
                           IN  l \in Fields(n) /\ Looks(l, k.state, k.times, v, k.next, k.remove)
         /\ \A v \in Nat : LET l == [k EXCEPT !.next = v]
                           IN  l \in Fields(n) /\ Looks(l, k.state, k.times, k.index, v, k.remove)
         /\ \A v \in States : LET l == [k EXCEPT !.state = v]
                              IN  l \in Fields(n) /\ Looks(l, v, k.times, k.index, k.next, k.remove)
         /\ \A v \in TimesOf(n) : LET l == [k EXCEPT !.times = v]
                                  IN  l \in Fields(n) /\ Looks(l, k.state, v, k.index, k.next, k.remove)
<1> USE DEF Fields, Looks, TimesOf
<1>1. \A v \in States : LET l == [k EXCEPT !.last = v]
                        IN  l \in Fields(n) /\ Looks(l, k.state, k.times, k.index, k.next, k.remove)
  OBVIOUS
<1>2. \A v \in BOOLEAN : LET l == [k EXCEPT !.remove = v]
                         IN  l \in Fields(n) /\ Looks(l, k.state, k.times, k.index, k.next, v)
  OBVIOUS
<1>3. \A v \in Nat : LET l == [k EXCEPT !.switches = v]
                     IN  l \in Fields(n) /\ Looks(l, k.state, k.times, k.index, k.next, k.remove)
  OBVIOUS
<1>4. \A v \in Nat : LET l == [k EXCEPT !.runTime = v]
                     IN  l \in Fields(n) /\ Looks(l, k.state, k.times, k.index, k.next, k.remove)
  OBVIOUS
<1>5. \A v \in Nat : LET l == [k EXCEPT !.blockTime = v]
                     IN  l \in Fields(n) /\ Looks(l, k.state, k.times, k.index, k.next, k.remove)
  OBVIOUS
<1>6. \A v \in Nat : LET l == [k EXCEPT !.finish = v]
                     IN  l \in Fields(n) /\ Looks(l, k.state, k.times, k.index, k.next, k.remove)
  OBVIOUS
<1>7. \A v \in Nat : LET l == [k EXCEPT !.index = v]
                     IN  l \in Fields(n) /\ Looks(l, k.state, k.times, v, k.next, k.remove)
  OBVIOUS
<1>8. \A v \in Nat : LET l == [k EXCEPT !.next = v]
                     IN  l \in Fields(n) /\ Looks(l, k.state, k.times, k.index, v, k.remove)
  OBVIOUS
<1>9. \A v \in States : LET l == [k EXCEPT !.state = v]
                        IN  l \in Fields(n) /\ Looks(l, v, k.times, k.index, k.next, k.remove)
  OBVIOUS
<1>10. \A v \in TimesOf(n) : LET l == [k EXCEPT !.times = v]
                             IN  l \in Fields(n) /\ Looks(l, k.state, v, k.index, k.next, k.remove)
  OBVIOUS
<1> HIDE DEF Fields, Looks, TimesOf
<1> QED BY <1>1, <1>2, <1>3, <1>4, <1>5, <1>6, <1>7, <1>8, <1>9, <1>10

\* The types of the fields, one by one.
LEMMA FieldTypes ==
  ASSUME NEW n, NEW k \in Fields(n)
  PROVE  /\ k.state \in States /\ k.last \in States /\ k.times \in TimesOf(n)
         /\ k.index \in Nat /\ k.next \in Nat /\ k.runTime \in Nat /\ k.blockTime \in Nat
         /\ k.finish \in Nat /\ k.switches \in Nat
BY DEF Fields, TimesOf

\* A record over a burst is on its way out and blocks or is finished; any other
\* keeps its state.
LEMMA EndOfBurstKeeps ==
  ASSUME NEW n \in Nat \ {0}, time \in Nat, NEW m \in 0 .. n - 1, NEW k \in Fields(n),
         k.times[2 * n - 1] = 0, k.index = 2 * m, NEW l, l = EndOfBurst(k)
  PROVE  /\ l \in Fields(n) /\ l.times[2 * n - 1] = 0 /\ l.remove = TRUE
         /\ l.state # "FINISHED" => \E i \in 0 .. n - 1 : l.index = 2 * i
         /\ \/ l.state = "FINISHED"
            \/ l.state = "BLOCKED" /\ l.next > time
<1> DEFINE i == 2 * m + 1
           k1 == [k EXCEPT !.remove = TRUE]
           k2 == [k1 EXCEPT !.index = i]
           over == [k2 EXCEPT !.last = k.state]
<1>1. i \in 0 .. 2 * n - 1 /\ i \in Nat /\ i + 1 \in Nat /\ k.index + 1 = i
  OBVIOUS
<1>2. l = IF k.times[i] > 0
            THEN [over EXCEPT !.state = "BLOCKED", !.next = time + k.times[i],
                              !.times[i] = 0, !.index = i + 1]
            ELSE [over EXCEPT !.state = "FINISHED", !.finish = time]
  BY <1>1 DEF EndOfBurst
<1> HIDE DEF i
<1>3. k1 \in Fields(n) /\ Looks(k1, k.state, k.times, k.index, k.next, TRUE)
  BY SetOne
<1> HIDE DEF k1
<1>4. k2 \in Fields(n) /\ Looks(k2, k1.state, k1.times, i, k1.next, k1.remove)
  BY <1>1, <1>3, SetOne
<1> HIDE DEF k2
<1>5. over \in Fields(n) /\ Looks(over, k2.state, k2.times, k2.index, k2.next, k2.remove)
  BY <1>4, SetOne, FieldTypes
<1> HIDE DEF over
<1>6. Looks(over, k.state, k.times, i, k.next, TRUE)
  BY <1>3, <1>4, <1>5 DEF Looks
<1>7. /\ "BLOCKED" \in States /\ "FINISHED" \in States
      /\ k.times \in TimesOf(n) /\ k.times[i] \in Int
  BY <1>1, FieldTypes DEF States, TimesOf
<1>8. CASE k.times[i] > 0
  <2> DEFINE d == k.times[i]
             t == [over.times EXCEPT ![i] = 0]
             l1 == [over EXCEPT !.state = "BLOCKED"]
             l2 == [l1 EXCEPT !.next = time + d]
             l3 == [l2 EXCEPT !.times = t]
             l4 == [l3 EXCEPT !.index = i + 1]
  <2>1. d \in Nat /\ time + d \in Nat /\ time + d > time
    BY <1>7, <1>8
  <2>2. l = l4
    <3>1. l = [over EXCEPT !.state = "BLOCKED", !.next = time + k.times[i],
                           !.times[i] = 0, !.index = i + 1]
      BY <1>2, <1>8
    <3> QED BY <3>1
  <2>3. t \in TimesOf(n) /\ t[2 * n - 1] = 0
    <3>1. over.times = k.times
      BY <1>6 DEF Looks
    <3>2. 2 * n - 1 \in 0 .. 2 * n - 1 /\ 0 \in Int
      OBVIOUS
    <3> QED BY <1>1, <1>7, <3>1, <3>2 DEF TimesOf
  <2> HIDE DEF d, t
  <2>4. l1 \in Fields(n) /\ Looks(l1, "BLOCKED", over.times, over.index, over.next, over.remove)
    BY <1>5, <1>7, SetOne
  <2> HIDE DEF l1
  <2>5. l2 \in Fields(n) /\ Looks(l2, l1.state, l1.times, l1.index, time + d, l1.remove)
    BY <2>1, <2>4, SetOne
  <2> HIDE DEF l2
  <2>6. l3 \in Fields(n) /\ Looks(l3, l2.state, t, l2.index, l2.next, l2.remove)
    BY <2>3, <2>5, SetOne
  <2> HIDE DEF l3
  <2>7. l4 \in Fields(n) /\ Looks(l4, l3.state, l3.times, i + 1, l3.next, l3.remove)
    BY <1>1, <2>6, SetOne
  <2> HIDE DEF l4
  <2>8. l \in Fields(n) /\ Looks(l, "BLOCKED", t, i + 1, time + d, TRUE)
    BY <1>6, <2>2, <2>4, <2>5, <2>6, <2>7 DEF Looks
  <2>9. \E j \in 0 .. n - 1 : i + 1 = 2 * j
    <3>1. m # n - 1
      <4>1. m = n - 1 => i = 2 * n - 1
        BY DEF i
      <4> QED BY <1>8, <4>1
    <3>2. m + 1 \in 0 .. n - 1 /\ i + 1 = 2 * (m + 1)
      BY <3>1 DEF i
    <3> QED BY <3>2
  <2> QED BY <2>1, <2>3, <2>8, <2>9 DEF Looks
<1>9. CASE ~ (k.times[i] > 0)
  <2> DEFINE l1 == [over EXCEPT !.state = "FINISHED"]
             l2 == [l1 EXCEPT !.finish = time]
  <2>1. l = l2
    BY <1>2, <1>9
  <2>2. l1 \in Fields(n) /\ Looks(l1, "FINISHED", over.times, over.index, over.next, over.remove)
    BY <1>5, <1>7, SetOne
  <2> HIDE DEF l1
  <2>3. l2 \in Fields(n) /\ Looks(l2, l1.state, l1.times, l1.index, l1.next, l1.remove)
    BY <2>2, SetOne
  <2> HIDE DEF l2
  <2>4. l \in Fields(n) /\ Looks(l, "FINISHED", k.times, i, k.next, TRUE)
    BY <1>6, <2>1, <2>2, <2>3 DEF Looks
  <2> QED BY <2>4 DEF Looks
<1> QED BY <1>8, <1>9

\* What OnSysTick makes of a task is a task, at its next burst or over.
LEMMA TickedKeeps ==
  ASSUME NEW n \in Nat \ {0}, time \in Nat, NEW k \in Fields(n),
         k.times[2 * n - 1] = 0,
         k.state # "FINISHED" => \E m \in 0 .. n - 1 : k.index = 2 * m,
         NEW l, l = Ticked(k)
  PROVE  /\ l \in Fields(n) /\ l.times[2 * n - 1] = 0
         /\ l.state # "FINISHED" => \E i \in 0 .. n - 1 : l.index = 2 * i
         /\ \/ l.state = k.state /\ l.next = k.next /\ l.remove = FALSE
            \/ /\ k.state = "RUNNING" /\ l.remove = TRUE
               /\ \/ l.state = "FINISHED"
                  \/ l.state = "BLOCKED" /\ l.next > time
<1> DEFINE w == IF k.state # k.last /\ k.state \in {"RUNNING", "BLOCKED"}
                  THEN k.switches + 1 ELSE k.switches
           k1 == [k EXCEPT !.last = k.state]
           k2 == [k1 EXCEPT !.remove = FALSE]
           seen == [k2 EXCEPT !.switches = w]
           t == [seen.times EXCEPT ![k.index] = @ - 1]
           u1 == [seen EXCEPT !.runTime = @ + 1]
           used == [u1 EXCEPT !.times = t]
           waits == [seen EXCEPT !.blockTime = @ + 1]
<1>1. l = CASE k.state = "RUNNING" /\ k.times[k.index] = 1 -> EndOfBurst(used)
            [] k.state = "RUNNING" /\ k.times[k.index] # 1 -> used
            [] k.state = "BLOCKED" -> waits
            [] OTHER -> seen
  BY DEF Ticked
<1> HIDE DEF w
<1>2. w \in Nat
  <2>1. k.switches \in Nat
    BY FieldTypes
  <2> QED BY <2>1 DEF w
<1>3. k1 \in Fields(n) /\ Looks(k1, k.state, k.times, k.index, k.next, k.remove)
  BY SetOne, FieldTypes
<1> HIDE DEF k1
<1>4. k2 \in Fields(n) /\ Looks(k2, k1.state, k1.times, k1.index, k1.next, FALSE)
  BY <1>3, SetOne
<1> HIDE DEF k2
<1>5. seen \in Fields(n) /\ Looks(seen, k2.state, k2.times, k2.index, k2.next, k2.remove)
  BY <1>2, <1>4, SetOne
<1> HIDE DEF seen
<1>6. Looks(seen, k.state, k.times, k.index, k.next, FALSE)
  BY <1>3, <1>4, <1>5 DEF Looks
<1>7. CASE k.state = "RUNNING"
  <2>1. PICK m \in 0 .. n - 1 : k.index = 2 * m
    BY <1>7
  <2>2. /\ k.index \in 0 .. 2 * n - 1 /\ k.index # 2 * n - 1
        /\ 2 * n - 1 \in 0 .. 2 * n - 1
    BY <2>1
  <2>3. t \in TimesOf(n) /\ t[2 * n - 1] = 0
    <3>1. seen.times = k.times /\ seen.times \in TimesOf(n)
      BY <1>5, <1>6, FieldTypes DEF Looks
    <3>2. seen.times[k.index] \in Int
      BY <2>2, <3>1 DEF TimesOf
    <3>3. seen.times[k.index] - 1 \in Int
      BY <3>2
    <3> QED BY <2>2, <3>1, <3>3 DEF TimesOf
  <2> HIDE DEF t
  <2>4. u1 \in Fields(n) /\ Looks(u1, seen.state, seen.times, seen.index, seen.next, seen.remove)
    <3>1. seen.runTime + 1 \in Nat
      BY <1>5, FieldTypes
    <3> QED BY <1>5, <3>1, SetOne
  <2> HIDE DEF u1
  <2>5. used \in Fields(n) /\ Looks(used, u1.state, t, u1.index, u1.next, u1.remove)
    BY <2>3, <2>4, SetOne
  <2> HIDE DEF used
  <2>6. Looks(used, k.state, t, k.index, k.next, FALSE)
    BY <1>6, <2>4, <2>5 DEF Looks
  <2>7. CASE k.times[k.index] = 1
    <3>1. l = EndOfBurst(used)
      BY <1>1, <1>7, <2>7
    <3>2. used.times[2 * n - 1] = 0 /\ used.index = 2 * m
      BY <2>1, <2>3, <2>6 DEF Looks
    <3>3. used \in Fields(n) /\ n \in Nat \ {0} /\ m \in 0 .. n - 1
      BY <2>5
    <3>4. /\ l \in Fields(n) /\ l.times[2 * n - 1] = 0 /\ l.remove = TRUE
          /\ l.state # "FINISHED" => \E i \in 0 .. n - 1 : l.index = 2 * i
          /\ \/ l.state = "FINISHED"
             \/ l.state = "BLOCKED" /\ l.next > time
      <4> HIDE DEF waits
      <4> QED BY <3>1, <3>2, <3>3, EndOfBurstKeeps
    <3> QED BY <1>7, <3>4, Zenon
  <2>8. CASE k.times[k.index] # 1
    <3>1. l = used
      BY <1>1, <1>7, <2>8
    <3> QED BY <1>7, <2>1, <2>3, <2>5, <2>6, <3>1 DEF Looks
  <2> QED BY <2>7, <2>8
<1>8. CASE k.state = "BLOCKED"
  <2>1. l = waits
    BY <1>1, <1>8
  <2>2. waits \in Fields(n) /\ Looks(waits, seen.state, seen.times, seen.index, seen.next, seen.remove)
    <3>1. seen.blockTime + 1 \in Nat
      BY <1>5, FieldTypes
    <3> QED BY <1>5, <3>1, SetOne
  <2> HIDE DEF waits
  <2> QED BY <1>6, <1>8, <2>1, <2>2 DEF Looks
<1>9. CASE k.state # "RUNNING" /\ k.state # "BLOCKED"
  <2>1. l = seen
    BY <1>1, <1>9
  <2> QED BY <1>5, <1>6, <2>1 DEF Looks
<1> QED BY <1>7, <1>8, <1>9

\* The tick of a task that stays, and that of a task whose burst is over.
StillTick(t) ==
  /\ task'[t].state = task[t].state /\ task'[t].next = task[t].next /\ ~ task'[t].remove
  /\ Leaving' = Leaving
OverTick(t) ==
  /\ t = running /\ task[t].state = "RUNNING" /\ task'[t].remove
  /\ \/ task'[t].state = "FINISHED"
     \/ task'[t].state = "BLOCKED" /\ task'[t].next > time
  /\ Leaving = {} /\ Leaving' = {t}

\* OnSysTick changes one task, and its state only when its burst is over.
LEMMA OnSysTickKeeps ==
  ASSUME SimInv, OnSysTick, NEW t, t = (list \o finished)[at]
  PROVE  /\ t \in Tasks /\ at \in 1 .. Len(list) + Len(finished)
         /\ \A u \in Tasks : u # t => task'[u] = task[u]
         /\ (task = [u \in Tasks |-> task[u]])' /\ (\A u \in Tasks : task[u] \in Fields(Runs(u)))'
         /\ Bursts'
         /\ StillTick(t) \/ OverTick(t)
<1>1. /\ SimTypes /\ Bursts /\ Walks /\ Leavers /\ SchedulerAgrees /\ phase = "run"
      /\ at <= Len(list \o finished) /\ UNCHANGED inputs
      /\ list' = list /\ finished' = finished /\ phase' = "run" /\ at' = at + 1
      /\ task' = [task EXCEPT ![t] = Ticked(@)]
  BY DEF SimInv, OnSysTick
<1>2. PICK m \in Nat, n \in Nat : m = Len(list) /\ n = Len(finished)
  BY <1>1, ListTypes
<1>3. /\ at \in 1 .. m + n /\ time \in Nat
      /\ \A i \in 1 .. m : (list \o finished)[i] = list[i] /\ list[i] \in Tasks
      /\ \A i \in 1 .. m + n : i > m => (list \o finished)[i] = finished[i - m]
      /\ \A i \in 1 .. n : finished[i] \in Tasks
  BY <1>1, <1>2, ListTypes
<1>4. /\ at \in 1 .. m => t = list[at]
      /\ at \notin 1 .. m => at - m \in 1 .. n /\ t = finished[at - m]
  <2>1. at \notin 1 .. m => at > m /\ at - m \in 1 .. n
    BY <1>3
  <2> QED BY <1>3, <2>1
<1>5. t \in Tasks
  BY <1>3, <1>4
<1>6. \A u : Runs(u)' = Runs(u)
  BY <1>1, Fixed
<1>7. task = [u \in Tasks |-> task[u]] /\ \A u \in Tasks : task[u] \in Fields(Runs(u))
  BY <1>1 DEF SimTypes
<1>8. task' = [u \in Tasks |-> IF u = t THEN Ticked(task[t]) ELSE task[u]]
  BY <1>1, <1>5, <1>7
<1>9. /\ task'[t] = Ticked(task[t]) /\ \A u \in Tasks : u # t => task'[u] = task[u]
      /\ task' = [u \in Tasks |-> task'[u]]
  BY <1>5, <1>8
<1>10. /\ task'[t] \in Fields(Runs(t)) /\ task'[t].times[2 * Runs(t) - 1] = 0
       /\ task'[t].state # "FINISHED" => \E i \in 0 .. Runs(t) - 1 : task'[t].index = 2 * i
       /\ \/ /\ task'[t].state = task[t].state /\ task'[t].next = task[t].next
             /\ task'[t].remove = FALSE
          \/ /\ task[t].state = "RUNNING" /\ task'[t].remove = TRUE
             /\ \/ task'[t].state = "FINISHED"
                \/ task'[t].state = "BLOCKED" /\ task'[t].next > time
  <2>1. Runs(t) \in Nat \ {0}
    BY <1>1, <1>5, RunsType
  <2>2. /\ task[t] \in Fields(Runs(t)) /\ task[t].times[2 * Runs(t) - 1] = 0
        /\ task[t].state # "FINISHED" => \E i \in 0 .. Runs(t) - 1 : task[t].index = 2 * i
    BY <1>1, <1>5, <1>7 DEF Bursts
  <2> QED BY <1>3, <1>9, <2>1, <2>2, TickedKeeps, ZenonT(30)
<1>11. (task = [u \in Tasks |-> task[u]])' /\ (\A u \in Tasks : task[u] \in Fields(Runs(u)))'
  BY <1>6, <1>7, <1>9, <1>10
<1>12. Bursts'
  <2>1. ASSUME NEW u \in Tasks
        PROVE  /\ task'[u].times[2 * Runs(u) - 1] = 0
               /\ task'[u].state # "FINISHED" => \E i \in 0 .. Runs(u) - 1 : task'[u].index = 2 * i
    <3>1. CASE u = t
      BY <1>10, <3>1
    <3>2. CASE u # t
      BY <1>1, <1>9, <3>2 DEF Bursts
    <3> QED BY <3>1, <3>2
  <2> QED BY <1>6, <2>1 DEF Bursts
<1>13. t \notin Leaving
  <2>1. CASE at \in 1 .. m
    <3>1. ASSUME NEW i \in 1 .. at - 1 PROVE (list \o finished)[i] # t
      <4>1. i \in 1 .. m /\ i < at
        BY <2>1
      <4>2. list[i] < list[at] /\ list[i] \in Nat /\ list[at] \in Nat
        BY <1>1, <1>2, <1>3, <2>1, <4>1, ListTypes DEF Walks
      <4>3. list[i] # list[at]
        BY <4>2
      <4>4. (list \o finished)[i] = list[i] /\ t = list[at]
        BY <1>3, <1>4, <2>1, <4>1
      <4> QED BY <4>3, <4>4
    <3> QED BY <1>1, <3>1 DEF Leaving
  <2>2. CASE at \notin 1 .. m
    BY <1>1, <1>2, <1>4, <2>2 DEF Walks
  <2> QED BY <2>1, <2>2
<1>14. /\ \A u \in Tasks : u # t => (u \in Leaving' <=> u \in Leaving)
       /\ t \in Leaving' <=> task'[t].remove
       /\ Leaving \subseteq Tasks /\ Leaving' \subseteq Tasks
  <2>1. /\ \A i \in 1 .. at - 1 : i \in 1 .. at' - 1
        /\ \A i \in 1 .. at' - 1 : i \in 1 .. at - 1 \/ i = at
        /\ at \in 1 .. at' - 1
    BY <1>1, <1>3
  <2> DEFINE l == list \o finished
  <2>2. /\ Leaving = {u \in Tasks : task[u].remove /\ \E i \in 1 .. at - 1 : l[i] = u}
        /\ Leaving' = {u \in Tasks : task'[u].remove /\ \E i \in 1 .. at' - 1 : l[i] = u}
    BY <1>1 DEF Leaving
  <2>3. l[at] = t
    OBVIOUS
  <2> HIDE DEF l
  <2>4. ASSUME NEW u \in Tasks, u # t PROVE u \in Leaving' <=> u \in Leaving
    BY <1>9, <2>1, <2>2, <2>3, <2>4
  <2>5. t \in Leaving' <=> task'[t].remove
    BY <1>5, <2>1, <2>2, <2>3
  <2> QED BY <2>2, <2>4, <2>5
<1>15. CASE /\ task'[t].state = task[t].state /\ task'[t].next = task[t].next
            /\ task'[t].remove = FALSE
  <2>1. Leaving' = Leaving
    <3>1. t \notin Leaving'
      BY <1>14, <1>15
    <3>2. \A u \in Tasks : u \in Leaving' <=> u \in Leaving
      BY <1>13, <1>14, <3>1
    <3> QED BY <1>14, <3>2
  <2> QED BY <1>3, <1>2, <1>5, <1>9, <1>11, <1>12, <1>15, <2>1 DEF StillTick
<1>16. CASE /\ task[t].state = "RUNNING" /\ task'[t].remove = TRUE
            /\ \/ task'[t].state = "FINISHED"
               \/ task'[t].state = "BLOCKED" /\ task'[t].next > time
  <2>1. t = running
    BY <1>1, <1>5, <1>16 DEF SchedulerAgrees
  <2>2. Leaving = {}
    <3>1. Leaving \subseteq {t}
      BY <1>1, <2>1 DEF SchedulerAgrees
    <3> QED BY <1>13, <3>1
  <2>3. Leaving' = {t}
    BY <1>5, <1>14, <1>16, <2>2
  <2> QED BY <1>3, <1>2, <1>5, <1>9, <1>11, <1>12, <1>16, <2>1, <2>2, <2>3 DEF OverTick
<1> QED BY <1>10, <1>15, <1>16

\* OnSysTick keeps the invariant.
LEMMA SysTickInvariant == SimInv /\ OnSysTick => SimInv'
<1> SUFFICES ASSUME SimInv, OnSysTick PROVE SimInv'
  OBVIOUS
<1> DEFINE t == (list \o finished)[at]
<1>1. /\ SimTypes /\ Bursts /\ Walks /\ Leavers /\ SchedulerAgrees /\ OneRing /\ Ran /\ Order
      /\ phase = "run" /\ phase' = "run" /\ at' = at + 1 /\ time' = time
      /\ list' = list /\ finished' = finished /\ UNCHANGED inputs
      /\ queue' = queue /\ running' = running
      /\ ran' = IF at <= Len(list) /\ task[t].state = "RUNNING" THEN t
                ELSE IF at = 1 THEN NoTask ELSE ran
  BY DEF SimInv, OnSysTick
<1>2. /\ t \in Tasks /\ at \in 1 .. Len(list) + Len(finished)
      /\ \A u \in Tasks : u # t => task'[u] = task[u]
      /\ (task = [u \in Tasks |-> task[u]])' /\ (\A u \in Tasks : task[u] \in Fields(Runs(u)))'
      /\ Bursts'
      /\ StillTick(t) \/ OverTick(t)
  BY OnSysTickKeeps
<1>3. alg' = alg /\ job' = job /\ ClassMap' = ClassMap
  BY <1>1, Fixed
<1> HIDE DEF t
<1>4. PICK m \in Nat, n \in Nat : m = Len(list) /\ n = Len(finished)
  BY <1>1, ListTypes
<1>5. at \in 1 .. m + n /\ at \in Nat /\ Len(list \o finished) = m + n
  BY <1>1, <1>2, <1>4, ListTypes
<1>6. task[t].state = "RUNNING" => t = running
  BY <1>1, <1>2 DEF SchedulerAgrees
<1>7. SimTypes'
  <2>1. at' \in Nat \ {0} /\ phase' \in {"start", "run", "end", "exit"}
    BY <1>1, <1>5
  <2>2. ran' \in Tasks \cup {NoTask}
    BY <1>1, <1>2 DEF SimTypes
  <2>3. /\ time \in Nat /\ list \in Seq(Tasks) /\ finished \in Seq(Tasks)
        /\ queue \in [Classes -> Seq(Tasks)] /\ running \in Tasks \cup {NoTask}
        /\ job \in [Tasks -> Jobs]
    BY <1>1 DEF SimTypes
  <2> QED BY <1>1, <1>2, <1>3, <2>1, <2>2, <2>3 DEF SimTypes
<1>8. SchedulerAgrees'
  <2>1. Agreed(ClassMap, StateMap, queue, running, Leaving)
    BY <1>1, AgreedIsAgrees DEF Agrees
  <2>2. Agreed(ClassMap, StateMap', queue, running, Leaving')
    <3>1. CASE StillTick(t)
      <4>1. \A u \in Tasks : task'[u].state = task[u].state
        BY <1>2, <3>1 DEF StillTick
      <4>2. StateMap' = StateMap
        BY <4>1 DEF StateMap
      <4> QED BY <2>1, <3>1, <4>2 DEF StillTick
    <3>2. CASE OverTick(t)
      <4>1. /\ ClassMap \in [Tasks -> Classes] /\ StateMap \in [Tasks -> States]
            /\ queue \in Rings /\ running \in Tasks \cup {NoTask}
            /\ \A u \in Tasks : ClassMap[u] = Class(u) /\ StateMap[u] = task[u].state
        BY <1>1, MapTypes
      <4>2. /\ StateMap' \in [Tasks -> States]
            /\ \A u \in Tasks : StateMap'[u] = task'[u].state
        <5>1. \A u \in Tasks : task'[u].state \in States
          BY <1>2, FieldTypes
        <5> QED BY <5>1 DEF StateMap
      <4>3. \A u \in Tasks : u # t => StateMap'[u] = StateMap[u]
        BY <1>2, <4>1, <4>2
      <4>4. StateMap[t] = "RUNNING" /\ StateMap'[t] \notin Live
        BY <1>2, <3>2, <4>1, <4>2 DEF OverTick, Live
      <4>5. Agreed(ClassMap, StateMap, queue, running, {})
        BY <2>1, <3>2 DEF OverTick
      <4>6. Agreed(ClassMap, StateMap', queue, running, {t})
        BY <1>2, <4>1, <4>2, <4>3, <4>4, <4>5, BurstEndAgrees
      <4> QED BY <3>2, <4>6 DEF OverTick
    <3> QED BY <1>2, <3>1, <3>2
  <2>3. Agrees'
    BY <1>1, <1>3, <2>2 DEF Agrees
  <2>4. (SimTypes => (SchedulerAgrees <=> Agrees))'
    BY AgreedIsAgrees, PTL
  <2> QED BY <1>7, <2>3, <2>4
<1>9. Walks'
  <2>1. ASSUME NEW i \in 1 .. n
        PROVE  task'[finished[i]].state = "FINISHED" /\ finished[i] \notin Leaving'
    <3>1. task[finished[i]].state = "FINISHED" /\ finished[i] \notin Leaving /\ finished[i] \in Tasks
      BY <1>1, <1>4, ListTypes DEF Walks
    <3>2. CASE StillTick(t)
      BY <1>2, <3>1, <3>2 DEF StillTick
    <3>3. CASE OverTick(t)
      <4>1. finished[i] # t
        BY <3>1, <3>3 DEF OverTick
      <4> QED BY <1>2, <3>1, <3>3, <4>1 DEF OverTick
    <3> QED BY <1>2, <3>2, <3>3
  <2>2. at' <= Len(list' \o finished') + 1
    <3>1. at + 1 <= m + n + 1
      BY <1>5
    <3> QED BY <1>1, <1>5, <3>1
  <2>3. \A i, j \in 1 .. Len(list') : i < j => list'[i] < list'[j]
    BY <1>1 DEF Walks
  <2> QED BY <1>1, <1>4, <2>1, <2>2, <2>3 DEF Walks
<1>10. Leavers'
  <2>1. ASSUME NEW u \in Leaving'
        PROVE  \/ task'[u].state = "FINISHED"
               \/ task'[u].state = "BLOCKED" /\ task'[u].next > time
    <3>1. CASE StillTick(t)
      <4>1. u \in Leaving /\ u \in Tasks
        BY <2>1, <3>1 DEF StillTick, Leaving
      <4>2. Gone(u)
        BY <1>1, <4>1 DEF Leavers
      <4>3. task'[u].state = task[u].state /\ task'[u].next = task[u].next
        BY <1>2, <3>1, <4>1 DEF StillTick
      <4> QED BY <4>2, <4>3 DEF Gone
    <3>2. CASE OverTick(t)
      BY <2>1, <3>2 DEF OverTick
    <3> QED BY <1>2, <3>1, <3>2
  <2> QED BY <1>1, <2>1 DEF Leavers, Gone
<1>11. OneRing'
  BY <1>1, <1>3 DEF OneRing
<1>12. Ran'
  <2>1. ran' \in {NoTask, running'}
    <3>1. CASE at <= Len(list) /\ task[t].state = "RUNNING"
      BY <1>1, <1>6, <3>1
    <3>2. CASE ~ (at <= Len(list) /\ task[t].state = "RUNNING") /\ at = 1
      BY <1>1, <3>2
    <3>3. CASE ~ (at <= Len(list) /\ task[t].state = "RUNNING") /\ at # 1
      <4>1. at > 1
        BY <1>5, <3>3
      <4> QED BY <1>1, <3>3, <4>1 DEF Ran
    <3> QED BY <3>1, <3>2, <3>3
  <2>2. ~ (m = 0 /\ n = 0)
    BY <1>5
  <2> QED BY <1>1, <1>4, <2>1, <2>2 DEF Ran
<1>13. Order'
  <2> SUFFICES ASSUME alg \notin Timed PROVE Order'
    BY <1>3 DEF Order
  <2> DEFINE q == queue[0]
  <2>1. /\ \A i, j \in 1 .. Len(q) : i < j /\ q[i] \notin Leaving => Before(q[i], q[j])
        /\ \A i \in 1 .. Len(q) : q[i] \notin Leaving => task[q[i]].next <= time /\ task[q[i]].next < time
    BY <1>1 DEF Order
  <2>2. \A i \in 1 .. Len(q) : q[i] \in Tasks
    BY <1>1, ListTypes
  <2>3. CASE StillTick(t)
    <3>1. \A u \in Tasks : task'[u].next = task[u].next
      BY <1>2, <2>3 DEF StillTick
    <3>2. Leaving' = Leaving
      BY <2>3 DEF StillTick
    <3> QED BY <1>1, <2>1, <2>2, <3>1, <3>2, SMTT(30) DEF Order, Before
  <2>4. CASE OverTick(t)
    <3>1. /\ \A u \in Tasks : u \notin Leaving' => task'[u].next = task[u].next
          /\ Leaving = {} /\ Leaving' = {t} /\ t = running
      BY <1>2, <2>4 DEF OverTick
    <3>2. \A i, j \in 1 .. Len(q) : i < j => q[j] # t
      <4>1. alg \notin ByPriority /\ 0 \in Classes /\ q \in Seq(Tasks) /\ IsInjective(q)
        BY <1>1, NoTaskIsNone DEF Timed, ByPriority, SimTypes, SchedulerAgrees
      <4>2. t = HeadOf(q) /\ t # NoTask
        BY <1>1, <1>2, <3>1, <4>1, NoTaskIsNone DEF OneRing
      <4>3. q # <<>> /\ t = q[1]
        BY <4>1, <4>2, NoTaskIsNone
      <4>4. \A i, j \in 1 .. Len(q) : q[i] = q[j] => i = j
        BY <4>1, Injective
      <4>5. Len(q) \in Nat /\ \A i, j \in 1 .. Len(q) : i < j => j # 1 /\ 1 \in 1 .. Len(q)
        BY <4>1, LenProperties
      <4> HIDE DEF q
      <4> QED BY <4>3, <4>4, <4>5
    <3>3. \A i, j \in 1 .. Len(q) : i < j /\ q[i] \notin Leaving' =>
            \/ task'[q[i]].next < task'[q[j]].next
            \/ task'[q[i]].next = task'[q[j]].next /\ q[i] < q[j]
      BY <2>1, <2>2, <3>1, <3>2 DEF Before
    <3>4. \A i \in 1 .. Len(q) : q[i] \notin Leaving' => task'[q[i]].next <= time /\ task'[q[i]].next < time
      BY <2>1, <2>2, <3>1
    <3> QED BY <1>1, <3>3, <3>4 DEF Order, Before
  <2> QED BY <1>2, <2>3, <2>4
<1>14. RightTaskRuns'
  <2>1. at' # 1
    BY <1>1, <1>5
  <2> QED BY <2>1 DEF RightTaskRuns
<1> QED BY <1>2, <1>7, <1>8, <1>9, <1>10, <1>11, <1>12, <1>13, <1>14 DEF SimInv

-----------------------------------------------------------------------------
(* Between the loops: AllTicked and TickIsOver.                            *)

\* Between two loops of RunTick only the iterator changes.
LEMMA NextLoop ==
  ASSUME SimInv, phase' \in {"start", "end", "exit"}, at' = 1, Leaving' = Leaving,
         UNCHANGED <<inputs, time, list, finished, queue, running, task, ran>>
  PROVE  /\ SimTypes' /\ Bursts' /\ Walks' /\ Leavers' /\ SchedulerAgrees' /\ OneRing'
         /\ RightTaskRuns'
<1>1. /\ SimTypes /\ Bursts /\ Walks /\ Leavers /\ SchedulerAgrees /\ OneRing
  BY DEF SimInv
<1>2. alg' = alg /\ job' = job /\ \A u : Class(u)' = Class(u) /\ Runs(u)' = Runs(u)
  BY Fixed
<1>3. ClassMap' = ClassMap /\ StateMap' = StateMap
  BY Fixed DEF StateMap
<1>4. SimTypes'
  BY <1>1, <1>2 DEF SimTypes
<1>5. Bursts'
  BY <1>1, <1>2 DEF Bursts
<1>6. Walks'
  BY <1>1 DEF Walks
<1>7. Leavers'
  BY <1>1 DEF Leavers, Gone
<1>8. SchedulerAgrees'
  <2>1. Agrees
    BY <1>1, AgreedIsAgrees
  <2>2. Agrees'
    BY <1>3, <2>1 DEF Agrees
  <2>3. (SimTypes => (SchedulerAgrees <=> Agrees))'
    BY AgreedIsAgrees, PTL
  <2> QED BY <1>4, <2>2, <2>3
<1>9. OneRing' /\ RightTaskRuns'
  BY <1>1, <1>2 DEF OneRing, RightTaskRuns
<1> QED BY <1>4, <1>5, <1>6, <1>7, <1>8, <1>9

\* The end of the loops over OnSysTick keeps the invariant.
LEMMA AllTickedInvariant == SimInv /\ AllTicked => SimInv'
<1> SUFFICES ASSUME SimInv, AllTicked PROVE SimInv'
  OBVIOUS
<1>1. /\ SimTypes /\ Walks /\ SchedulerAgrees /\ Ran /\ Order
      /\ phase = "run" /\ phase' = "end" /\ at' = 1 /\ at > Len(list \o finished)
      /\ UNCHANGED <<inputs, time, list, finished, queue, running, task, ran>>
  BY DEF SimInv, AllTicked
<1>2. alg' = alg /\ \A u : Class(u)' = Class(u)
  BY <1>1, Fixed
<1>3. PICK m \in Nat, n \in Nat : m = Len(list) /\ n = Len(finished)
  BY <1>1, ListTypes
<1>4. /\ at = m + n + 1
      /\ \A i \in 1 .. m : (list \o finished)[i] = list[i]
      /\ \A i \in 1 .. m + n : i > m => (list \o finished)[i] = finished[i - m]
  <2>1. at \in Nat /\ Len(list \o finished) = m + n /\ at <= m + n + 1 /\ at > m + n
    BY <1>1, <1>3, ListTypes DEF Walks
  <2>2. at = m + n + 1
    BY <2>1
  <2> QED BY <1>1, <1>3, <2>2, ListTypes
<1>5. Leaving' = Leaving
  <2> DEFINE l == list \o finished
  <2>1. /\ Leaving = {u \in Tasks : task[u].remove /\ \E i \in 1 .. at - 1 : l[i] = u}
        /\ Leaving' = {u \in Tasks : task[u].remove /\ \E i \in 1 .. m : list[i] = u}
    BY <1>1, <1>3 DEF Leaving
  <2>2. at - 1 = m + n /\ \A i \in 1 .. m : i \in 1 .. m + n
    BY <1>4
  <2>3. \A u \in Leaving' : u \in Leaving
    BY <1>4, <2>1, <2>2
  <2>4. ASSUME NEW u \in Leaving PROVE u \in Leaving'
    <3>1. PICK i \in 1 .. m + n : l[i] = u
      BY <2>1, <2>2
    <3>2. CASE i > m
      <4>1. i - m \in 1 .. n
        BY <3>2
      <4>2. u = finished[i - m]
        BY <1>4, <3>1, <3>2
      <4> QED BY <1>1, <1>3, <4>1, <4>2 DEF Walks
    <3>3. CASE ~ (i > m)
      <4>1. i \in 1 .. m
        BY <3>3
      <4>2. list[i] = u
        BY <1>4, <3>1, <4>1
      <4> QED BY <2>1, <4>1, <4>2
    <3> QED BY <3>2, <3>3
  <2> HIDE DEF l
  <2> QED BY <2>3, <2>4
<1>6. /\ SimTypes' /\ Bursts' /\ Walks' /\ Leavers' /\ SchedulerAgrees' /\ OneRing'
      /\ RightTaskRuns'
  BY <1>1, <1>5, NextLoop
<1>7. Ran'
  <2>1. CASE m = 0 /\ n = 0
    BY <1>1, <1>3, <2>1 DEF Ran
  <2>2. CASE ~ (m = 0 /\ n = 0)
    <3>1. at > 1
      BY <1>4, <2>2
    <3>2. ran \in {NoTask, running}
      BY <1>1, <3>1 DEF Ran
    <3>3. ran # NoTask => ran \in Tasks /\ ran = HeadOf(queue[Class(ran)])
      BY <1>1, <3>2 DEF SchedulerAgrees, SimTypes
    <3>4. ran' = NoTask \/ (ran' \in Tasks /\ ran' = HeadOf(queue'[Class(ran)']))
      BY <1>1, <1>2, <3>3
    <3> QED BY <1>1, <1>3, <2>2, <3>4 DEF Ran
  <2> QED BY <2>1, <2>2
<1>8. Order'
  BY <1>1, <1>2, <1>5 DEF Order, Before
<1> QED BY <1>6, <1>7, <1>8 DEF SimInv

\* The end of a tick keeps the invariant.
LEMMA TickIsOverInvariant == SimInv /\ TickIsOver => SimInv'
<1> SUFFICES ASSUME SimInv, TickIsOver PROVE SimInv'
  OBVIOUS
<1>1. /\ SimTypes /\ Walks /\ Ran /\ Order
      /\ phase = "end" /\ phase' \in {"start", "exit"} /\ at' = 1 /\ at > Len(list)
      /\ UNCHANGED <<inputs, time, list, finished, queue, running, task, ran>>
  BY DEF SimInv, TickIsOver
<1>2. alg' = alg /\ \A u : Class(u)' = Class(u)
  BY <1>1, Fixed
<1>3. Leaving = {} /\ Leaving' = {}
  <2>1. (phase \in {"start", "exit"} => Leaving = {})'
    BY NobodyLeaves, PTL
  <2>2. at .. Len(list) = {}
    BY <1>1, ListTypes
  <2> QED BY <1>1, <2>1, <2>2 DEF Leaving
<1>4. /\ SimTypes' /\ Bursts' /\ Walks' /\ Leavers' /\ SchedulerAgrees' /\ OneRing'
      /\ RightTaskRuns'
  BY <1>1, <1>3, NextLoop
<1>5. Ran'
  BY <1>1, <1>2 DEF Ran, Gone
<1>6. Order'
  <2> SUFFICES ASSUME alg \notin Timed PROVE Order'
    BY <1>2 DEF Order
  <2> DEFINE q == queue[0]
  <2>1. /\ \A i, j \in 1 .. Len(q) : i < j => Before(q[i], q[j])
        /\ \A i \in 1 .. Len(q) : task[q[i]].next <= time /\ task[q[i]].next < time
    BY <1>1, <1>3 DEF Order
  <2>2. \A i \in 1 .. Len(q) : task[q[i]].next # time
    <3>1. \A i \in 1 .. Len(q) : task[q[i]].next \in Nat /\ time \in Nat
      BY <1>1, ListTypes
    <3>2. \A x, y \in Nat : x < y => x # y
      OBVIOUS
    <3> QED BY <2>1, <3>1, <3>2
  <2> QED BY <1>1, <1>3, <2>1, <2>2 DEF Order, Before
<1> QED BY <1>4, <1>5, <1>6 DEF SimInv

-----------------------------------------------------------------------------
(* OnEndTick.                                                              *)

\* OnEndTick changes states and rings only for the task that leaves.
LEMMA EndTickKeeps ==
  ASSUME SimInv, OnEndTick, NEW t, t = list[at]
  PROVE  /\ t \in Tasks /\ at \in 1 .. Len(list) /\ Kept
         /\ task[t].remove =>
              /\ t = running /\ Leaving = {t} /\ Gone(t)
              /\ Dequeued(ClassMap, StateMap, queue, t, queue', running', StateMap')
              /\ queue' \in Rings /\ running' = HeadOf(queue'[Class(t)])
              /\ \A u \in Tasks : task'[u].state = IF u = t THEN task[t].state
                                                   ELSE IF u = running' THEN "RUNNING"
                                                   ELSE task[u].state
         /\ ~ task[t].remove => UNCHANGED <<queue, running, task>>
<1>1. /\ SimTypes /\ Leavers /\ SchedulerAgrees /\ phase = "end" /\ at <= Len(list)
  BY DEF SimInv, OnEndTick
<1>2. at \in 1 .. Len(list) /\ t \in Tasks
  <2>1. at \in 1 .. Len(list)
    BY <1>1, ListTypes
  <2> QED BY <1>1, <2>1, ListTypes
<1>3. CASE ~ task[t].remove
  <2>1. UNCHANGED <<queue, running, task>>
    BY <1>3 DEF OnEndTick
  <2>2. Kept
    BY <1>1, <2>1, KeptWhenUnchanged
  <2> QED BY <1>2, <1>3, <2>1, <2>2
<1>4. CASE task[t].remove
  <2>1. t \in Leaving
    <3>1. at \in at .. Len(list)
      BY <1>2
    <3> QED BY <1>1, <1>2, <1>4, <3>1 DEF Leaving
  <2>2. t = running /\ Leaving = {t} /\ Gone(t)
    BY <1>1, <2>1 DEF SchedulerAgrees, Leavers
  <2>3. /\ ClassMap \in [Tasks -> Classes] /\ StateMap \in [Tasks -> States]
        /\ queue \in Rings
        /\ \A u \in Tasks : ClassMap[u] = Class(u) /\ StateMap[u] = task[u].state
    BY <1>1, MapTypes
  <2>4. Agreed(ClassMap, StateMap, queue, t, {t})
    BY <1>1, <2>2, AgreedIsAgrees DEF Agrees
  <2>5. /\ Class(t) \in Classes /\ queue[Class(t)] \in Seq(Tasks)
        /\ IsInjective(queue[Class(t)]) /\ running = HeadOf(queue[Class(t)])
        /\ queue[Class(t)] # <<>>
    <3>1. Class(t) \in Classes
      BY <1>1, <1>2, ClassType
    <3>2. queue[Class(t)] \in Seq(Tasks) /\ IsInjective(queue[Class(t)])
      BY <2>3, <2>4, <3>1 DEF Rings, Agreed
    <3>3. running # NoTask /\ running = HeadOf(queue[Class(t)])
      BY <1>1, <1>2, <2>2, NoTaskIsNone DEF SchedulerAgrees
    <3> QED BY <3>1, <3>2, <3>3, NoTaskIsNone
  <2>6. /\ queue' = Dequeue(alg, queue, running, Class(running))
        /\ running' = HeadOf(queue'[Class(running)])
        /\ task' = [Swap(task, running, running') EXCEPT ![t].state = task[t].state]
    <3>1. RemoveTask(t)
      BY <1>4 DEF OnEndTick
    <3> QED BY <3>1 DEF RemoveTask
  <2>8. RingIs(queue', queue, Class(t), Tail(queue[Class(t)])) /\ queue' \in Rings
    <3>1. queue' = Dequeue(alg, queue, running, Class(t))
      BY <2>2, <2>6
    <3> QED BY <2>3, <2>5, <3>1, DequeueDrops
  <2>9. running' = HeadOf(queue'[Class(t)])
    BY <2>2, <2>6
  <2> DEFINE new == Swap(task, running, running')
             k == [new[t] EXCEPT !.state = task[t].state]
  <2>10. /\ new = [u \in Tasks |-> new[u]]
         /\ \A u \in Tasks :
              /\ new[u] \in Fields(Runs(u))
              /\ new[u].times = task[u].times /\ new[u].index = task[u].index
              /\ new[u].next = task[u].next /\ new[u].remove = task[u].remove
              /\ new[u].state = IF u = running' THEN "RUNNING" ELSE IF u = running THEN "READY"
                                ELSE task[u].state
    <3>1. \A u \in Tasks : task[u] \in Fields(Runs(u))
      BY <1>1 DEF SimTypes
    <3> QED BY <1>1, <3>1, SwapKeeps
  <2>11. task' = [u \in Tasks |-> IF u = t THEN k ELSE new[u]]
    <3>1. task' = [new EXCEPT ![t].state = task[t].state]
      BY <2>6
    <3> HIDE DEF new
    <3> QED BY <1>2, <2>10, <3>1
  <2> HIDE DEF new
  <2>12. /\ k \in Fields(Runs(t)) /\ k.state = task[t].state
         /\ k.times = task[t].times /\ k.index = task[t].index
         /\ k.next = task[t].next /\ k.remove = task[t].remove
    <3>1. Runs(t) \in Nat /\ task[t].state \in States /\ new[t] \in Fields(Runs(t))
      BY <1>1, <1>2, <2>10, RunsType, FieldTypes DEF SimTypes
    <3> QED BY <1>2, <2>10, <3>1, SetState
  <2> HIDE DEF k
  <2>13. task'[t] = k /\ \A u \in Tasks : u # t => task'[u] = new[u]
    BY <1>2, <2>11
  <2>14. Kept
    <3>1. task' = [u \in Tasks |-> task'[u]]
      BY <2>11
    <3> QED BY <2>10, <2>12, <2>13, <3>1 DEF Kept
  <2>15. \A u \in Tasks : task'[u].state = IF u = t THEN task[t].state
                                           ELSE IF u = running' THEN "RUNNING"
                                           ELSE task[u].state
    BY <2>2, <2>10, <2>12, <2>13
  <2>16. Dequeued(ClassMap, StateMap, queue, t, queue', running', StateMap')
    <3>1. LeaveIs(StateMap', StateMap, t, running')
      <4>1. \A u \in Tasks : StateMap'[u] = task'[u].state
        BY DEF StateMap
      <4> QED BY <1>2, <2>3, <2>15, <4>1 DEF LeaveIs
    <3>2. StateMap[t] \notin Live
      BY <1>2, <2>2, <2>3 DEF Gone, Live
    <3>3. ClassMap[t] = Class(t)
      BY <1>2, <2>3
    <3> QED BY <1>2, <2>3, <2>4, <2>8, <2>9, <3>1, <3>2, <3>3 DEF Dequeued
  <2> QED BY <1>2, <1>4, <2>2, <2>8, <2>9, <2>14, <2>15, <2>16
<1> QED BY <1>3, <1>4

\* The task that leaves takes itself out of its ring, so that what is left agrees.
LEMMA EndTickAgrees ==
  ASSUME SimInv, OnEndTick, NEW t, t = list[at],
         UNCHANGED <<inputs, phase, time, ran>>,
         list' \in Seq(Tasks), finished' \in Seq(Tasks), at' \in Nat \ {0},
         Leaving' = Leaving \ {t}
  PROVE  /\ SimTypes' /\ Bursts' /\ SchedulerAgrees' /\ OneRing' /\ Leavers'
         /\ \A u \in Tasks : task[u].state \in {"FINISHED", "BLOCKED"} => task'[u].state = task[u].state
         /\ Gone(t) => task'[t].state = task[t].state
<1>1. /\ SimTypes /\ Bursts /\ Leavers /\ SchedulerAgrees /\ OneRing
  BY DEF SimInv
<1>2. /\ t \in Tasks /\ Kept
      /\ task[t].remove =>
              /\ t = running /\ Leaving = {t} /\ Gone(t)
              /\ Dequeued(ClassMap, StateMap, queue, t, queue', running', StateMap')
              /\ queue' \in Rings /\ running' = HeadOf(queue'[Class(t)])
              /\ \A u \in Tasks : task'[u].state = IF u = t THEN task[t].state
                                                   ELSE IF u = running' THEN "RUNNING"
                                                   ELSE task[u].state
      /\ ~ task[t].remove => UNCHANGED <<queue, running, task>>
  BY EndTickKeeps
<1>3. alg' = alg /\ job' = job /\ ClassMap' = ClassMap
  BY Fixed
<1>4. /\ ClassMap \in [Tasks -> Classes] /\ StateMap \in [Tasks -> States]
      /\ queue \in Rings /\ running \in Tasks \cup {NoTask}
      /\ \A u \in Tasks : ClassMap[u] = Class(u) /\ StateMap[u] = task[u].state
  BY <1>1, MapTypes
<1>5. \A u \in Tasks : StateMap'[u] = task'[u].state
  BY DEF StateMap
<1>6. /\ queue' \in Rings /\ running' \in Tasks \cup {NoTask}
      /\ Agreed(ClassMap, StateMap', queue', running', Leaving')
      /\ OneRing'
      /\ \A u \in Tasks : task[u].state \in {"FINISHED", "BLOCKED"} => task'[u].state = task[u].state
      /\ \A u \in Tasks : task'[u].state = "FINISHED" => task[u].state = "FINISHED"
      /\ Leaving' \subseteq Leaving /\ task[t].remove => t \notin Leaving'
  <2>1. CASE task[t].remove
    <3>1. Dequeued(ClassMap, StateMap, queue, t, queue', running', StateMap')
      BY <1>2, <2>1
    <3>2. /\ running' \in Tasks \cup {NoTask}
          /\ Agreed(ClassMap, StateMap', queue', running', {})
          /\ running' # NoTask => StateMap[running'] \in Live
      BY <3>1, DequeueAgrees
    <3>3. Leaving' = {}
      BY <1>2, <2>1
    <3>4. \A u \in Tasks : task'[u].state = IF u = t THEN task[t].state
                                            ELSE IF u = running' THEN "RUNNING"
                                            ELSE task[u].state
      BY <1>2, <2>1
    <3>5. \A u \in Tasks : u = running' => task[u].state \in Live
      BY <1>4, <3>2, NoTaskIsNone
    <3>6. /\ \A u \in Tasks : task[u].state \in {"FINISHED", "BLOCKED"} => task'[u].state = task[u].state
          /\ \A u \in Tasks : task'[u].state = "FINISHED" => task[u].state = "FINISHED"
      BY <3>4, <3>5 DEF Live
    <3>7. OneRing'
      <4>1. alg \notin ByPriority => Class(t) = 0
        BY <1>1, <1>2, ClassType
      <4>2. running' = HeadOf(queue'[Class(t)])
        BY <1>2, <2>1
      <4> QED BY <1>3, <4>1, <4>2 DEF OneRing
    <3>8. queue' \in Rings
      BY <1>2, <2>1
    <3> QED BY <3>2, <3>3, <3>6, <3>7, <3>8
  <2>2. CASE ~ task[t].remove
    <3>1. UNCHANGED <<queue, running, task>>
      BY <1>2, <2>2
    <3>2. t \notin Leaving
      BY <2>2 DEF Leaving
    <3>3. Leaving' = Leaving
      BY <3>2
    <3>4. StateMap' = StateMap
      BY <3>1 DEF StateMap
    <3>5. Agreed(ClassMap, StateMap, queue, running, Leaving)
      BY <1>1, AgreedIsAgrees DEF Agrees
    <3>6. Agreed(ClassMap, StateMap', queue', running', Leaving')
      BY <3>1, <3>3, <3>4, <3>5
    <3>7. OneRing'
      BY <1>1, <1>3, <3>1 DEF OneRing
    <3> QED BY <1>4, <2>2, <3>1, <3>3, <3>6, <3>7
  <2> QED BY <2>1, <2>2
<1>7. Bursts' /\ (job \in [Tasks -> Jobs])' /\ (task = [u \in Tasks |-> task[u]])'
      /\ (\A u \in Tasks : task[u] \in Fields(Runs(u)))'
  BY <1>1, <1>2, <1>6, KeptParts
<1>8. SimTypes'
  BY <1>1, <1>6, <1>7 DEF SimTypes, Rings
<1>9. SchedulerAgrees'
  <2>1. Agrees'
    BY <1>3, <1>6 DEF Agrees
  <2>2. (SimTypes => (SchedulerAgrees <=> Agrees))'
    BY AgreedIsAgrees, PTL
  <2> QED BY <1>8, <2>1, <2>2
<1>10. Leavers'
  <2>1. ASSUME NEW u \in Leaving'
        PROVE  \/ task'[u].state = "FINISHED"
               \/ task'[u].state = "BLOCKED" /\ task'[u].next > time'
    <3>1. u \in Leaving /\ u \in Tasks
      BY <2>1 DEF Leaving
    <3>2. \/ task[u].state = "FINISHED"
          \/ task[u].state = "BLOCKED" /\ task[u].next > time
      BY <1>1, <3>1 DEF Leavers, Gone
    <3>3. task'[u].next = task[u].next
      BY <1>2, <3>1 DEF Kept
    <3> QED BY <1>6, <3>1, <3>2, <3>3
  <2> QED BY <2>1 DEF Leavers, Gone
<1> QED BY <1>2, <1>6, <1>7, <1>8, <1>9, <1>10 DEF Gone

\* Erasing from the list moves up what is behind.
LEMMA RemoveAtPlaces ==
  ASSUME NEW s \in Seq(Tasks), NEW i \in 1 .. Len(s)
  PROVE  /\ RemoveAt(s, i) \in Seq(Tasks) /\ Len(RemoveAt(s, i)) = Len(s) - 1
         /\ \A j \in 1 .. Len(s) - 1 : RemoveAt(s, i)[j] = IF j < i THEN s[j] ELSE s[j + 1]
<1>1. RemoveAt(s, i) = SubSeq(s, 1, i - 1) \o SubSeq(s, i + 1, Len(s))
  BY DEF RemoveAt
<1> QED BY <1>1, ErasePlaces

\* The list that is left, and the iterator on the next task of it.
LEMMA EndTickLists ==
  ASSUME SimInv, OnEndTick, NEW t, t = list[at]
  PROVE  /\ list' \in Seq(Tasks) /\ finished' \in Seq(Tasks) /\ at' \in Nat \ {0}
         /\ \A i, j \in 1 .. Len(list') : i < j => list'[i] < list'[j]
         /\ Leaving' = Leaving \ {t}
         /\ task[t].state # "FINISHED" => finished' = finished
         /\ task[t].state = "FINISHED" => finished' = Append(finished, t)
         /\ ~ (Len(list') = 0 /\ Len(finished') = 0)
<1>1. /\ SimTypes /\ Walks /\ phase = "end" /\ phase' = "end"
      /\ list' = IF task[t].state = "FINISHED" THEN RemoveAt(list, at) ELSE list
      /\ finished' = IF task[t].state = "FINISHED" THEN Append(finished, t) ELSE finished
      /\ at' = IF task[t].state = "FINISHED" THEN at ELSE at + 1
      /\ list \in Seq(Tasks) /\ finished \in Seq(Tasks)
  BY DEF SimInv, SimTypes, OnEndTick
<1>2. t \in Tasks /\ at \in 1 .. Len(list) /\ Kept
  BY EndTickKeeps
<1>3. PICK m \in Nat, n \in Nat : m = Len(list) /\ n = Len(finished)
  BY <1>1, ListTypes
<1>4. /\ at \in 1 .. m /\ at \in Nat /\ \A i \in 1 .. m : list[i] \in Tasks /\ list[i] \in Nat
      /\ \A i, j \in 1 .. m : i < j => list[i] < list[j]
  BY <1>1, <1>2, <1>3, ListTypes DEF Walks
<1> DEFINE p == IF task[t].state = "FINISHED" THEN m - 1 ELSE m
           from(j) == IF task[t].state = "FINISHED" /\ ~ (j < at) THEN j + 1 ELSE j
<1>5. /\ p \in Nat /\ Len(list') = p /\ list' \in Seq(Tasks)
      /\ \A j \in 1 .. p : list'[j] = list[from(j)]
  <2>1. CASE task[t].state = "FINISHED"
    <3>1. /\ list' \in Seq(Tasks) /\ Len(list') = m - 1
          /\ \A j \in 1 .. m - 1 : list'[j] = IF j < at THEN list[j] ELSE list[j + 1]
      <4>1. /\ RemoveAt(list, at) \in Seq(Tasks) /\ Len(RemoveAt(list, at)) = Len(list) - 1
            /\ \A j \in 1 .. Len(list) - 1 :
                 RemoveAt(list, at)[j] = IF j < at THEN list[j] ELSE list[j + 1]
        BY <1>1, <1>2, RemoveAtPlaces
      <4>2. list' = RemoveAt(list, at)
        BY <1>1, <2>1
      <4> QED BY <1>3, <4>1, <4>2
    <3>2. m - 1 \in Nat
      BY <1>4
    <3> QED BY <2>1, <3>1, <3>2
  <2>2. CASE task[t].state # "FINISHED"
    BY <1>1, <1>3, <2>2
  <2> QED BY <2>1, <2>2
<1>6. /\ \A j \in 1 .. p : from(j) \in 1 .. m
      /\ \A i, j \in 1 .. p : i < j => from(i) < from(j)
      /\ \A j \in at' .. p : j \in 1 .. p /\ from(j) \in at + 1 .. m
      /\ \A i \in at + 1 .. m : \E j \in at' .. p : from(j) = i
      /\ at' \in Nat \ {0}
  <2>1. CASE task[t].state = "FINISHED"
    <3>1. at' = at /\ p = m - 1 /\ \A j : from(j) = IF ~ (j < at) THEN j + 1 ELSE j
      BY <1>1, <2>1
    <3> HIDE DEF p, from
    <3>2. \A i \in at + 1 .. m : \E j \in at' .. p : from(j) = i
      <4>1. ASSUME NEW i \in at + 1 .. m PROVE \E j \in at' .. p : from(j) = i
        <5>1. i - 1 \in at .. m - 1 /\ ~ (i - 1 < at) /\ i - 1 + 1 = i
          BY <1>4
        <5>2. i - 1 \in at' .. p /\ from(i - 1) = i
          BY <3>1, <5>1
        <5> QED BY <5>2
      <4> QED BY <4>1
    <3>3. /\ \A j \in 1 .. p : from(j) \in 1 .. m
          /\ \A i, j \in 1 .. p : i < j => from(i) < from(j)
      BY <1>4, <3>1
    <3>4. \A j \in at' .. p : j \in 1 .. p /\ from(j) \in at + 1 .. m
      BY <1>4, <3>1
    <3> QED BY <1>1, <1>4, <3>1, <3>2, <3>3, <3>4
  <2>2. CASE task[t].state # "FINISHED"
    <3>1. at' = at + 1 /\ p = m /\ \A j : from(j) = j
      BY <1>1, <2>2
    <3> HIDE DEF p, from
    <3> QED BY <1>4, <3>1
  <2> QED BY <2>1, <2>2
<1>7. \A i, j \in 1 .. p : i < j => list'[i] < list'[j]
  <2> HIDE DEF p, from
  <2> QED BY <1>4, <1>5, <1>6, ZenonT(30)
<1>8. Leaving' = Leaving \ {t}
  <2>1. /\ Leaving = {u \in Tasks : task[u].remove /\ \E i \in at .. m : list[i] = u}
        /\ Leaving' = {u \in Tasks : task'[u].remove /\ \E i \in at' .. p : list'[i] = u}
    BY <1>1, <1>3, <1>5 DEF Leaving
  <2>2. \A u \in Tasks : task'[u].remove = task[u].remove
    BY <1>2 DEF Kept
  <2>3. \A i \in at + 1 .. m : i \in at .. m /\ list[i] # t
    <3>1. ASSUME NEW i \in at + 1 .. m PROVE i \in at .. m /\ list[i] # t
      <4>1. i \in 1 .. m /\ at < i /\ i \in at .. m
        BY <1>4
      <4>2. list[at] < list[i] /\ list[at] \in Nat /\ list[i] \in Nat
        BY <1>4, <4>1
      <4>3. list[at] # list[i]
        BY <4>2
      <4> QED BY <4>1, <4>3
    <3> QED BY <3>1
  <2> HIDE DEF p, from
  <2>4. ASSUME NEW u \in Leaving' PROVE u \in Leaving \ {t}
    <3>1. PICK j \in at' .. p : list'[j] = u
      BY <2>1
    <3>2. from(j) \in at + 1 .. m /\ list[from(j)] = u
      BY <1>5, <1>6, <3>1
    <3> QED BY <2>1, <2>2, <2>3, <3>2
  <2>5. ASSUME NEW u \in Leaving, u # t PROVE u \in Leaving'
    <3>1. PICK i \in at .. m : list[i] = u
      BY <2>1
    <3>2. i # at
      BY <2>5, <3>1
    <3>3. i \in at + 1 .. m
      BY <1>4, <3>2
    <3>4. PICK j \in at' .. p : from(j) = i
      BY <1>6, <3>3
    <3>5. list'[j] = u
      BY <1>5, <1>6, <3>1, <3>4
    <3> QED BY <2>1, <2>2, <3>5
  <2> QED BY <2>4, <2>5
<1>9. finished' \in Seq(Tasks) /\ ~ (Len(list') = 0 /\ Len(finished') = 0)
  <2>1. CASE task[t].state = "FINISHED"
    <3>1. finished' \in Seq(Tasks) /\ Len(finished') = n + 1
      BY <1>1, <1>2, <1>3, <2>1, AppendProperties
    <3> QED BY <1>3, <3>1
  <2>2. CASE task[t].state # "FINISHED"
    <3>1. m # 0
      BY <1>4
    <3> QED BY <1>1, <1>3, <2>2, <3>1
  <2> QED BY <2>1, <2>2
<1> HIDE DEF p, from
<1> QED BY <1>1, <1>5, <1>6, <1>7, <1>8, <1>9

\* OnEndTick keeps the invariant, also when it erases the task it stands at.
LEMMA EndTickInvariant == SimInv /\ OnEndTick => SimInv'
<1> SUFFICES ASSUME SimInv, OnEndTick PROVE SimInv'
  OBVIOUS
<1> DEFINE t == list[at]
<1>1. /\ SimTypes /\ Walks /\ SchedulerAgrees /\ OneRing /\ Ran /\ Order
      /\ phase = "end" /\ UNCHANGED <<inputs, phase, time, ran>>
  BY DEF SimInv, OnEndTick
<1>2. /\ t \in Tasks /\ at \in 1 .. Len(list) /\ Kept
      /\ task[t].remove =>
           /\ t = running /\ Leaving = {t} /\ Gone(t)
           /\ Dequeued(ClassMap, StateMap, queue, t, queue', running', StateMap')
      /\ ~ task[t].remove => UNCHANGED <<queue, running, task>>
  BY EndTickKeeps
<1>3. /\ list' \in Seq(Tasks) /\ finished' \in Seq(Tasks) /\ at' \in Nat \ {0}
      /\ \A i, j \in 1 .. Len(list') : i < j => list'[i] < list'[j]
      /\ Leaving' = Leaving \ {t}
      /\ task[t].state # "FINISHED" => finished' = finished
      /\ task[t].state = "FINISHED" => finished' = Append(finished, t)
      /\ ~ (Len(list') = 0 /\ Len(finished') = 0)
  BY EndTickLists
<1>4. /\ SimTypes' /\ Bursts' /\ SchedulerAgrees' /\ OneRing' /\ Leavers'
      /\ \A u \in Tasks : task[u].state \in {"FINISHED", "BLOCKED"} => task'[u].state = task[u].state
  BY <1>1, <1>3, EndTickAgrees
<1>5. alg' = alg /\ \A u : Class(u)' = Class(u)
  BY <1>1, Fixed
<1>6. \A u \in Tasks : task'[u].next = task[u].next
  BY <1>2 DEF Kept
<1> HIDE DEF t
<1>7. Walks'
  <2>1. PICK n \in Nat : n = Len(finished)
    BY <1>1, ListTypes
  <2>2. \A i \in 1 .. n : /\ finished[i] \in Tasks /\ task'[finished[i]].state = "FINISHED"
                          /\ finished[i] \notin Leaving'
    <3>1. \A i \in 1 .. n : /\ finished[i] \in Tasks /\ task[finished[i]].state = "FINISHED"
                            /\ finished[i] \notin Leaving
      BY <1>1, <2>1, ListTypes DEF Walks
    <3> QED BY <1>3, <1>4, <3>1
  <2>3. \A i \in 1 .. Len(finished') : /\ task'[finished'[i]].state = "FINISHED"
                                       /\ finished'[i] \notin Leaving'
    <3>1. CASE task[t].state = "FINISHED"
      <4>1. finished' = Append(finished, t) /\ finished \in Seq(Tasks)
        BY <1>1, <1>3, <3>1 DEF SimTypes
      <4>2. /\ Len(finished') = n + 1 /\ finished'[n + 1] = t
            /\ \A i \in 1 .. n : finished'[i] = finished[i]
        BY <1>2, <2>1, <4>1, AppendProperties
      <4>3. \A i \in 1 .. n + 1 : i \in 1 .. n \/ i = n + 1
        OBVIOUS
      <4>4. task'[t].state = "FINISHED" /\ t \notin Leaving'
        BY <1>2, <1>3, <1>4, <3>1
      <4> QED BY <2>2, <4>2, <4>3, <4>4
    <3>2. CASE task[t].state # "FINISHED"
      BY <1>3, <2>1, <2>2, <3>2
    <3> QED BY <3>1, <3>2
  <2> QED BY <1>1, <1>3, <2>3 DEF Walks
<1>8. Ran'
  <2>1. ASSUME ran \in Tasks, Gone(ran)
        PROVE  \/ task'[ran].state = "FINISHED"
               \/ task'[ran].state = "BLOCKED" /\ task'[ran].next > time'
    <3>1. \/ task[ran].state = "FINISHED"
          \/ task[ran].state = "BLOCKED" /\ task[ran].next > time
      BY <2>1 DEF Gone
    <3> QED BY <1>1, <1>4, <1>6, <2>1, <3>1
  <2>2. ASSUME ran \in Tasks, ran = HeadOf(queue[Class(ran)])
        PROVE  Gone(ran) \/ ran = HeadOf(queue'[Class(ran)])
    <3>1. Class(ran) \in Classes
      BY <1>1, <2>2, ClassType
    <3>2. CASE task[t].remove /\ Class(ran) = Class(t)
      <4>1. t = running /\ Gone(t) /\ t # NoTask
        BY <1>2, <3>2, NoTaskIsNone
      <4>2. t = HeadOf(queue[Class(t)])
        BY <1>1, <4>1 DEF SchedulerAgrees
      <4> QED BY <2>2, <3>2, <4>1, <4>2
    <3>3. CASE task[t].remove /\ Class(ran) # Class(t)
      <4>1. Dequeued(ClassMap, StateMap, queue, t, queue', running', StateMap')
        BY <1>2, <3>3
      <4>2. ClassMap[t] = Class(t)
        BY <1>2 DEF ClassMap
      <4>3. queue'[Class(ran)] = queue[Class(ran)]
        BY <3>1, <3>3, <4>1, <4>2 DEF Dequeued, RingIs
      <4> QED BY <2>2, <4>3
    <3>4. CASE ~ task[t].remove
      BY <1>2, <2>2, <3>4
    <3> QED BY <3>2, <3>3, <3>4
  <2>3. \/ ran = NoTask
        \/ ran \in Tasks /\ ran = HeadOf(queue[Class(ran)])
        \/ ran \in Tasks /\ Gone(ran)
    BY <1>1 DEF Ran
  <2>4. \/ ran' = NoTask
        \/ ran' \in Tasks /\ ran' = HeadOf(queue'[Class(ran)'])
        \/ /\ ran' \in Tasks
           /\ \/ task'[ran'].state = "FINISHED"
              \/ task'[ran'].state = "BLOCKED" /\ task'[ran'].next > time'
    <3>1. ran' = ran /\ Class(ran)' = Class(ran)
      BY <1>1, <1>5
    <3>2. CASE ran = NoTask
      BY <3>1, <3>2
    <3>3. CASE ran \in Tasks /\ ran = HeadOf(queue'[Class(ran)])
      BY <3>1, <3>3
    <3>4. CASE ran \in Tasks /\ Gone(ran)
      BY <2>1, <3>1, <3>4
    <3> QED BY <2>2, <2>3, <3>2, <3>3, <3>4
  <2>5. phase' = "end"
    BY <1>1
  <2> QED BY <1>3, <2>4, <2>5 DEF Ran, Gone
<1>9. Order'
  <2> SUFFICES ASSUME alg \notin Timed PROVE Order'
    BY <1>5 DEF Order
  <2> DEFINE q == queue[0]
  <2>1. /\ \A i, j \in 1 .. Len(q) : i < j /\ q[i] \notin Leaving => Before(q[i], q[j])
        /\ \A i \in 1 .. Len(q) : q[i] \notin Leaving => task[q[i]].next <= time /\ task[q[i]].next < time
    BY <1>1 DEF Order
  <2>2. \A i \in 1 .. Len(q) : q[i] \in Tasks
    BY <1>1, ListTypes
  <2>3. CASE task[t].remove
    <3>1. /\ t = running /\ Leaving = {t} /\ Leaving' = {}
          /\ Dequeued(ClassMap, StateMap, queue, t, queue', running', StateMap')
      BY <1>2, <1>3, <2>3
    <3>2. alg \notin ByPriority /\ 0 \in Classes /\ q \in Seq(Tasks) /\ IsInjective(q)
      BY <1>1, NoTaskIsNone DEF Timed, ByPriority, SimTypes, SchedulerAgrees
    <3>3. q # <<>> /\ t = q[1]
      <4>1. t = HeadOf(q) /\ t # NoTask
        BY <1>1, <1>2, <3>1, <3>2, NoTaskIsNone DEF OneRing
      <4> QED BY <3>2, <4>1, NoTaskIsNone
    <3>4. queue'[0] = Tail(q)
      <4>1. ClassMap[t] = 0
        BY <1>1, <1>2, <3>2, ClassType DEF ClassMap
      <4> QED BY <3>1, <4>1 DEF Dequeued, RingIs
    <3> DEFINE r == Tail(q)
    <3>5. PICK n \in Nat \ {0} : n = Len(q)
      BY <3>2, <3>3, Injective
    <3>6. Len(r) = n - 1 /\ \A i \in 1 .. n - 1 : r[i] = q[i + 1] /\ q[i + 1] # t
      <4> HIDE DEF q
      <4> QED BY <3>2, <3>3, <3>5, TailRing
    <3> HIDE DEF r, q
    <3>7. \A i, j \in 1 .. n - 1 : /\ i + 1 \in 1 .. n /\ j + 1 \in 1 .. n
                                   /\ i < j => i + 1 < j + 1
      BY <3>5
    <3>8. \A i, j \in 1 .. n - 1 : i < j =>
            \/ task'[r[i]].next < task'[r[j]].next
            \/ task'[r[i]].next = task'[r[j]].next /\ r[i] < r[j]
      <4>1. ASSUME NEW i \in 1 .. n - 1, NEW j \in 1 .. n - 1, i < j
            PROVE  Before(q[i + 1], q[j + 1]) /\ q[i + 1] \in Tasks /\ q[j + 1] \in Tasks
        BY <2>1, <2>2, <3>1, <3>5, <3>6, <3>7, <4>1
      <4>2. ASSUME NEW i \in 1 .. n - 1, NEW j \in 1 .. n - 1, i < j
            PROVE  \/ task'[r[i]].next < task'[r[j]].next
                   \/ task'[r[i]].next = task'[r[j]].next /\ r[i] < r[j]
        <5>1. r[i] = q[i + 1] /\ r[j] = q[j + 1]
          BY <3>6
        <5>2. Before(q[i + 1], q[j + 1]) /\ q[i + 1] \in Tasks /\ q[j + 1] \in Tasks
          BY <4>1, <4>2
        <5>3. /\ task'[q[i + 1]].next = task[q[i + 1]].next
              /\ task'[q[j + 1]].next = task[q[j + 1]].next
          BY <1>6, <5>2
        <5> QED BY <5>1, <5>2, <5>3 DEF Before
      <4> QED BY <4>2
    <3>9. \A i \in 1 .. n - 1 : task'[r[i]].next <= time' /\ task'[r[i]].next < time'
      <4>1. ASSUME NEW i \in 1 .. n - 1
            PROVE  /\ task[q[i + 1]].next <= time /\ task[q[i + 1]].next < time
                   /\ q[i + 1] \in Tasks
        <5>1. i + 1 \in 1 .. n /\ q[i + 1] \notin Leaving
          BY <3>1, <3>6, <3>7
        <5> QED BY <2>1, <2>2, <3>5, <5>1
      <4> QED BY <1>1, <1>6, <3>6, <4>1
    <3>10. phase' = "end" /\ queue'[0] = r /\ Len(r) = n - 1
      BY <1>1, <3>4, <3>6 DEF r
    <3> QED BY <3>8, <3>9, <3>10 DEF Order, Before
  <2>4. CASE ~ task[t].remove
    <3>1. UNCHANGED <<queue, running, task>>
      BY <1>2, <2>4
    <3>2. Leaving' = Leaving
      <4>1. t \notin Leaving
        BY <2>4 DEF Leaving
      <4> QED BY <1>3, <4>1
    <3>3. phase' = "end" /\ time' = time /\ queue' = queue /\ task' = task
      BY <1>1, <3>1
    <3> QED BY <2>1, <3>2, <3>3 DEF Order, Before
  <2> QED BY <2>3, <2>4
<1>10. RightTaskRuns'
  BY <1>1 DEF RightTaskRuns
<1> QED BY <1>4, <1>7, <1>8, <1>9, <1>10 DEF SimInv

-----------------------------------------------------------------------------
(* The simulation.                                                         *)

\* The constructor leaves a 0 behind the last run, at an odd place that no
\* block time reaches.
LEMMA TimesType ==
  ASSUME NEW j \in Jobs
  PROVE  /\ Len(j.runs) \in Nat \ {0}
         /\ Times(j) \in [0 .. 2 * Len(j.runs) - 1 -> Int]
         /\ Times(j)[2 * Len(j.runs) - 1] = 0
<1>1. /\ j.runs \in Seq(Nat) /\ j.blocks \in Seq(Nat)
      /\ Len(j.blocks) < Len(j.runs) /\ Len(j.runs) \in Nat /\ Len(j.blocks) \in Nat
  BY TasksAssumption, LenProperties
<1>2. PICK n \in Nat, b \in Nat : n = Len(j.runs) /\ b = Len(j.blocks) /\ b < n
  BY <1>1
<1>3. /\ \A i \in 1 .. n : j.runs[i] \in Nat
      /\ \A i \in 1 .. b : j.blocks[i] \in Nat
  BY <1>1, <1>2, ElementOfSeq
<1>4. Times(j) = [i \in 0 .. 2 * n - 1 |->
                    IF i % 2 = 0 THEN j.runs[i \div 2 + 1]
                    ELSE IF i \div 2 < b THEN j.blocks[i \div 2 + 1] ELSE 0]
  BY <1>2 DEF Times
<1>5. \A i \in 0 .. 2 * n - 1 : /\ i % 2 = 0 => i \div 2 + 1 \in 1 .. n
                                /\ i \div 2 < b => i \div 2 + 1 \in 1 .. b
  OBVIOUS
<1>6. /\ 2 * n - 1 \in 0 .. 2 * n - 1 /\ (2 * n - 1) % 2 # 0 /\ (2 * n - 1) \div 2 = n - 1
      /\ ~ (n - 1 < b) /\ n \in Nat \ {0}
  <2>1. PICK p \in Nat : p = n - 1
    BY <1>2
  <2>2. 2 * n - 1 = 2 * p + 1 /\ n = p + 1 /\ b < p + 1
    BY <1>2, <2>1
  <2>3. (2 * p + 1) % 2 # 0 /\ (2 * p + 1) \div 2 = p
    OBVIOUS
  <2>4. ~ (p < b) /\ 2 * n - 1 \in 0 .. 2 * n - 1 /\ n \in Nat \ {0}
    BY <1>2, <2>1
  <2> QED BY <2>1, <2>2, <2>3, <2>4
<1>7. Times(j)[2 * n - 1] = 0
  BY <1>4, <1>6
<1>8. Times(j) \in [0 .. 2 * n - 1 -> Int]
  <2>1. ASSUME NEW i \in 0 .. 2 * n - 1
        PROVE  (IF i % 2 = 0 THEN j.runs[i \div 2 + 1]
                ELSE IF i \div 2 < b THEN j.blocks[i \div 2 + 1] ELSE 0) \in Int
    <3>1. CASE i % 2 = 0
      <4>1. j.runs[i \div 2 + 1] \in Nat
        BY <1>3, <1>5, <3>1
      <4> QED BY <3>1, <4>1
    <3>2. CASE i % 2 # 0 /\ i \div 2 < b
      <4>1. j.blocks[i \div 2 + 1] \in Nat
        BY <1>3, <1>5, <3>2
      <4> QED BY <3>2, <4>1
    <3>3. CASE i % 2 # 0 /\ ~ (i \div 2 < b)
      BY <3>3
    <3> QED BY <3>1, <3>2, <3>3
  <2> QED BY <1>4, <2>1
<1> QED BY <1>2, <1>6, <1>7, <1>8

\* The rings at the start.
LEMMA EmptyRing ==
  ASSUME NEW r \in Seq(Tasks), Len(r) = 0
  PROVE  IsInjective(r) /\ Range(r) = {}
<1>1. DOMAIN r = {}
  <2>1. DOMAIN r = 1 .. Len(r)
    BY LenProperties
  <2> QED BY <2>1
<1> QED BY <1>1 DEF IsInjective, Range

\* The invariant holds at the start of every simulation.
LEMMA InitInvariant == Init => SimInv
<1> SUFFICES ASSUME Init PROVE SimInv
  OBVIOUS
<1>1. /\ job \in [Tasks -> Jobs]
      /\ phase = "start" /\ at = 1 /\ time = 0 /\ finished = <<>>
      /\ list = [t \in Tasks |-> t] /\ queue = [c \in Classes |-> <<>>]
      /\ running = NoTask /\ ran = NoTask
      /\ task = [t \in Tasks |-> NewTask(job[t])]
  BY DEF Init
<1>2. Leaving = {}
  BY <1>1, NobodyLeaves
<1>3. /\ list \in Seq(Tasks) /\ finished \in Seq(Tasks) /\ Len(finished) = 0
      /\ \A i \in 1 .. Len(list) : list[i] = i
  <2>1. list \in [1 .. NTasks -> Tasks] /\ NTasks \in Nat
    BY <1>1, TasksAssumption DEF Tasks
  <2>2. list \in Seq(Tasks)
    BY <2>1, SeqDef
  <2>3. Len(list) = NTasks
    BY <2>1, <2>2, LenProperties
  <2>4. finished \in Seq(Tasks) /\ Len(finished) = 0
    BY <1>1, EmptySeq
  <2> QED BY <1>1, <2>2, <2>3, <2>4 DEF Tasks
<1>4. /\ queue \in [Classes -> Seq(Tasks)]
      /\ \A c \in Classes : /\ queue[c] = <<>> /\ IsInjective(queue[c])
                            /\ Range(queue[c]) = {} /\ Len(queue[c]) = 0
  <2> DEFINE e == <<>>
  <2>1. e \in Seq(Tasks) /\ Len(e) = 0
    BY EmptySeq
  <2>2. \A c \in Classes : queue[c] = e
    BY <1>1
  <2>3. queue \in [Classes -> Seq(Tasks)]
    BY <1>1, <2>1
  <2>4. IsInjective(e) /\ Range(e) = {}
    BY <2>1, EmptyRing
  <2> QED BY <2>1, <2>2, <2>3, <2>4
<1>5. ASSUME NEW t \in Tasks
      PROVE  /\ task[t] \in Fields(Runs(t)) /\ task[t].times[2 * Runs(t) - 1] = 0
             /\ Runs(t) \in Nat \ {0} /\ task[t].index = 0 /\ task[t].state = "INIT"
  <2>1. job[t] \in Jobs /\ job[t].arrive \in Nat
    BY <1>1, TasksAssumption
  <2>2. /\ task[t] = NewTask(job[t]) /\ Times(job[t])[2 * Runs(t) - 1] = 0
        /\ Times(job[t]) \in [0 .. 2 * Runs(t) - 1 -> Int] /\ Runs(t) \in Nat \ {0}
    BY <1>1, <2>1, TimesType DEF Runs
  <2>3. NewTask(job[t]) \in Fields(Runs(t))
    BY <2>1, <2>2 DEF NewTask, Fields, States
  <2>4. NewTask(job[t]).times = Times(job[t]) /\ NewTask(job[t]).index = 0
        /\ NewTask(job[t]).state = "INIT"
    BY DEF NewTask
  <2> QED BY <2>2, <2>3, <2>4
<1>6. SimTypes
  BY <1>1, <1>3, <1>4, <1>5, NoTaskIsNone DEF SimTypes
<1>7. Bursts
  <2>1. ASSUME NEW t \in Tasks PROVE \E m \in 0 .. Runs(t) - 1 : task[t].index = 2 * m
    <3>1. 0 \in 0 .. Runs(t) - 1 /\ task[t].index = 2 * 0
      BY <1>5
    <3> QED BY <3>1
  <2> QED BY <1>5, <2>1 DEF Bursts
<1>8. Walks /\ Leavers
  BY <1>1, <1>2, <1>3 DEF Walks, Leavers
<1>9. SchedulerAgrees /\ OneRing
  <2>1. SchedulerAgrees
    BY <1>1, <1>2, <1>4, <1>5 DEF SchedulerAgrees
  <2>2. running = HeadOf(queue[0])
    BY <1>1, <1>4, NoTaskIsNone DEF HeadOf
  <2> QED BY <2>1, <2>2 DEF OneRing
<1>10. Ran /\ RightTaskRuns
  BY <1>1 DEF Ran, RightTaskRuns
<1>11. Order
  <2>1. 1 .. Len(queue[0]) = {}
    BY <1>4, NoTaskIsNone
  <2> QED BY <2>1 DEF Order
<1> QED BY <1>6, <1>7, <1>8, <1>9, <1>10, <1>11 DEF SimInv

\* The invariant is about the variables of the simulator only.
LEMMA RestInvariant == SimInv /\ UNCHANGED vars => SimInv'
<1> SUFFICES ASSUME SimInv, UNCHANGED vars PROVE SimInv'
  OBVIOUS
<1>1. /\ alg' = alg /\ job' = job /\ phase' = phase /\ at' = at /\ time' = time
      /\ list' = list /\ finished' = finished /\ queue' = queue /\ running' = running
      /\ task' = task /\ ran' = ran
  BY DEF vars, inputs, control
<1>2. \A t : Class(t)' = Class(t)
  BY <1>1 DEF Class
<1>3. Leaving' = Leaving
  BY <1>1 DEF Leaving
<1>4. SimTypes' /\ Bursts' /\ Walks' /\ Leavers'
  BY <1>1, <1>3 DEF SimInv, SimTypes, Bursts, Walks, Leavers, Gone, Runs
<1>5. SchedulerAgrees' /\ OneRing'
  BY <1>1, <1>2, <1>3 DEF SimInv, SchedulerAgrees, OneRing
<1>6. Ran' /\ Order'
  BY <1>1, <1>2, <1>3 DEF SimInv, Ran, Order, Gone, Before
<1>7. RightTaskRuns'
  BY <1>1, <1>2 DEF SimInv, RightTaskRuns, Queued
<1> QED BY <1>4, <1>5, <1>6, <1>7 DEF SimInv

\* Whatever the tasks and the algorithm, each handler that RunTick calls keeps
\* the rings, the states and the order of the arrivals as the next one needs them.
THEOREM SimulatorInvariance == Init /\ [][Next]_vars => []SimInv
<1>1. Init => SimInv
  BY InitInvariant
<1>2. SimInv /\ [Next]_vars => SimInv'
  BY StartTickInvariant, SchedulerTickInvariant, SysTickInvariant, AllTickedInvariant,
     EndTickInvariant, TickIsOverInvariant, RestInvariant DEF Next
<1> QED BY <1>1, <1>2, PTL

\* RemoveTask takes the running task out of its ring whichever task asks for it:
\* at every call the two are the same, and no ring has lost or doubled a task.
THEOREM SchedulerAlwaysAgrees == Init /\ [][Next]_vars => []SchedulerAgrees
<1>1. SimInv => SchedulerAgrees
  BY DEF SimInv
<1> QED BY <1>1, SimulatorInvariance, PTL

\* The task that runs in a tick is the one the policy names: the processor is
\* not left idle, prr serves the highest class, rr and prr go round their rings,
\* fcfs serves in the order of arrival, and fcfs and srtn let who runs run on.
THEOREM RightTaskAlwaysRuns == Init /\ [][Next]_vars => []RightTaskRuns
<1>1. SimInv => RightTaskRuns
  BY DEF SimInv
<1> QED BY <1>1, SimulatorInvariance, PTL

-----------------------------------------------------------------------------
(* Sums over bursts and waveforms.                                         *)

\* The partial sums of a sequence, step by step.
LEMMA SumSteps ==
  ASSUME NEW s \in Seq(Nat)
  PROVE  /\ Sums(s)[0] = 0
         /\ \A i \in 1 .. Len(s) : Sums(s)[i] = Sums(s)[i - 1] + s[i]
<1>1. PICK n \in Nat : n = Len(s)
  BY LenProperties
<1>2. \A i \in 1 .. n : s[i] \in Nat
  BY <1>1, ElementOfSeq
<1> DEFINE add(i) == [x \in Nat |-> x + s[i]]
           step == [i \in 1 .. n |-> add(i)]
<1>3. ASSUME NEW i \in 1 .. n PROVE step[i] = add(i) /\ add(i) \in [Nat -> Nat]
  <2>1. \A x \in Nat : x + s[i] \in Nat
    BY <1>2
  <2>2. add(i) \in [Nat -> Nat]
    BY <2>1
  <2> QED BY <2>2
<1>4. step \in [1 .. n -> [Nat -> Nat]] /\ \A i \in 1 .. n, x \in Nat : step[i][x] = x + s[i]
  <2>1. \A i \in 1 .. n, x \in Nat : add(i)[x] = x + s[i]
    OBVIOUS
  <2>2. step = [i \in 1 .. n |-> step[i]]
    OBVIOUS
  <2> HIDE DEF add, step
  <2> QED BY <1>3, <2>1, <2>2
<1> HIDE DEF step
<1>5. PICK w \in [0 .. n -> Nat] : w[0] = 0 /\ \A i \in 1 .. n : w[i] = step[i][w[i - 1]]
  <2>1. PICK X, z : X = Nat /\ z = 0
    OBVIOUS
  <2>2. z \in X /\ StepsIn(step, n, X)
    BY <1>4, <2>1 DEF StepsIn
  <2>3. \E w \in [0 .. n -> X] : w[0] = z /\ \A i \in 1 .. n : w[i] = step[i][w[i - 1]]
    BY <2>2, Recursion
  <2> QED BY <2>1, <2>3
<1>6. \A i \in 1 .. n : w[i] = w[i - 1] + s[i]
  <2>1. \A i \in 1 .. n : i - 1 \in 0 .. n
    OBVIOUS
  <2> QED BY <1>4, <1>5, <2>1
<1> DEFINE Is(g) == g = [i \in 0 .. Len(s) |-> IF i = 0 THEN 0 ELSE g[i - 1] + s[i]]
<1>7. \E g : Is(g)
  <2>2. ASSUME NEW i \in 0 .. n PROVE w[i] = IF i = 0 THEN 0 ELSE w[i - 1] + s[i]
    <3>1. i = 0 \/ i \in 1 .. n
      OBVIOUS
    <3> QED BY <1>5, <1>6, <3>1
  <2>3. w = [i \in 0 .. n |-> IF i = 0 THEN 0 ELSE w[i - 1] + s[i]]
    BY <2>2
  <2> QED BY <1>1, <2>3
<1>8. Sums(s) = CHOOSE g : Is(g)
  BY DEF Sums
<1>9. Is(Sums(s))
  <2> HIDE DEF Is
  <2> QED BY <1>7, <1>8
<1>10. Sums(s) = [i \in 0 .. n |-> IF i = 0 THEN 0 ELSE Sums(s)[i - 1] + s[i]]
  BY <1>1, <1>9
<1> HIDE DEF Is
<1> DEFINE f == Sums(s)
<1> HIDE DEF f
<1>11. f = [i \in 0 .. n |-> IF i = 0 THEN 0 ELSE f[i - 1] + s[i]]
  BY <1>10 DEF f
<1>12. f[0] = 0 /\ \A i \in 1 .. n : f[i] = f[i - 1] + s[i]
  <2>1. 0 \in 0 .. n /\ \A i \in 1 .. n : i \in 0 .. n /\ i # 0
    OBVIOUS
  <2> QED BY <1>11, <2>1
<1> QED BY <1>1, <1>12 DEF f

\* One more node is counted once.
LEMMA ShownAppend ==
  ASSUME NEW S, NEW w \in Seq(S), NEW x \in S, NEW s
  PROVE  /\ Shown(w, s) \in Nat
         /\ Shown(Append(w, x), s) = Shown(w, s) + IF x = s THEN 1 ELSE 0
<1> DEFINE a == Append(w, x)
           A == {i \in DOMAIN w : w[i] = s}
           B == {i \in DOMAIN a : a[i] = s}
<1>1. PICK n \in Nat : n = Len(w) /\ DOMAIN w = 1 .. n
  BY LenProperties
<1>2. /\ a \in Seq(S) /\ Len(a) = n + 1 /\ a[n + 1] = x
      /\ \A i \in 1 .. n : a[i] = w[i]
  BY <1>1, AppendProperties
<1>3. DOMAIN a = 1 .. n + 1
  BY <1>2, LenProperties
<1> HIDE DEF a
<1>4. \A i \in 1 .. n + 1 : i \in 1 .. n \/ i = n + 1
  BY <1>1
<1>5. n + 1 \in 1 .. n + 1 /\ n + 1 \notin 1 .. n /\ \A i \in 1 .. n : i \in 1 .. n + 1
  BY <1>1
<1>6. IsFiniteSet(A)
  <2>1. 1 \in Int /\ n \in Int
    BY <1>1
  <2>2. IsFiniteSet(1 .. n)
    BY <2>1, FS_Interval
  <2>3. A \subseteq 1 .. n
    BY <1>1
  <2> QED BY <2>2, <2>3, FS_Subset
<1>7. n + 1 \notin A
  BY <1>1, <1>5
<1>8. B = IF x = s THEN A \cup {n + 1} ELSE A
  BY <1>1, <1>2, <1>3, <1>4, <1>5
<1>9. Shown(w, s) = Cardinality(A) /\ Shown(a, s) = Cardinality(B)
  BY DEF Shown
<1> HIDE DEF A, B
<1>10. Cardinality(A) \in Nat
  BY <1>6, FS_CardinalityType
<1>11. Cardinality(A \cup {n + 1}) = Cardinality(A) + 1
  BY <1>6, <1>7, FS_AddElement
<1> QED BY <1>8, <1>9, <1>10, <1>11 DEF a

\* Nothing is in an empty waveform.
LEMMA ShownNone ==
  ASSUME NEW w, w = <<>>, NEW s
  PROVE  Shown(w, s) = 0
<1>1. {i \in DOMAIN w : w[i] = s} = {}
  OBVIOUS
<1> QED BY <1>1, FS_EmptySet DEF Shown

-----------------------------------------------------------------------------
(* The accounts.                                                           *)

\* The node of a tick is the state that last_state keeps, unless the task has
\* been queued since.
LastNode(k, w) ==
  \/ Len(w) = 0
  \/ k.last = w[Len(w)]
  \/ k.last \in {"NOT_ARRIVED", "BLOCKED"} /\ k.state \in {"READY", "RUNNING"}

\* A task waits for a tick to come, or for its turn since one that was.
ClockIs(k, w, between) ==
  /\ k.state \in {"INIT", "NOT_ARRIVED", "BLOCKED"} =>
       k.next >= Len(w) /\ (between => k.next # Len(w))
  /\ k.state \in {"READY", "RUNNING"} =>
       k.next <= Len(w) /\ (~ between => k.next # Len(w))
  /\ k.state = "FINISHED" => k.next < Len(w)

\* The log's counters are those of the waveform.
CountsAre(k, w, j) ==
  /\ k.runTime = Shown(w, "RUNNING") /\ k.blockTime = Shown(w, "BLOCKED")
  /\ Shown(w, "NOT_ARRIVED") = IF k.state \in {"INIT", "NOT_ARRIVED"} THEN Len(w) ELSE j.arrive
  /\ k.state # "FINISHED" =>
       Len(w) = Shown(w, "NOT_ARRIVED") + Shown(w, "READY") + Shown(w, "RUNNING")
                  + Shown(w, "BLOCKED")
  /\ k.state = "FINISHED" => k.finish = j.arrive + k.runTime + k.blockTime + Shown(w, "READY")

\* The task has begun m of its blocks.
HasDone(k, w, j, m) ==
  /\ \A p \in 2 * m + 1 .. 2 * Len(j.runs) - 1 : k.times[p] = Times(j)[p]
  /\ k.state # "FINISHED" => k.index = 2 * m /\ k.runTime + k.times[2 * m] = Sums(j.runs)[m + 1]
  /\ k.state \in {"INIT", "NOT_ARRIVED"} =>
       m = 0 /\ k.bursts = 0 /\ k.blockTime = 0 /\ k.next = j.arrive
  /\ k.state \in {"READY", "RUNNING"} => k.bursts = m + 1 /\ k.blockTime = Sums(j.blocks)[m]
  /\ k.state = "BLOCKED" =>
       k.bursts = m /\ k.blockTime + k.next - Len(w) = Sums(j.blocks)[m]
  /\ k.state = "FINISHED" =>
       /\ k.runTime = Sums(j.runs)[m + 1] /\ k.blockTime = Sums(j.blocks)[m]
       /\ k.bursts = m + 1 /\ Times(j)[2 * m + 1] = 0

AccountOf(k, w, j, between) ==
  /\ LastNode(k, w) /\ ClockIs(k, w, between) /\ CountsAre(k, w, j)
  /\ \E m \in 0 .. Len(j.blocks) : HasDone(k, w, j, m)

\* The same fields but for the state.
Alike(k, l) ==
  /\ l.last = k.last /\ l.times = k.times /\ l.index = k.index /\ l.next = k.next
  /\ l.runTime = k.runTime /\ l.blockTime = k.blockTime /\ l.finish = k.finish
  /\ l.bursts = k.bursts
TaskOf(k, w, j) ==
  /\ k \in Fields(Len(j.runs)) /\ w \in Seq(States)
  /\ j.runs \in Seq(Nat) /\ j.blocks \in Seq(Nat) /\ Len(j.blocks) < Len(j.runs)
  /\ j.arrive \in Nat
Queueable == {"READY", "RUNNING"}

\* The numbers in a task's fields.
LEMMA TaskNumbers ==
  ASSUME NEW k, NEW w, NEW j, TaskOf(k, w, j)
  PROVE  /\ Len(w) \in Nat /\ Len(j.runs) \in Nat /\ Len(j.blocks) \in Nat /\ j.arrive \in Nat
         /\ Len(j.blocks) < Len(j.runs)
         /\ k.next \in Nat /\ k.runTime \in Nat /\ k.blockTime \in Nat /\ k.bursts \in Nat
         /\ k.index \in Nat /\ k.finish \in Nat /\ k.state \in States
         /\ k.times \in [0 .. 2 * Len(j.runs) - 1 -> Int]
         /\ \A s : Shown(w, s) \in Nat
<1>1. Len(w) \in Nat /\ Len(j.runs) \in Nat /\ Len(j.blocks) \in Nat
  BY LenProperties DEF TaskOf
<1>2. /\ k.next \in Nat /\ k.runTime \in Nat /\ k.blockTime \in Nat /\ k.bursts \in Nat
      /\ k.index \in Nat /\ k.finish \in Nat /\ k.state \in States
      /\ k.times \in [0 .. 2 * Len(j.runs) - 1 -> Int]
  BY DEF TaskOf, Fields
<1>3. ASSUME NEW s PROVE Shown(w, s) \in Nat
  <2>1. w \in Seq(States) /\ "READY" \in States
    BY DEF TaskOf, States
  <2> QED BY <2>1, ShownAppend
<1> QED BY <1>1, <1>2, <1>3 DEF TaskOf

\* A swap moves no account.
LEMMA SwapAccount ==
  ASSUME NEW k, NEW l, NEW w, NEW j, NEW b, AccountOf(k, w, j, b), Alike(k, l),
         l.state = k.state \/ (k.state \in Queueable /\ l.state \in Queueable)
  PROVE  AccountOf(l, w, j, b)
<1>1. LastNode(l, w)
  BY DEF AccountOf, LastNode, Alike, Queueable
<1>2. ClockIs(l, w, b)
  BY DEF AccountOf, ClockIs, Alike, Queueable
<1>3. CountsAre(l, w, j)
  BY DEF AccountOf, CountsAre, Alike, Queueable
<1>4. ASSUME NEW m \in 0 .. Len(j.blocks), HasDone(k, w, j, m) PROVE HasDone(l, w, j, m)
  BY <1>4 DEF HasDone, Alike, Queueable
<1> QED BY <1>1, <1>2, <1>3, <1>4 DEF AccountOf

\* A task whose tick has not come waits on, and has arrived if it had not been
\* looked at.
LEMMA WaitAccount ==
  ASSUME NEW k, NEW l, NEW w, NEW j, TaskOf(k, w, j), AccountOf(k, w, j, FALSE), Alike(k, l),
         l.state = IF k.state = "INIT" THEN "NOT_ARRIVED" ELSE k.state,
         k.next # Len(w)
  PROVE  AccountOf(l, w, j, TRUE)
<1>1. LastNode(l, w)
  BY DEF AccountOf, LastNode, Alike
<1>2. ClockIs(l, w, TRUE)
  BY DEF AccountOf, ClockIs, Alike
<1>3. CountsAre(l, w, j)
  BY DEF AccountOf, CountsAre, Alike
<1>4. ASSUME NEW m \in 0 .. Len(j.blocks), HasDone(k, w, j, m) PROVE HasDone(l, w, j, m)
  BY <1>4 DEF HasDone, Alike
<1> QED BY <1>1, <1>2, <1>3, <1>4 DEF AccountOf

\* A task that is finished is not looked at any more.
LEMMA FinishedAccount ==
  ASSUME NEW k, NEW w, NEW j, NEW b, NEW c, AccountOf(k, w, j, b), k.state = "FINISHED"
  PROVE  AccountOf(k, w, j, c)
BY DEF AccountOf, ClockIs

\* A task whose tick has come is queued, at its arrival or at the end of a block.
LEMMA QueueAccount ==
  ASSUME NEW k, NEW l, NEW w, NEW j, TaskOf(k, w, j), AccountOf(k, w, j, FALSE),
         k.state \in {"INIT", "NOT_ARRIVED", "BLOCKED"}, k.next = Len(w),
         l.state \in Queueable, l.last \in {"NOT_ARRIVED", "BLOCKED"},
         l.bursts = k.bursts + 1, l.times = k.times, l.index = k.index, l.next = k.next,
         l.runTime = k.runTime, l.blockTime = k.blockTime
  PROVE  AccountOf(l, w, j, TRUE)
<1>1. LastNode(l, w)
  BY DEF LastNode, Queueable
<1>2. ClockIs(l, w, TRUE)
  BY TaskNumbers DEF ClockIs, Queueable
<1>3. PICK m \in 0 .. Len(j.blocks) : HasDone(k, w, j, m)
  BY DEF AccountOf
<1>4. CountsAre(l, w, j)
  <2>1. /\ k.runTime = Shown(w, "RUNNING") /\ k.blockTime = Shown(w, "BLOCKED")
        /\ Shown(w, "NOT_ARRIVED") = IF k.state \in {"INIT", "NOT_ARRIVED"} THEN Len(w) ELSE j.arrive
        /\ Len(w) = Shown(w, "NOT_ARRIVED") + Shown(w, "READY") + Shown(w, "RUNNING")
                      + Shown(w, "BLOCKED")
    BY DEF AccountOf, CountsAre
  <2>2. Shown(w, "NOT_ARRIVED") = j.arrive
    BY <1>3, <2>1 DEF HasDone
  <2> QED BY <2>1, <2>2 DEF CountsAre, Queueable
<1>5. HasDone(l, w, j, m)
  <2>1. k.blockTime = Sums(j.blocks)[m] /\ k.bursts = m
    <3>1. CASE k.state = "BLOCKED"
      <4>1. k.bursts = m /\ k.blockTime + k.next - Len(w) = Sums(j.blocks)[m]
        BY <1>3, <3>1 DEF HasDone
      <4>2. k.blockTime + k.next - Len(w) = k.blockTime
        BY TaskNumbers
      <4> QED BY <4>1, <4>2
    <3>2. CASE k.state \in {"INIT", "NOT_ARRIVED"}
      <4>1. m = 0 /\ k.bursts = 0 /\ k.blockTime = 0
        BY <1>3, <3>2 DEF HasDone
      <4>2. Sums(j.blocks)[0] = 0
        BY SumSteps DEF TaskOf
      <4> QED BY <4>1, <4>2
    <3> QED BY <3>1, <3>2
  <2> QED BY <1>3, <2>1 DEF HasDone, Queueable
<1> QED BY <1>1, <1>2, <1>4, <1>5 DEF AccountOf

\* The times of a task are those of its job, in turn.
LEMMA TimesAt ==
  ASSUME NEW j, j.runs \in Seq(Nat), j.blocks \in Seq(Nat), Len(j.blocks) < Len(j.runs),
         NEW m \in 0 .. Len(j.blocks)
  PROVE  /\ Times(j)[2 * m] = j.runs[m + 1] /\ j.runs[m + 1] \in Nat
         /\ Times(j)[2 * m + 1] \in Nat
         /\ m < Len(j.blocks) => Times(j)[2 * m + 1] = j.blocks[m + 1]
         /\ m = Len(j.blocks) => Times(j)[2 * m + 1] = 0
<1>1. PICK n \in Nat, b \in Nat : n = Len(j.runs) /\ b = Len(j.blocks) /\ b < n
  BY LenProperties
<1>2. /\ \A i \in 1 .. n : j.runs[i] \in Nat
      /\ \A i \in 1 .. b : j.blocks[i] \in Nat
  BY <1>1, ElementOfSeq
<1>3. Times(j) = [i \in 0 .. 2 * n - 1 |->
                    IF i % 2 = 0 THEN j.runs[i \div 2 + 1]
                    ELSE IF i \div 2 < b THEN j.blocks[i \div 2 + 1] ELSE 0]
  BY <1>1 DEF Times
<1>4. m \in Nat /\ m <= b /\ m + 1 \in 1 .. n /\ 2 * m \in 0 .. 2 * n - 1 /\ 2 * m + 1 \in 0 .. 2 * n - 1
  BY <1>1
<1>5. (2 * m) % 2 = 0 /\ (2 * m) \div 2 = m /\ (2 * m + 1) % 2 # 0 /\ (2 * m + 1) \div 2 = m
  BY <1>4
<1>6. Times(j)[2 * m] = j.runs[m + 1]
  BY <1>3, <1>4, <1>5
<1>7. Times(j)[2 * m + 1] = IF m < b THEN j.blocks[m + 1] ELSE 0
  BY <1>3, <1>4, <1>5
<1>8. m < b => m + 1 \in 1 .. b
  BY <1>4
<1>9. m = b => ~ (m < b)
  BY <1>4
<1> QED BY <1>1, <1>2, <1>4, <1>6, <1>7, <1>8, <1>9

\* What OnSysTick draws of a task.
NodeOf(k, w) == IF k.state = k.last /\ w # <<>> THEN Last(w) ELSE k.state

\* The node drawn is the task's state.
LEMMA NodeIsState ==
  ASSUME NEW k, NEW w \in Seq(States), LastNode(k, w)
  PROVE  NodeOf(k, w) = k.state
<1>1. w = <<>> <=> Len(w) = 0
  BY EmptySeq
<1>2. Last(w) = w[Len(w)]
  BY DEF Last
<1> QED BY <1>1, <1>2 DEF NodeOf, LastNode

\* What OnSysTick makes of a task's fields, l of k: the three ways to stay, and the
\* two ends of a burst.
Stays(k, l) ==
  /\ l.last = k.state
  /\ k.state \notin {"RUNNING", "BLOCKED"} =>
       /\ l.state = k.state /\ l.times = k.times /\ l.index = k.index /\ l.next = k.next
       /\ l.runTime = k.runTime /\ l.blockTime = k.blockTime /\ l.finish = k.finish
       /\ l.bursts = k.bursts
  /\ k.state = "BLOCKED" =>
       /\ l.state = k.state /\ l.times = k.times /\ l.index = k.index /\ l.next = k.next
       /\ l.runTime = k.runTime /\ l.blockTime = k.blockTime + 1 /\ l.finish = k.finish
       /\ l.bursts = k.bursts
  /\ k.state = "RUNNING" /\ k.times[k.index] # 1 =>
       /\ l.state = k.state /\ l.times = [k.times EXCEPT ![k.index] = @ - 1]
       /\ l.index = k.index /\ l.next = k.next
       /\ l.runTime = k.runTime + 1 /\ l.blockTime = k.blockTime /\ l.finish = k.finish
       /\ l.bursts = k.bursts
Leaves(n, now, k, l) ==
  /\ l.last = k.state /\ l.runTime = k.runTime + 1 /\ l.blockTime = k.blockTime
  /\ l.bursts = k.bursts
  /\ k.times[k.index + 1] > 0 =>
       /\ l.state = "BLOCKED" /\ l.next = now + k.times[k.index + 1]
       /\ l.index = k.index + 2 /\ l.finish = k.finish
       /\ \A p \in k.index + 2 .. 2 * n - 1 : l.times[p] = k.times[p]
  /\ ~ (k.times[k.index + 1] > 0) =>
       /\ l.state = "FINISHED" /\ l.finish = now /\ l.next = k.next
       /\ \A p \in k.index + 1 .. 2 * n - 1 : l.times[p] = k.times[p]
IsTicked(n, now, k, l) ==
  IF k.state = "RUNNING" /\ k.times[k.index] = 1 THEN Leaves(n, now, k, l) ELSE Stays(k, l)

\* OnSysTick does one of the three to its task.
LEMMA TickedStays ==
  ASSUME NEW t, NEW n, n \in Nat, task[t] \in Fields(n), time \in Nat,
         ~ (task[t].state = "RUNNING" /\ task[t].times[task[t].index] = 1)
  PROVE  Stays(task[t], Ticked(task[t]))
<1> DEFINE k == task[t]
           l == Ticked(k)
<1>0. k \in Fields(n) /\ l = Ticked(k)
  OBVIOUS
<1> HIDE DEF k, l
<1> DEFINE sw == IF k.state # k.last /\ k.state \in {"RUNNING", "BLOCKED"}
                   THEN k.switches + 1 ELSE k.switches
           seen == [k EXCEPT !.last = k.state, !.remove = FALSE, !.switches = sw]
           used == [seen EXCEPT !.runTime = @ + 1, !.times[k.index] = @ - 1]
           waits == [seen EXCEPT !.blockTime = @ + 1]
<1>1. l = CASE k.state = "RUNNING" /\ k.times[k.index] = 1 -> EndOfBurst(used)
            [] k.state = "RUNNING" /\ k.times[k.index] # 1 -> used
            [] k.state = "BLOCKED" -> waits
            [] OTHER -> seen
  BY <1>0 DEF Ticked
<1> HIDE DEF sw
<1>2. /\ seen.last = k.state /\ seen.state = k.state
      /\ seen.times = k.times /\ seen.index = k.index /\ seen.next = k.next
      /\ seen.runTime = k.runTime /\ seen.blockTime = k.blockTime /\ seen.finish = k.finish
      /\ seen.bursts = k.bursts
  BY <1>0 DEF Fields
<1>3. /\ waits.last = k.state /\ waits.state = k.state
      /\ waits.times = k.times /\ waits.index = k.index /\ waits.next = k.next
      /\ waits.runTime = k.runTime /\ waits.blockTime = k.blockTime + 1
      /\ waits.finish = k.finish /\ waits.bursts = k.bursts
  BY <1>0 DEF Fields
<1>4. /\ used.last = k.state /\ used.state = k.state
      /\ used.times = [k.times EXCEPT ![k.index] = @ - 1]
      /\ used.index = k.index /\ used.next = k.next
      /\ used.runTime = k.runTime + 1 /\ used.blockTime = k.blockTime
      /\ used.finish = k.finish /\ used.bursts = k.bursts
  BY <1>0 DEF Fields
<1> HIDE DEF seen, used, waits
<1>5. k.state \notin {"RUNNING", "BLOCKED"} => l = seen
  BY <1>1
<1>6. k.state = "BLOCKED" => l = waits
  BY <1>1
<1>7. k.state = "RUNNING" /\ k.times[k.index] # 1 => l = used
  BY <1>1
<1>8. ~ (k.state = "RUNNING" /\ k.times[k.index] = 1)
  BY DEF k
<1>9. l \in {seen, used, waits}
  BY <1>1, <1>8
<1> QED BY <1>2, <1>3, <1>4, <1>5, <1>6, <1>7, <1>9 DEF Stays, k, l

\* And one of the two when the burst is over.
LEMMA TickedLeaves ==
  ASSUME NEW t, NEW n, n \in Nat, task[t] \in Fields(n), time \in Nat,
         task[t].state = "RUNNING", task[t].times[task[t].index] = 1,
         task[t].index \in 0 .. 2 * n - 2
  PROVE  Leaves(n, time, task[t], Ticked(task[t]))
<1> DEFINE k == task[t]
           l == Ticked(k)
<1>0. /\ n \in Nat /\ k \in Fields(n) /\ l = Ticked(k) /\ time \in Nat
      /\ k.state = "RUNNING" /\ k.times[k.index] = 1 /\ k.index \in 0 .. 2 * n - 2
  OBVIOUS
<1> HIDE DEF k, l
<1> DEFINE sw == IF k.state # k.last /\ k.state \in {"RUNNING", "BLOCKED"}
                   THEN k.switches + 1 ELSE k.switches
           seen == [k EXCEPT !.last = k.state, !.remove = FALSE, !.switches = sw]
           used == [seen EXCEPT !.runTime = @ + 1, !.times[k.index] = @ - 1]
           i == k.index + 1
<1>1. l = EndOfBurst(used)
  BY <1>0 DEF Ticked
<1> HIDE DEF sw
<1>2. /\ used.last = k.state /\ used.state = k.state
      /\ used.times = [k.times EXCEPT ![k.index] = @ - 1]
      /\ used.index = k.index /\ used.next = k.next
      /\ used.runTime = k.runTime + 1 /\ used.blockTime = k.blockTime
      /\ used.finish = k.finish /\ used.bursts = k.bursts
      /\ DOMAIN used = DOMAIN k
      /\ used = [f \in DOMAIN k |-> used[f]]
  BY <1>0 DEF Fields
<1> HIDE DEF used, seen
<1> DEFINE over == [used EXCEPT !.remove = TRUE, !.index = i, !.last = used.state]
           blocks == [over EXCEPT !.state = "BLOCKED", !.next = time + used.times[i],
                                  !.times[i] = 0, !.index = i + 1]
           ends == [over EXCEPT !.state = "FINISHED", !.finish = time]
<1>3. l = IF used.times[i] > 0 THEN blocks ELSE ends
  BY <1>1, <1>2 DEF EndOfBurst
<1>4. /\ k.index \in Nat /\ i \in 0 .. 2 * n - 1 /\ i # k.index /\ i + 1 = k.index + 2
      /\ k.times \in [0 .. 2 * n - 1 -> Int]
  <2>1. PICK x \in 0 .. 2 * n - 2 : x = k.index
    BY <1>0
  <2>2. /\ x \in Nat /\ x + 1 \in 0 .. 2 * n - 1 /\ x + 1 # x /\ (x + 1) + 1 = x + 2
    BY <1>0, <2>1
  <2>3. k.times \in [0 .. 2 * n - 1 -> Int]
    BY <1>0 DEF Fields
  <2> QED BY <2>1, <2>2, <2>3
<1>5. used.times[i] = k.times[i] /\ \A p \in i .. 2 * n - 1 : used.times[p] = k.times[p]
  <2>1. \A p \in i .. 2 * n - 1 : p \in 0 .. 2 * n - 1 /\ p # k.index
    <3>1. PICK x \in Nat : x = k.index
      BY <1>4
    <3>2. \A p \in x + 1 .. 2 * n - 1 : p \in 0 .. 2 * n - 1 /\ p # x
      BY <1>0
    <3> QED BY <3>1, <3>2
  <2>2. \A p \in 0 .. 2 * n - 1 : p # k.index => used.times[p] = k.times[p]
    BY <1>2, <1>4
  <2>3. i \in i .. 2 * n - 1
    BY <1>0, <1>4
  <2> HIDE DEF i
  <2> QED BY <2>1, <2>2, <2>3
<1>6. /\ blocks.last = k.state /\ blocks.runTime = used.runTime
      /\ blocks.blockTime = used.blockTime /\ blocks.bursts = used.bursts
      /\ blocks.state = "BLOCKED" /\ blocks.next = time + used.times[i]
      /\ blocks.index = i + 1 /\ blocks.finish = used.finish
      /\ blocks.times = [used.times EXCEPT ![i] = 0]
  BY <1>0, <1>2 DEF Fields
<1>7. /\ ends.last = k.state /\ ends.runTime = used.runTime
      /\ ends.blockTime = used.blockTime /\ ends.bursts = used.bursts
      /\ ends.state = "FINISHED" /\ ends.finish = time /\ ends.next = used.next
      /\ ends.times = used.times
  BY <1>0, <1>2 DEF Fields
<1> HIDE DEF over, blocks, ends
<1> HIDE DEF i
<1>8. \A p \in i + 1 .. 2 * n - 1 : blocks.times[p] = k.times[p]
  <2>1. \A p \in i + 1 .. 2 * n - 1 : p \in i .. 2 * n - 1 /\ p \in 0 .. 2 * n - 1 /\ p # i
    BY <1>0, <1>4
  <2>2. \A p \in i + 1 .. 2 * n - 1 : blocks.times[p] = used.times[p]
    BY <1>0, <1>2, <1>4, <1>6, <2>1
  <2> QED BY <1>5, <2>1, <2>2
<1>9. ASSUME used.times[i] > 0 PROVE Leaves(n, time, k, l)
  <2>1. l = blocks
    BY <1>3, <1>9
  <2>2. k.times[k.index + 1] > 0 /\ i + 1 = k.index + 2
    BY <1>4, <1>5, <1>9 DEF i
  <2>3. \A p \in k.index + 2 .. 2 * n - 1 : l.times[p] = k.times[p]
    BY <1>8, <2>1, <2>2
  <2>4. l.next = time + k.times[k.index + 1] /\ l.index = k.index + 2
    BY <1>5, <1>6, <2>1, <2>2 DEF i
  <2> QED BY <1>2, <1>6, <2>1, <2>2, <2>3, <2>4 DEF Leaves
<1>10. ASSUME ~ (used.times[i] > 0) PROVE Leaves(n, time, k, l)
  <2>1. l = ends
    BY <1>3, <1>10
  <2>2. ~ (k.times[k.index + 1] > 0)
    BY <1>5, <1>10 DEF i
  <2>3. \A p \in k.index + 1 .. 2 * n - 1 : l.times[p] = k.times[p]
    BY <1>5, <1>7, <2>1 DEF i
  <2> QED BY <1>2, <1>7, <2>1, <2>2, <2>3 DEF Leaves
<1>11. Leaves(n, time, k, l)
  BY <1>9, <1>10
<1> QED BY <1>11 DEF k, l

\* OnSysTick draws the tick that it counts.
LEMMA TickAccount ==
  ASSUME NEW k, NEW w, NEW j, TaskOf(k, w, j), AccountOf(k, w, j, TRUE), k.state # "INIT",
         NEW l, IsTicked(Len(j.runs), Len(w) + 1, k, l), NEW v, v = Append(w, k.state)
  PROVE  AccountOf(l, v, j, FALSE)
<1>1. PICK n \in Nat, b \in Nat, c \in Nat :
         n = Len(j.runs) /\ b = Len(j.blocks) /\ b < n /\ c = Len(w)
  BY TaskNumbers
<1>2. /\ k \in Fields(n) /\ w \in Seq(States) /\ k.state \in States /\ j.arrive \in Nat
      /\ k.next \in Nat /\ k.runTime \in Nat /\ k.blockTime \in Nat /\ k.bursts \in Nat
      /\ k.finish \in Nat /\ k.times \in [0 .. 2 * n - 1 -> Int]
      /\ \A s : Shown(w, s) \in Nat
  BY <1>1, TaskNumbers DEF TaskOf
<1>3. Len(v) = c + 1 /\ v[Len(v)] = k.state
  <2>1. Len(v) = c + 1 /\ v[c + 1] = k.state
    BY <1>1, <1>2, AppendProperties
  <2> QED BY <2>1
<1>4. LastNode(k, w) /\ ClockIs(k, w, TRUE) /\ CountsAre(k, w, j)
  BY DEF AccountOf
<1>5. PICK notYet \in Nat, ready \in Nat, runs \in Nat, blocked \in Nat, arrive \in Nat, next \in Nat :
         /\ notYet = Shown(w, "NOT_ARRIVED") /\ ready = Shown(w, "READY")
         /\ runs = Shown(w, "RUNNING") /\ blocked = Shown(w, "BLOCKED")
         /\ arrive = j.arrive /\ next = k.next
  BY <1>2
<1>6. /\ k.runTime = runs /\ k.blockTime = blocked
      /\ notYet = IF k.state \in {"INIT", "NOT_ARRIVED"} THEN c ELSE arrive
      /\ k.state # "FINISHED" => c = notYet + ready + runs + blocked
      /\ k.state = "FINISHED" => k.finish = arrive + runs + blocked + ready
  BY <1>1, <1>4, <1>5 DEF CountsAre
<1>7. /\ Shown(v, "NOT_ARRIVED") = IF k.state = "NOT_ARRIVED" THEN notYet + 1 ELSE notYet
      /\ Shown(v, "READY") = IF k.state = "READY" THEN ready + 1 ELSE ready
      /\ Shown(v, "RUNNING") = IF k.state = "RUNNING" THEN runs + 1 ELSE runs
      /\ Shown(v, "BLOCKED") = IF k.state = "BLOCKED" THEN blocked + 1 ELSE blocked
  <2>1. \A s : Shown(v, s) = Shown(w, s) + IF k.state = s THEN 1 ELSE 0
    BY <1>2, ShownAppend
  <2> QED BY <1>5, <2>1
<1>8. /\ k.state \in {"INIT", "NOT_ARRIVED", "BLOCKED"} => next > c
      /\ k.state \in {"READY", "RUNNING"} => next <= c
      /\ k.state = "FINISHED" => next < c
  BY <1>1, <1>4, <1>5 DEF ClockIs
<1>9. PICK m \in 0 .. b : HasDone(k, w, j, m)
  BY <1>1 DEF AccountOf
<1>10. /\ m \in Nat /\ m <= b /\ 2 * m \in 0 .. 2 * n - 2 /\ 2 * m \in 0 .. 2 * n - 1
       /\ 2 * m + 1 \in 2 * m + 1 .. 2 * n - 1
  BY <1>1
<1>11. /\ Times(j)[2 * m + 1] \in Nat
       /\ m < b => Times(j)[2 * m + 1] = j.blocks[m + 1]
       /\ m = b => Times(j)[2 * m + 1] = 0
  BY <1>1, <1>9, TimesAt DEF TaskOf
<1>12. \A p \in 2 * m + 1 .. 2 * n - 1 : k.times[p] = Times(j)[p]
  BY <1>1, <1>9 DEF HasDone
<1>13. ASSUME NEW q \in 0 .. b, l.last = k.state, ClockIs(l, v, FALSE), CountsAre(l, v, j), HasDone(l, v, j, q)
      PROVE  AccountOf(l, v, j, FALSE)
  BY <1>1, <1>3, <1>13 DEF AccountOf, LastNode
<1>14. CASE k.state \notin {"RUNNING", "BLOCKED"}
  <2>1. k.state \in {"NOT_ARRIVED", "READY", "FINISHED"}
    BY <1>2, <1>14 DEF States
  <2>2. /\ l.last = k.state /\ l.state = k.state /\ l.times = k.times /\ l.index = k.index /\ l.next = k.next
        /\ l.runTime = k.runTime /\ l.blockTime = k.blockTime /\ l.finish = k.finish
        /\ l.bursts = k.bursts
    BY <1>14 DEF IsTicked, Stays
  <2>3. ClockIs(l, v, FALSE)
    BY <1>1, <1>3, <1>5, <1>8, <2>1, <2>2 DEF ClockIs
  <2>4. CountsAre(l, v, j)
    <3>1. CASE k.state = "NOT_ARRIVED"
      <4>1. /\ Shown(v, "NOT_ARRIVED") = notYet + 1 /\ Shown(v, "READY") = ready
            /\ Shown(v, "RUNNING") = runs /\ Shown(v, "BLOCKED") = blocked
            /\ notYet = c /\ c = notYet + ready + runs + blocked
        BY <1>6, <1>7, <3>1
      <4>2. c = notYet + ready + runs + blocked =>
              c + 1 = (notYet + 1) + ready + runs + blocked
        OBVIOUS
      <4> QED BY <1>3, <1>6, <2>2, <3>1, <4>1, <4>2 DEF CountsAre
    <3>2. CASE k.state = "READY"
      <4>1. /\ Shown(v, "NOT_ARRIVED") = notYet /\ Shown(v, "READY") = ready + 1
            /\ Shown(v, "RUNNING") = runs /\ Shown(v, "BLOCKED") = blocked
            /\ notYet = arrive /\ c = notYet + ready + runs + blocked
        BY <1>6, <1>7, <3>2
      <4>2. c = notYet + ready + runs + blocked =>
              c + 1 = notYet + (ready + 1) + runs + blocked
        OBVIOUS
      <4> QED BY <1>3, <1>5, <1>6, <2>2, <3>2, <4>1, <4>2 DEF CountsAre
    <3>3. CASE k.state = "FINISHED"
      <4>1. /\ Shown(v, "NOT_ARRIVED") = notYet /\ Shown(v, "READY") = ready
            /\ Shown(v, "RUNNING") = runs /\ Shown(v, "BLOCKED") = blocked
            /\ notYet = arrive /\ k.finish = arrive + runs + blocked + ready
        BY <1>6, <1>7, <3>3
      <4> QED BY <1>5, <1>6, <2>2, <3>3, <4>1 DEF CountsAre
    <3> QED BY <2>1, <3>1, <3>2, <3>3
  <2>5. HasDone(l, v, j, m)
    BY <1>9, <2>1, <2>2 DEF HasDone
  <2> QED BY <1>13, <2>2, <2>3, <2>4, <2>5
<1>15. CASE k.state = "BLOCKED"
  <2>2. /\ l.last = k.state /\ l.state = k.state /\ l.times = k.times /\ l.index = k.index /\ l.next = k.next
        /\ l.runTime = k.runTime /\ l.blockTime = k.blockTime + 1 /\ l.finish = k.finish
        /\ l.bursts = k.bursts
    BY <1>15 DEF IsTicked, Stays
  <2>3. ClockIs(l, v, FALSE)
    BY <1>1, <1>3, <1>5, <1>8, <1>15, <2>2 DEF ClockIs
  <2>4. CountsAre(l, v, j)
    <3>1. /\ Shown(v, "NOT_ARRIVED") = notYet /\ Shown(v, "READY") = ready
          /\ Shown(v, "RUNNING") = runs /\ Shown(v, "BLOCKED") = blocked + 1
          /\ notYet = arrive /\ c = notYet + ready + runs + blocked
      BY <1>15, <1>6, <1>7
    <3>2. c = notYet + ready + runs + blocked =>
            c + 1 = notYet + ready + runs + (blocked + 1)
      OBVIOUS
    <3> QED BY <1>3, <1>15, <1>5, <1>6, <2>2, <3>1, <3>2 DEF CountsAre
  <2>5. HasDone(l, v, j, m)
    <3>1. blocked + next - c = Sums(j.blocks)[m]
      BY <1>1, <1>9, <1>15, <1>5, <1>6 DEF HasDone
    <3>2. (blocked + 1) + next - (c + 1) = blocked + next - c
      OBVIOUS
    <3>3. l.blockTime + l.next - Len(v) = Sums(j.blocks)[m]
      BY <1>3, <1>5, <1>6, <2>2, <3>1, <3>2
    <3> QED BY <1>9, <1>15, <2>2, <3>3 DEF HasDone
  <2> QED BY <1>13, <2>2, <2>3, <2>4, <2>5
<1>16. CASE k.state = "RUNNING" /\ k.times[k.index] # 1
  <2>2. /\ l.last = k.state /\ l.state = k.state /\ l.times = [k.times EXCEPT ![k.index] = @ - 1]
        /\ l.index = k.index /\ l.next = k.next
        /\ l.runTime = k.runTime + 1 /\ l.blockTime = k.blockTime /\ l.finish = k.finish
        /\ l.bursts = k.bursts
    BY <1>16 DEF IsTicked, Stays
  <2>3. ClockIs(l, v, FALSE)
    BY <1>1, <1>3, <1>5, <1>8, <1>16, <2>2 DEF ClockIs
  <2>4. CountsAre(l, v, j)
    <3>1. /\ Shown(v, "NOT_ARRIVED") = notYet /\ Shown(v, "READY") = ready
          /\ Shown(v, "RUNNING") = runs + 1 /\ Shown(v, "BLOCKED") = blocked
          /\ notYet = arrive /\ c = notYet + ready + runs + blocked
      BY <1>16, <1>6, <1>7
    <3>2. c = notYet + ready + runs + blocked =>
            c + 1 = notYet + ready + (runs + 1) + blocked
      OBVIOUS
    <3> QED BY <1>3, <1>16, <1>5, <1>6, <2>2, <3>1, <3>2 DEF CountsAre
  <2>5. k.index = 2 * m /\ k.runTime + k.times[2 * m] = Sums(j.runs)[m + 1]
        /\ k.bursts = m + 1 /\ k.blockTime = Sums(j.blocks)[m]
    BY <1>9, <1>16 DEF HasDone
  <2>6. l.times[2 * m] = k.times[2 * m] - 1 /\ k.times[2 * m] \in Int
    BY <1>2, <1>10, <2>2, <2>5
  <2>7. l.runTime + l.times[2 * m] = Sums(j.runs)[m + 1]
    <3>1. PICK r \in Nat, x \in Int : r = k.runTime /\ x = k.times[2 * m]
      BY <1>2, <2>6
    <3>2. (r + 1) + (x - 1) = r + x
      BY <3>1
    <3> QED BY <2>2, <2>5, <2>6, <3>1, <3>2
  <2>8. \A p \in 2 * m + 1 .. 2 * n - 1 : l.times[p] = Times(j)[p]
    <3>1. \A p \in 2 * m + 1 .. 2 * n - 1 : p \in 0 .. 2 * n - 1 /\ p # 2 * m
      BY <1>10
    <3> QED BY <1>2, <1>12, <2>2, <2>5, <3>1
  <2>9. HasDone(l, v, j, m)
    BY <1>1, <1>16, <2>2, <2>5, <2>7, <2>8 DEF HasDone
  <2> QED BY <1>13, <2>2, <2>3, <2>4, <2>9
<1>17. CASE k.state = "RUNNING" /\ k.times[k.index] = 1
  <2>1. k.index = 2 * m /\ k.runTime + 1 = Sums(j.runs)[m + 1]
        /\ k.bursts = m + 1 /\ k.blockTime = Sums(j.blocks)[m]
    BY <1>9, <1>17 DEF HasDone
  <2> DEFINE d == k.times[2 * m + 1]
  <2>2. d = Times(j)[2 * m + 1] /\ d \in Nat
    BY <1>10, <1>11, <1>12
  <2> HIDE DEF d
  <2>3. /\ l.last = k.state /\ l.runTime = k.runTime + 1 /\ l.blockTime = k.blockTime
        /\ l.bursts = k.bursts
        /\ d > 0 =>
             /\ l.state = "BLOCKED" /\ l.next = (c + 1) + d /\ l.index = 2 * m + 2
             /\ l.finish = k.finish
             /\ \A p \in 2 * m + 2 .. 2 * n - 1 : l.times[p] = k.times[p]
        /\ ~ (d > 0) =>
             /\ l.state = "FINISHED" /\ l.finish = c + 1 /\ l.next = k.next
             /\ \A p \in 2 * m + 1 .. 2 * n - 1 : l.times[p] = k.times[p]
    <3>1. k.index \in 0 .. 2 * n - 2 /\ k.index + 1 = 2 * m + 1 /\ k.index + 2 = 2 * m + 2
      BY <1>10, <2>1
    <3> QED BY <1>1, <1>17, <3>1 DEF IsTicked, Leaves, d
  <2>4. CASE d > 0
    <3>1. m < b /\ m + 1 \in 0 .. b /\ d = j.blocks[m + 1]
      <4>1. m # b
        BY <1>11, <2>2, <2>4
      <4> QED BY <1>10, <1>11, <2>2, <4>1
    <3>2. ClockIs(l, v, FALSE)
      <4>1. l.next = (c + 1) + d /\ (c + 1) + d >= c + 1
        BY <1>1, <2>2, <2>3, <2>4
      <4> QED BY <1>3, <2>3, <2>4, <4>1 DEF ClockIs
    <3>3. CountsAre(l, v, j)
      <4>1. /\ Shown(v, "NOT_ARRIVED") = notYet /\ Shown(v, "READY") = ready
            /\ Shown(v, "RUNNING") = runs + 1 /\ Shown(v, "BLOCKED") = blocked
            /\ notYet = arrive /\ c = notYet + ready + runs + blocked
        BY <1>17, <1>6, <1>7
      <4>2. c = notYet + ready + runs + blocked =>
              c + 1 = notYet + ready + (runs + 1) + blocked
        OBVIOUS
      <4> QED BY <1>3, <1>17, <1>5, <1>6, <2>3, <2>4, <4>1, <4>2 DEF CountsAre
    <3>4. /\ l.times[2 * (m + 1)] = j.runs[(m + 1) + 1] /\ j.runs[(m + 1) + 1] \in Nat
          /\ \A p \in 2 * (m + 1) + 1 .. 2 * n - 1 : l.times[p] = Times(j)[p]
      <4>1. /\ 2 * (m + 1) \in 2 * m + 2 .. 2 * n - 1 /\ 2 * (m + 1) \in 2 * m + 1 .. 2 * n - 1
            /\ \A p \in 2 * (m + 1) + 1 .. 2 * n - 1 :
                 p \in 2 * m + 2 .. 2 * n - 1 /\ p \in 2 * m + 1 .. 2 * n - 1
        BY <1>1, <1>10, <3>1
      <4>2. Times(j)[2 * (m + 1)] = j.runs[(m + 1) + 1] /\ j.runs[(m + 1) + 1] \in Nat
        BY <1>1, <3>1, TimesAt DEF TaskOf
      <4> QED BY <1>12, <2>3, <2>4, <4>1, <4>2
    <3>5. /\ Sums(j.runs)[(m + 1) + 1] = Sums(j.runs)[m + 1] + j.runs[(m + 1) + 1]
          /\ Sums(j.blocks)[m + 1] = Sums(j.blocks)[m] + j.blocks[m + 1]
      <4>1. (m + 1) + 1 \in 1 .. n /\ m + 1 \in 1 .. b /\ (m + 1) + 1 - 1 = m + 1 /\ m + 1 - 1 = m
        BY <1>1, <1>10, <3>1
      <4>2. j.runs \in Seq(Nat) /\ j.blocks \in Seq(Nat)
        BY DEF TaskOf
      <4>3. \A i \in 1 .. n : Sums(j.runs)[i] = Sums(j.runs)[i - 1] + j.runs[i]
        BY <1>1, <4>2, SumSteps
      <4>4. \A i \in 1 .. b : Sums(j.blocks)[i] = Sums(j.blocks)[i - 1] + j.blocks[i]
        BY <1>1, <4>2, SumSteps
      <4> QED BY <4>1, <4>3, <4>4
    <3>6. l.runTime + l.times[2 * (m + 1)] = Sums(j.runs)[(m + 1) + 1]
      BY <2>1, <2>3, <3>4, <3>5
    <3>7. l.blockTime + l.next - Len(v) = Sums(j.blocks)[m + 1]
      <4>1. l.next = (c + 1) + d /\ Len(v) = c + 1
        BY <1>1, <1>3, <2>3, <2>4
      <4>2. k.blockTime + ((c + 1) + d) - (c + 1) = k.blockTime + d
        BY <1>2, <2>2
      <4> QED BY <2>1, <2>3, <3>1, <3>5, <4>1, <4>2
    <3>8. l.index = 2 * (m + 1)
      BY <1>10, <2>3, <2>4
    <3>9. HasDone(l, v, j, m + 1)
      BY <1>1, <2>1, <2>3, <2>4, <3>4, <3>6, <3>7, <3>8 DEF HasDone
    <3> QED BY <1>13, <2>3, <3>1, <3>2, <3>3, <3>9
  <2>5. CASE ~ (d > 0)
    <3>1. d = 0
      BY <2>2, <2>5
    <3>2. ClockIs(l, v, FALSE)
      <4>1. next <= c
        BY <1>17, <1>8
      <4>2. next <= c => next < c + 1
        OBVIOUS
      <4>3. l.state = "FINISHED" /\ l.next = next /\ Len(v) = c + 1
        BY <1>3, <1>5, <2>3, <2>5
      <4> QED BY <4>1, <4>2, <4>3 DEF ClockIs
    <3>3. CountsAre(l, v, j)
      <4>1. /\ Shown(v, "NOT_ARRIVED") = notYet /\ Shown(v, "READY") = ready
            /\ Shown(v, "RUNNING") = runs + 1 /\ Shown(v, "BLOCKED") = blocked
            /\ notYet = arrive /\ c = notYet + ready + runs + blocked
        BY <1>17, <1>6, <1>7
      <4>2. c = arrive + ready + runs + blocked =>
              c + 1 = arrive + (runs + 1) + blocked + ready
        OBVIOUS
      <4>3. l.state = "FINISHED" /\ l.finish = c + 1
        BY <2>3, <2>5
      <4> QED BY <1>17, <1>5, <1>6, <2>3, <4>1, <4>2, <4>3 DEF CountsAre
    <3>4. HasDone(l, v, j, m)
      BY <1>1, <1>12, <2>1, <2>2, <2>3, <2>5, <3>1 DEF HasDone
    <3> QED BY <1>13, <2>3, <3>2, <3>3, <3>4
  <2> QED BY <2>4, <2>5
<1> QED BY <1>14, <1>15, <1>16, <1>17

-----------------------------------------------------------------------------
(* The handlers and the accounts of the tasks.                             *)

\* SwapOut and SwapIn leave every field but the state of the two tasks.
LEMMA SwapAlike ==
  ASSUME SimTypes, NEW tasks, NEW out, NEW in,
         \A u \in Tasks : tasks[u] \in Fields(Runs(u)), NEW new, new = Swap(tasks, out, in)
  PROVE  \A u \in Tasks :
           /\ Alike(tasks[u], new[u])
           /\ IF u \in {in, out} THEN new[u].state \in Queueable
              ELSE new[u].state = tasks[u].state
<1> SUFFICES ASSUME NEW u \in Tasks
             PROVE  /\ Alike(tasks[u], new[u])
                    /\ IF u \in {in, out} THEN new[u].state \in Queueable
                       ELSE new[u].state = tasks[u].state
  OBVIOUS
<1>1. new[u] = IF u = in THEN [tasks[u] EXCEPT !.state = "RUNNING"]
               ELSE IF u = out THEN [tasks[u] EXCEPT !.state = "READY"] ELSE tasks[u]
  BY DEF Swap
<1> DEFINE k == tasks[u]
<1>2. k \in Fields(Runs(u))
  OBVIOUS
<1>3. IF u \in {in, out}
        THEN new[u] \in {[k EXCEPT !.state = "RUNNING"], [k EXCEPT !.state = "READY"]}
        ELSE new[u] = k
  BY <1>1
<1> HIDE DEF k
<1>4. \A s : Alike(k, [k EXCEPT !.state = s])
  BY <1>2 DEF Fields, Alike
<1>5. Alike(k, k)
  BY DEF Alike
<1>6. /\ [k EXCEPT !.state = "RUNNING"].state \in Queueable
      /\ [k EXCEPT !.state = "READY"].state \in Queueable
  BY <1>2 DEF Fields, Queueable
<1> QED BY <1>3, <1>4, <1>5, <1>6 DEF k

\* What OnStartTick does to the fields: nothing but the state's change for any
\* task but its own, and for that one when its tick has not come.
LEMMA StartTickFields ==
  ASSUME SimInv, OnStartTick, NEW t, t = list[at]
  PROVE  /\ \A u \in Tasks : u # t => Alike(task[u], task'[u])
         /\ task[t].next # time =>
              /\ Alike(task[t], task'[t])
              /\ task'[t].state = IF task[t].state = "INIT" THEN "NOT_ARRIVED" ELSE task[t].state
         /\ task[t].next = time /\ task[t].state \in {"INIT", "NOT_ARRIVED", "BLOCKED"} =>
              /\ task'[t].last \in {"NOT_ARRIVED", "BLOCKED"}
              /\ task'[t].bursts = task[t].bursts + 1 /\ task'[t].times = task[t].times
              /\ task'[t].index = task[t].index /\ task'[t].next = task[t].next
              /\ task'[t].runTime = task[t].runTime /\ task'[t].blockTime = task[t].blockTime
              /\ task'[t].state \in Queueable
         /\ \A u \in Tasks : u # t => \/ task'[u].state = task[u].state
                                     \/ /\ task'[u].state \in Queueable
                                        /\ u \in {running, running'}
<1> DEFINE state == IF task[t].state = "INIT" THEN "NOT_ARRIVED" ELSE task[t].state
           now == [task EXCEPT ![t].state = state]
           ready == [now EXCEPT ![t].last = state, ![t].state = "READY", ![t].bursts = @ + 1]
           a == [task[t] EXCEPT !.state = state]
           b == [a EXCEPT !.last = state, !.state = "READY", !.bursts = @ + 1]
<1>1. t \in Tasks /\ SimTypes
  BY StartTickKeeps DEF SimInv
<1>2. task = [u \in Tasks |-> task[u]] /\ \A u \in Tasks : task[u] \in Fields(Runs(u))
  BY <1>1 DEF SimTypes
<1>3. /\ task[t].next # time => task' = now
      /\ task[t].next = time /\ state \in {"NOT_ARRIVED", "BLOCKED"} => AddTask(t, ready)
  BY DEF OnStartTick
<1>4. /\ now = [u \in Tasks |-> IF u = t THEN a ELSE task[u]]
      /\ ready = [u \in Tasks |-> IF u = t THEN b ELSE task[u]]
  <2> HIDE DEF state
  <2>1. now = [u \in Tasks |-> IF u = t THEN a ELSE task[u]]
    BY <1>1, <1>2
  <2>2. now[t] = a
    BY <1>1, <2>1
  <2>3. ready = [now EXCEPT ![t] = b]
    <3>1. now = [u \in Tasks |-> now[u]]
      BY <2>1
    <3> HIDE DEF a, now
    <3>2. ready = [now EXCEPT ![t] = [now[t] EXCEPT !.last = state, !.state = "READY", !.bursts = @ + 1]]
      BY <1>1, <3>1, NestedSet
    <3> QED BY <2>2, <3>2
  <2> HIDE DEF now, ready, a, b
  <2> QED BY <1>1, <2>1, <2>3
<1>5. \A u : Alike(task[u], task[u])
  BY DEF Alike
<1>6. /\ a \in Fields(Runs(t)) /\ Alike(task[t], a) /\ a.state = state
  <2> DEFINE k == task[t]
  <2>1. k \in Fields(Runs(t)) /\ state \in States
    BY <1>1, <1>2 DEF Fields, States
  <2> HIDE DEF k, state
  <2>2. \A s \in States : LET l == [k EXCEPT !.state = s]
                          IN  l \in Fields(Runs(t)) /\ Alike(k, l) /\ l.state = s
    BY <2>1 DEF Fields, Alike
  <2> QED BY <2>1, <2>2 DEF k
<1>7. /\ b \in Fields(Runs(t)) /\ b.last = state /\ b.state = "READY" /\ b.bursts = a.bursts + 1 /\ b.times = a.times
      /\ b.index = a.index /\ b.next = a.next /\ b.runTime = a.runTime
      /\ b.blockTime = a.blockTime
  <2>1. state \in States /\ "READY" \in States
    BY <1>1, <1>2 DEF Fields, States
  <2> HIDE DEF a, state
  <2>2. a.bursts + 1 \in Nat
    BY <1>6 DEF Fields
  <2> QED BY <1>6, <2>1, <2>2 DEF Fields
<1> HIDE DEF a, b, now, ready
<1>8. CASE task[t].next # time
  <2>1. \A u \in Tasks : task'[u] = IF u = t THEN a ELSE task[u]
    BY <1>3, <1>4, <1>8
  <2> QED BY <1>1, <1>5, <1>6, <1>8, <2>1
<1>9. CASE task[t].next = time /\ task[t].state \in {"INIT", "NOT_ARRIVED", "BLOCKED"}
  <2>1. state \in {"NOT_ARRIVED", "BLOCKED"}
    BY <1>9
  <2>2. \A u \in Tasks : ready[u] = IF u = t THEN b ELSE task[u]
    BY <1>4
  <2>3. \A u \in Tasks : ready[u] \in Fields(Runs(u))
    BY <1>2, <1>7, <2>2
  <2>4. task' = IF running' = running THEN ready ELSE Swap(ready, running, running')
    BY <1>3, <1>9, <2>1 DEF AddTask
  <2> HIDE DEF state
  <2>5. \A u \in Tasks : /\ Alike(ready[u], task'[u])
                         /\ \/ task'[u].state = ready[u].state
                            \/ task'[u].state \in Queueable /\ u \in {running, running'}
    <3>1. CASE running' = running
      <4>1. task' = ready
        BY <2>4, <3>1
      <4>2. \A u : Alike(ready[u], ready[u])
        BY DEF Alike
      <4> QED BY <4>1, <4>2
    <3>2. CASE running' # running
      <4>1. task' = Swap(ready, running, running')
        BY <2>4, <3>2
      <4> QED BY <1>1, <2>3, <4>1, SwapAlike
    <3> QED BY <3>1, <3>2
  <2>6. \A u \in Tasks : u # t => /\ Alike(task[u], task'[u])
                                  /\ \/ task'[u].state = task[u].state
                                     \/ /\ task'[u].state \in Queueable
                                        /\ u \in {running, running'}
    BY <2>2, <2>5
  <2>7. Alike(b, task'[t]) /\ task'[t].state \in Queueable
    BY <1>1, <1>7, <2>2, <2>5 DEF Queueable
  <2> QED BY <1>6, <1>7, <1>9, <2>1, <2>6, <2>7 DEF Alike
<1>10. CASE task[t].next = time /\ task[t].state \notin {"INIT", "NOT_ARRIVED", "BLOCKED"}
  <2> DEFINE idle == [now EXCEPT ![t].bursts = @ + 1]
  <2>1. task' = idle
    <3>1. state \notin {"NOT_ARRIVED", "BLOCKED"}
      BY <1>10
    <3> QED BY <1>10, <3>1 DEF OnStartTick, now
  <2>2. \A u \in Tasks : u # t => task'[u] = task[u]
    <3>1. \A u \in Tasks : u # t => now[u] = task[u]
      BY <1>4
    <3> QED BY <1>4, <2>1, <3>1
  <2> QED BY <1>5, <1>10, <2>2
<1> QED BY <1>8, <1>9, <1>10

\* The tasks that swap are queued, and so ready or running.
LEMMA StartTickStates ==
  ASSUME SimInv, OnStartTick, NEW t, t = list[at], NEW u \in Tasks, u # t
  PROVE  \/ task'[u].state = task[u].state
         \/ task[u].state \in Queueable /\ task'[u].state \in Queueable
<1>1. /\ SimTypes /\ SchedulerAgrees /\ Leaving = {} /\ t \in Tasks
  BY NobodyLeaves, StartTickKeeps DEF SimInv, OnStartTick
<1>2. \/ task'[u].state = task[u].state
      \/ task'[u].state \in Queueable /\ u \in {running, running'}
  BY StartTickFields
<1>3. ASSUME u = running PROVE task[u].state \in Queueable
  <2>1. task[running].state = "RUNNING"
    BY <1>1, <1>3, NoTaskIsNone DEF SchedulerAgrees
  <2> QED BY <1>3, <2>1 DEF Queueable
<1>4. ASSUME u = running', u # running PROVE task[u].state \in Queueable
  <2>1. /\ queue' = [queue EXCEPT ![Class(t)] = Append(queue[Class(t)], t)]
        /\ running' = HeadOf(queue'[Class(t)])
    BY <1>4, StartTickKeeps
  <2>2. Class(t) \in Classes
    BY <1>1, ClassType
  <2> DEFINE r == queue[Class(t)]
  <2>3. r \in Seq(Tasks) /\ queue'[Class(t)] = Append(r, t)
    BY <1>1, <2>1, <2>2 DEF SimTypes
  <2>4. u \in Range(r)
    <3>1. /\ Append(r, t) \in Seq(Tasks) /\ Len(Append(r, t)) = Len(r) + 1
          /\ Append(r, t)[Len(r) + 1] = t
          /\ \A i \in 1 .. Len(r) : Append(r, t)[i] = r[i]
      BY <1>1, <2>3, AppendProperties
    <3>2. Len(r) \in Nat
      BY <2>3, LenProperties
    <3> DEFINE a == Append(r, t)
    <3> HIDE DEF a
    <3>3. a # <<>> /\ Head(a) = a[1]
      <4>1. a \in Seq(Tasks) /\ Len(a) = Len(r) + 1 /\ Len(r) + 1 # 0
        BY <3>1, <3>2 DEF a
      <4>2. a # <<>>
        BY <4>1, EmptySeq
      <4> QED BY <4>1, <4>2, HeadTailProperties
    <3>4. u = a[1]
      BY <1>4, <2>1, <2>3, <3>3 DEF a, HeadOf
    <3>5. Len(r) # 0
      BY <3>1, <3>4 DEF a
    <3>6. 1 \in 1 .. Len(r)
      BY <3>2, <3>5
    <3> QED BY <2>3, <3>1, <3>4, <3>6, Injective DEF a
  <2> QED BY <1>1, <2>2, <2>4 DEF SchedulerAgrees, Queueable
<1> QED BY <1>2, <1>3, <1>4

\* The timer changes the states of two tasks that are queued.
LEMMA SchedulerTickStates ==
  ASSUME SimInv, SchedulerTick, NEW u \in Tasks
  PROVE  /\ Alike(task[u], task'[u])
         /\ \/ task'[u].state = task[u].state
            \/ task[u].state \in Queueable /\ task'[u].state \in Queueable
<1>1. /\ SimTypes /\ SchedulerAgrees /\ Leaving = {}
      /\ \A v \in Tasks : task[v] \in Fields(Runs(v))
  BY NobodyLeaves DEF SimInv, SimTypes, SchedulerTick
<1>2. Alike(task[u], task[u])
  BY DEF Alike
<1>3. CASE task' = task
  BY <1>2, <1>3
<1>4. ASSUME NEW c \in Turns(alg, queue),
             running' = Head(Turn(queue[c])), task' = Swap(task, running, running')
      PROVE  /\ Alike(task[u], task'[u])
             /\ \/ task'[u].state = task[u].state
                \/ task[u].state \in Queueable /\ task'[u].state \in Queueable
  <2>1. c \in Classes /\ queue[c] # <<>> /\ queue[c] \in Seq(Tasks) /\ IsInjective(queue[c])
    BY <1>1, TurnsAreBusy DEF SimTypes, SchedulerAgrees, Busy
  <2>2. running' \in Range(queue[c])
    BY <1>4, <2>1, TurnRing
  <2>3. /\ Alike(task[u], task'[u])
        /\ \/ task'[u].state = task[u].state
           \/ task'[u].state \in Queueable /\ u \in {running, running'}
    <3> DEFINE new == task'
    <3>1. new = Swap(task, running, running')
      BY <1>4
    <3> HIDE DEF new
    <3>2. /\ Alike(task[u], new[u])
          /\ IF u \in {running, running'} THEN new[u].state \in Queueable
             ELSE new[u].state = task[u].state
      BY <1>1, <3>1, SwapAlike
    <3> QED BY <3>2 DEF new
  <2>4. u = running' => task[u].state \in Queueable
    BY <1>1, <2>1, <2>2 DEF SchedulerAgrees, Queueable
  <2>5. u = running => task[u].state \in Queueable
    BY <1>1, NoTaskIsNone DEF SchedulerAgrees, Queueable
  <2> QED BY <2>3, <2>4, <2>5
<1>5. CASE UNCHANGED <<queue, running, task>>
  BY <1>3, <1>5
<1>6. CASE \E c \in Turns(alg, queue) : running' = Head(Turn(queue[c]))
                                        /\ task' = Swap(task, running, Head(Turn(queue[c])))
  BY <1>4, <1>6
<1>7. CASE Turns(alg, queue) = {}
  <2>1. task' = task
    BY <1>7, SchedulerTickKeeps
  <2> QED BY <1>3, <2>1
<1>8. \/ UNCHANGED <<queue, running, task>>
      \/ Turns(alg, queue) = {}
      \/ \E c \in Turns(alg, queue) : running' = Head(Turn(queue[c]))
                                      /\ task' = Swap(task, running, Head(Turn(queue[c])))
  BY DEF SchedulerTick
<1> QED BY <1>5, <1>6, <1>7, <1>8

\* RemoveTask changes the state of one task, the next in the ring, which was
\* ready; the task that leaves keeps its own.
LEMMA EndTickStates ==
  ASSUME SimInv, OnEndTick, NEW u \in Tasks
  PROVE  /\ Alike(task[u], task'[u])
         /\ \/ task'[u].state = task[u].state
            \/ task[u].state \in Queueable /\ task'[u].state \in Queueable
<1> DEFINE t == list[at]
<1>1. /\ SimTypes /\ SchedulerAgrees /\ t \in Tasks
      /\ \A v \in Tasks : task[v] \in Fields(Runs(v))
  BY EndTickKeeps DEF SimInv, SimTypes
<1>2. CASE ~ task[t].remove
  <2>1. task' = task
    BY <1>2, EndTickKeeps
  <2> QED BY <2>1 DEF Alike
<1>3. CASE task[t].remove
  <2>1. /\ t = running /\ Leaving = {t}
        /\ running' = HeadOf(queue'[Class(t)])
        /\ task'[u].state = IF u = t THEN task[t].state
                            ELSE IF u = running' THEN "RUNNING" ELSE task[u].state
    BY <1>3, EndTickKeeps
  <2>2. Alike(task[u], task'[u])
    <3> DEFINE new == Swap(task, running, running')
    <3>1. task' = [new EXCEPT ![t].state = task[t].state]
      BY <1>3 DEF OnEndTick, RemoveTask
    <3>2. new = [v \in Tasks |-> new[v]]
      BY DEF Swap
    <3>3. Alike(task[u], new[u])
      <4> HIDE DEF new
      <4>1. new = Swap(task, running, running')
        BY DEF new
      <4> QED BY <1>1, <4>1, SwapAlike
    <3> HIDE DEF new
    <3>4. u # t => task'[u] = new[u]
      BY <1>1, <3>1, <3>2
    <3>5. task'[t] = [new[t] EXCEPT !.state = task[t].state]
      BY <1>1, <3>1, <3>2
    <3>6. new[t] \in Fields(Runs(t))
      <4>1. "RUNNING" \in States /\ "READY" \in States /\ Runs(t) \in Nat
        BY <1>1, RunsType DEF States
      <4>2. /\ [task[t] EXCEPT !.state = "RUNNING"] \in Fields(Runs(t))
            /\ [task[t] EXCEPT !.state = "READY"] \in Fields(Runs(t))
        BY <1>1, <4>1, SetState
      <4>3. new[t] \in {task[t], [task[t] EXCEPT !.state = "RUNNING"],
                        [task[t] EXCEPT !.state = "READY"]}
        BY <1>1 DEF new, Swap
      <4> QED BY <1>1, <4>2, <4>3
    <3>7. u = t => Alike(new[t], task'[t])
      BY <3>5, <3>6 DEF Fields, Alike
    <3> QED BY <1>1, <3>3, <3>4, <3>7 DEF Alike
  <2>3. u # t /\ u = running' => task[u].state \in Queueable
    <3>1. SUFFICES ASSUME u # t, u = running' PROVE task[u].state \in Queueable
      OBVIOUS
    <3>2. Class(t) \in Classes
      BY <1>1, ClassType
    <3> DEFINE c == Class(t)
               q == queue[c]
    <3>3. queue' = Dequeue(alg, queue, running, c) /\ q \in Seq(Tasks) /\ IsInjective(q)
          /\ q # <<>> /\ running = q[1]
      <4>1. queue' = Dequeue(alg, queue, running, Class(running))
        BY <1>3 DEF OnEndTick, RemoveTask
      <4>2. running = HeadOf(q) /\ q \in Seq(Tasks) /\ IsInjective(q)
        BY <1>1, <2>1, <3>2, NoTaskIsNone DEF SchedulerAgrees, SimTypes
      <4>3. q # <<>>
        BY <1>1, <2>1, <4>2, NoTaskIsNone DEF HeadOf
      <4>4. running = q[1]
        BY <4>2, <4>3, TailRing DEF HeadOf
      <4> QED BY <2>1, <4>1, <4>2, <4>3, <4>4
    <3>4. queue'[c] = Tail(q)
      <4> DEFINE p == queue'
      <4>1. queue \in Rings /\ running = HeadOf(q)
        BY <1>1, <3>2, <3>3, MapTypes, NoTaskIsNone
      <4>2. p = Dequeue(alg, queue, running, c)
        BY <3>3
      <4> HIDE DEF p
      <4>3. p \in Rings /\ RingIs(p, queue, c, Tail(q))
        BY <3>2, <3>3, <4>1, <4>2, DequeueDrops
      <4> QED BY <4>3 DEF RingIs, p
    <3>5. u \in Range(q)
      <4> DEFINE s == Tail(q)
      <4>1. s \in Seq(Tasks) /\ IsInjective(s) /\ Range(s) = Range(q) \ {q[1]}
        BY <3>3, TailRing
      <4>2. u = HeadOf(s)
        BY <2>1, <3>1, <3>4
      <4>3. s # <<>>
        BY <4>2, NoTaskIsNone DEF HeadOf
      <4> HIDE DEF s
      <4>4. u = s[1] /\ s[1] \in Range(s)
        BY <4>1, <4>2, <4>3, TailRing DEF HeadOf
      <4> QED BY <4>1, <4>4
    <3> QED BY <1>1, <2>1, <3>1, <3>2, <3>5 DEF SchedulerAgrees, Queueable
  <2>4. u # t /\ u = running' => task'[u].state \in Queueable
    BY <2>1 DEF Queueable
  <2> HIDE DEF t
  <2> QED BY <2>1, <2>2, <2>3, <2>4
<1> QED BY <1>2, <1>3

-----------------------------------------------------------------------------
(* The accounts of all tasks.                                              *)

InList(t) == \E i \in 1 .. Len(list) : list[i] = t
InFinished(t) == \E i \in 1 .. Len(finished) : finished[i] = t

\* The tasks that OnSysTick has been called for in this tick, and those that
\* OnStartTick has been called for and OnSysTick has not.
Walked(t) == phase = "run" /\ \E i \in 1 .. at - 1 : (list \o finished)[i] = t
Between(t) == \/ phase = "start" /\ \E i \in 1 .. at - 1 : i <= Len(list) /\ list[i] = t
              \/ phase = "run" /\ ~ Walked(t)

\* Each task is in one of the two lists, at one place.
Places ==
  /\ \A t \in Tasks : (InList(t) \/ InFinished(t)) /\ ~ (InList(t) /\ InFinished(t))
  /\ \A i, j \in 1 .. Len(finished) : finished[i] = finished[j] => i = j

\* The waveforms have a node for each tick, and at most one of them RUNNING.
Lengths ==
  /\ drawn = [t \in Tasks |-> drawn[t]]
  /\ \A t \in Tasks : /\ drawn[t] \in Seq(States)
                      /\ Len(drawn[t]) = IF phase = "run" /\ ~ Walked(t) THEN time - 1 ELSE time
OneRuns ==
  /\ \A t, u \in Tasks : \A i \in 1 .. Len(drawn[t]) :
       i <= Len(drawn[u]) /\ drawn[t][i] = "RUNNING" /\ drawn[u][i] = "RUNNING" => t = u
  /\ \A t \in Tasks : Walked(t) /\ drawn[t][time] = "RUNNING" => t = running

\* Each task is looked at when it may arrive for the first time.
Arriving == \A t \in Tasks : task[t].state = "INIT" => phase = "start" /\ ~ Between(t)
Account(t) == IF Between(t) THEN AccountOf(task[t], drawn[t], job[t], TRUE)
              ELSE AccountOf(task[t], drawn[t], job[t], FALSE)
Accounts == Places /\ Lengths /\ OneRuns /\ Arriving /\ \A t \in Tasks : Account(t)

\* The two lists together have each task at one place.
LEMMA Distinct ==
  ASSUME SimTypes, Walks, Places
  PROVE  /\ \A i, j \in 1 .. Len(list) + Len(finished) :
              (list \o finished)[i] = (list \o finished)[j] => i = j
         /\ \A t \in Tasks : \E i \in 1 .. Len(list) + Len(finished) : (list \o finished)[i] = t
         /\ \A i, j \in 1 .. Len(list) : list[i] = list[j] => i = j
<1>1. PICK m \in Nat, n \in Nat : m = Len(list) /\ n = Len(finished)
  BY ListTypes
<1> DEFINE both == list \o finished
<1>2. /\ \A i \in 1 .. m : both[i] = list[i] /\ list[i] \in Tasks
      /\ \A i \in 1 .. m + n : i > m => both[i] = finished[i - m]
      /\ \A i \in 1 .. n : finished[i] \in Tasks
  BY <1>1, ListTypes
<1> HIDE DEF both
<1>3. ASSUME NEW i \in 1 .. m, NEW j \in 1 .. m, list[i] = list[j] PROVE i = j
  <2>1. \A p, q \in 1 .. m : p < q => list[p] < list[q]
    BY <1>1 DEF Walks
  <2>2. list[i] \in Int
    <3>1. list[i] \in Tasks
      BY <1>2
    <3> QED BY <3>1 DEF Tasks
  <2>3. ~ (i < j) /\ ~ (j < i)
    BY <1>3, <2>1, <2>2
  <2> QED BY <2>3
<1>4. ASSUME NEW i \in 1 .. m + n, NEW j \in 1 .. m + n, both[i] = both[j] PROVE i = j
  <2>1. \A p \in 1 .. m + n : p \in 1 .. m \/ (p > m /\ p - m \in 1 .. n)
    BY <1>1
  <2>2. CASE i \in 1 .. m /\ j \in 1 .. m
    BY <1>2, <1>3, <1>4, <2>2
  <2>3. CASE i > m /\ i - m \in 1 .. n /\ j > m /\ j - m \in 1 .. n
    <3>1. finished[i - m] = finished[j - m]
      BY <1>2, <1>4, <2>3
    <3>2. i - m = j - m
      BY <1>1, <2>3, <3>1 DEF Places
    <3> QED BY <3>2
  <2>4. \A p, q \in 1 .. m + n : ~ (p \in 1 .. m /\ q > m /\ q - m \in 1 .. n /\ both[p] = both[q])
    <3> SUFFICES ASSUME NEW p \in 1 .. m + n, NEW q \in 1 .. m + n,
                        p \in 1 .. m, q > m, q - m \in 1 .. n, both[p] = both[q]
                 PROVE  FALSE
      OBVIOUS
    <3>1. list[p] = finished[q - m] /\ list[p] \in Tasks
      BY <1>2
    <3>2. InList(list[p]) /\ InFinished(list[p])
      BY <1>1, <3>1 DEF InList, InFinished
    <3> QED BY <3>1, <3>2 DEF Places
  <2> QED BY <1>4, <2>1, <2>2, <2>3, <2>4
<1>5. ASSUME NEW t \in Tasks PROVE \E i \in 1 .. m + n : both[i] = t
  <2>1. CASE InList(t)
    <3>1. PICK i \in 1 .. m : list[i] = t
      BY <1>1, <2>1 DEF InList
    <3>2. i \in 1 .. m + n
      OBVIOUS
    <3> QED BY <1>2, <3>1, <3>2
  <2>2. CASE InFinished(t)
    <3>1. PICK i \in 1 .. n : finished[i] = t
      BY <1>1, <2>2 DEF InFinished
    <3>2. i + m \in 1 .. m + n /\ i + m > m /\ i + m - m = i
      OBVIOUS
    <3> QED BY <1>2, <3>1, <3>2
  <2> QED BY <2>1, <2>2 DEF Places
<1> QED BY <1>1, <1>3, <1>4, <1>5 DEF both

\* The types that the accounts of a task need.
LEMMA EachTaskOf ==
  ASSUME SimTypes, Lengths, NEW t \in Tasks
  PROVE  TaskOf(task[t], drawn[t], job[t])
<1>1. job[t] \in Jobs /\ task[t] \in Fields(Len(job[t].runs))
  BY DEF SimTypes, Runs
<1>2. drawn[t] \in Seq(States)
  BY DEF Lengths
<1> QED BY <1>1, <1>2, TasksAssumption DEF TaskOf

\* OnStartTick keeps the accounts: a task whose tick has come is queued.
LEMMA StartTickAccounts == SimInv /\ Accounts /\ OnStartTick => Accounts'
<1> SUFFICES ASSUME SimInv, Accounts, OnStartTick PROVE Accounts'
  OBVIOUS
<1>0. PICK t : t = list[at]
  OBVIOUS
<1>1. SimTypes /\ Walks /\ t \in Tasks /\ at \in 1 .. Len(list)
  BY <1>0, StartTickKeeps DEF SimInv
<1>2. Places /\ Lengths /\ OneRuns /\ Arriving /\ \A u \in Tasks : Account(u)
  BY DEF Accounts
<1>3. /\ phase = "start" /\ phase' = "start" /\ at' = at + 1 /\ list' = list
      /\ finished' = finished /\ time' = time /\ drawn' = drawn /\ job' = job
  BY DEF OnStartTick, inputs
<1>4. \A u : ~ Walked(u) /\ ~ Walked(u)'
  BY <1>3 DEF Walked
<1>5. Places'
  BY <1>2, <1>3 DEF Places, InList, InFinished
<1>6. Lengths'
  BY <1>2, <1>3, <1>4 DEF Lengths
<1>7. OneRuns'
  BY <1>2, <1>3, <1>4 DEF OneRuns
<1>8. \A u : Between(u) <=> \E i \in 1 .. at - 1 : i <= Len(list) /\ list[i] = u
  BY <1>3 DEF Between
<1>9. \A u : Between(u)' <=> \E i \in 1 .. at : i <= Len(list) /\ list[i] = u
  <2>1. (at + 1) - 1 = at
    BY <1>1, ListTypes
  <2> QED BY <1>3, <2>1 DEF Between
<1>10. Between(t)' /\ ~ Between(t)
  <2>1. at \in 1 .. at /\ at <= Len(list) /\ \A i \in 1 .. at - 1 : i # at
    BY <1>1, ListTypes
  <2>2. \A i \in 1 .. at - 1 : i <= Len(list) => i \in 1 .. Len(list)
    BY <1>1, ListTypes
  <2>3. Between(t)'
    BY <1>0, <1>9, <2>1
  <2>4. \A i, j \in 1 .. Len(list) : list[i] = list[j] => i = j
    BY <1>1, <1>2, Distinct
  <2>5. ~ Between(t)
    BY <1>0, <1>1, <1>8, <2>1, <2>2, <2>4
  <2> QED BY <2>3, <2>5
<1>11. \A u : u # t => (Between(u)' <=> Between(u))
  <2>1. \A i \in 1 .. at : i \in 1 .. at - 1 \/ i = at
    BY <1>1, ListTypes
  <2>2. \A i \in 1 .. at - 1 : i \in 1 .. at
    BY <1>1, ListTypes
  <2> QED BY <1>0, <1>8, <1>9, <2>1, <2>2
<1>12. /\ AccountOf(task[t], drawn[t], job[t], FALSE) /\ TaskOf(task[t], drawn[t], job[t])
       /\ Len(drawn[t]) = time
  BY <1>1, <1>2, <1>3, <1>10, EachTaskOf DEF Account, Lengths
<1>13. ASSUME NEW u \in Tasks, u # t
       PROVE  Account(u)' /\ (task'[u].state = "INIT" => task[u].state = "INIT")
  <2>1. /\ Alike(task[u], task'[u])
        /\ \/ task'[u].state = task[u].state
           \/ task[u].state \in Queueable /\ task'[u].state \in Queueable
    BY <1>0, <1>13, StartTickFields, StartTickStates
  <2> DEFINE new == task'[u]
  <2> HIDE DEF new
  <2>2. \A b : AccountOf(task[u], drawn[u], job[u], b) => AccountOf(new, drawn[u], job[u], b)
    BY <2>1, SwapAccount DEF new
  <2>3. Account(u)
    BY <1>2
  <2>4. Account(u)'
    BY <1>3, <1>11, <1>13, <2>2, <2>3 DEF Account, new
  <2> QED BY <2>1, <2>4 DEF Queueable
<1>14. AccountOf(task'[t], drawn[t], job[t], TRUE) /\ task'[t].state # "INIT"
  <2> DEFINE new == task'[t]
  <2>1. CASE task[t].next # time
    <3>1. /\ Alike(task[t], new)
          /\ new.state = IF task[t].state = "INIT" THEN "NOT_ARRIVED" ELSE task[t].state
      BY <1>0, <2>1, StartTickFields
    <3> HIDE DEF new
    <3>2. AccountOf(new, drawn[t], job[t], TRUE)
      BY <1>12, <2>1, <3>1, WaitAccount
    <3>3. new.state # "INIT"
      BY <3>1
    <3> QED BY <3>2, <3>3 DEF new
  <2>2. CASE task[t].next = time
    <3>1. task[t].state \in {"INIT", "NOT_ARRIVED", "BLOCKED"}
      <4>1. ClockIs(task[t], drawn[t], FALSE)
        BY <1>12 DEF AccountOf
      <4>2. task[t].state \in States /\ ~ (time < time)
        BY <1>1, <1>12, TaskNumbers, ListTypes
      <4> QED BY <1>12, <2>2, <4>1, <4>2 DEF ClockIs, States
    <3>2. /\ new.last \in {"NOT_ARRIVED", "BLOCKED"}
          /\ new.bursts = task[t].bursts + 1 /\ new.times = task[t].times
          /\ new.index = task[t].index /\ new.next = task[t].next
          /\ new.runTime = task[t].runTime /\ new.blockTime = task[t].blockTime
          /\ new.state \in Queueable
      BY <1>0, <2>2, <3>1, StartTickFields
    <3> HIDE DEF new
    <3>3. AccountOf(new, drawn[t], job[t], TRUE)
      BY <1>12, <2>2, <3>1, <3>2, QueueAccount
    <3>4. new.state # "INIT"
      BY <3>2 DEF Queueable
    <3> QED BY <3>3, <3>4 DEF new
  <2> QED BY <2>1, <2>2
<1>15. Account(t)'
  BY <1>3, <1>10, <1>14 DEF Account
<1>16. Arriving'
  <2>1. ASSUME NEW u \in Tasks, task'[u].state = "INIT" PROVE ~ Between(u)'
    <3>1. u # t
      BY <1>14, <2>1
    <3>2. task[u].state = "INIT"
      BY <1>13, <2>1, <3>1
    <3>3. ~ Between(u)
      BY <1>2, <3>2 DEF Arriving
    <3> QED BY <1>11, <3>1, <3>3
  <2> QED BY <1>3, <2>1 DEF Arriving
<1>17. \A u \in Tasks : Account(u)'
  BY <1>13, <1>15
<1> QED BY <1>5, <1>6, <1>7, <1>16, <1>17 DEF Accounts

\* The timer keeps the accounts: every task has been looked at, and what it swaps
\* is queued.
LEMMA SchedulerTickAccounts == SimInv /\ Accounts /\ SchedulerTick => Accounts'
<1> SUFFICES ASSUME SimInv, Accounts, SchedulerTick PROVE Accounts'
  OBVIOUS
<1>1. SimTypes /\ Walks
  BY DEF SimInv
<1>2. Places /\ Lengths /\ OneRuns /\ Arriving /\ \A u \in Tasks : Account(u)
  BY DEF Accounts
<1>3. /\ phase = "start" /\ phase' = "run" /\ at > Len(list) /\ at' = 1 /\ list' = list
      /\ finished' = finished /\ time' = time + 1 /\ drawn' = drawn /\ job' = job
  BY DEF SchedulerTick, inputs
<1>4. \A u : ~ Walked(u) /\ ~ Walked(u)'
  <2>1. \A i \in 1 .. 1 - 1 : FALSE
    OBVIOUS
  <2> QED BY <1>3, <2>1 DEF Walked
<1>5. \A u : Between(u)'
  BY <1>3, <1>4 DEF Between
<1>6. \A u : Between(u) <=> InList(u)
  <2>1. /\ \A i \in 1 .. Len(list) : i \in 1 .. at - 1 /\ i <= Len(list)
        /\ \A i \in 1 .. at - 1 : i <= Len(list) => i \in 1 .. Len(list)
    BY <1>1, <1>3, ListTypes
  <2> QED BY <1>3, <2>1 DEF Between, InList
<1>7. Places'
  BY <1>2, <1>3 DEF Places, InList, InFinished
<1>8. Lengths'
  <2>1. time \in Nat /\ time = (time + 1) - 1
    BY <1>1, ListTypes
  <2> QED BY <1>2, <1>3, <1>4, <2>1 DEF Lengths
<1>9. OneRuns'
  BY <1>2, <1>3, <1>4 DEF OneRuns
<1>10. ASSUME NEW u \in Tasks PROVE AccountOf(task[u], drawn[u], job[u], TRUE) /\ task[u].state # "INIT"
  <2>1. CASE InList(u)
    BY <1>2, <1>6, <2>1 DEF Account, Arriving
  <2>2. CASE ~ InList(u)
    <3>1. AccountOf(task[u], drawn[u], job[u], FALSE) /\ InFinished(u)
      BY <1>2, <1>6, <2>2 DEF Account, Places
    <3>2. task[u].state = "FINISHED"
      BY <1>1, <3>1 DEF Walks, InFinished
    <3> QED BY <3>1, <3>2, FinishedAccount
  <2> QED BY <2>1, <2>2
<1>11. ASSUME NEW u \in Tasks PROVE Account(u)' /\ task'[u].state # "INIT"
  <2> DEFINE new == task'[u]
  <2>1. /\ Alike(task[u], new)
        /\ \/ new.state = task[u].state
           \/ task[u].state \in Queueable /\ new.state \in Queueable
    BY SchedulerTickStates
  <2> HIDE DEF new
  <2>2. AccountOf(new, drawn[u], job[u], TRUE)
    BY <1>10, <2>1, SwapAccount
  <2>3. new.state # "INIT"
    BY <1>10, <2>1 DEF Queueable
  <2> QED BY <1>3, <1>5, <2>2, <2>3 DEF Account, new
<1> QED BY <1>7, <1>8, <1>9, <1>11 DEF Accounts, Arriving

\* The task that OnSysTick is called for has not been ticked yet.
LEMMA WhoIsTicked ==
  ASSUME SimInv, Accounts, OnSysTick, NEW t, t = (list \o finished)[at]
  PROVE  /\ t \in Tasks /\ ~ Walked(t) /\ Walked(t)'
         /\ \A u : u # t => (Walked(u)' <=> Walked(u))
<1>1. SimTypes /\ Walks /\ Places /\ t \in Tasks /\ at \in 1 .. Len(list) + Len(finished)
  BY OnSysTickKeeps DEF SimInv, Accounts
<1>2. /\ phase = "run" /\ phase' = "run" /\ at' = at + 1 /\ list' = list /\ finished' = finished
  BY DEF OnSysTick
<1>3. PICK n \in Nat : n = Len(list) + Len(finished)
  BY <1>1, ListTypes
<1> DEFINE both == list \o finished
<1>4. /\ \A u : Walked(u) <=> \E i \in 1 .. at - 1 : both[i] = u
      /\ \A u : Walked(u)' <=> \E i \in 1 .. at : both[i] = u
  <2>1. (at + 1) - 1 = at
    BY <1>1, <1>3
  <2> QED BY <1>2, <2>1 DEF Walked
<1>5. /\ at \in 1 .. at
      /\ \A i \in 1 .. at - 1 : i \in 1 .. at /\ i \in 1 .. n /\ i # at
      /\ \A i \in 1 .. at : i = at \/ i \in 1 .. at - 1
  BY <1>1, <1>3
<1>6. \A i, j \in 1 .. n : both[i] = both[j] => i = j
  BY <1>1, <1>3, Distinct
<1>7. both[at] = t
  OBVIOUS
<1> HIDE DEF both
<1> QED BY <1>1, <1>3, <1>4, <1>5, <1>6, <1>7

\* OnSysTick counts the tick and draws the state that the task has in it.
LEMMA SysTickTask ==
  ASSUME SimInv, Accounts, OnSysTick, NEW t, t = (list \o finished)[at]
  PROVE  /\ AccountOf(task'[t], drawn'[t], job[t], FALSE)
         /\ drawn'[t] = Append(drawn[t], task[t].state)
         /\ drawn' = [u \in Tasks |-> drawn'[u]]
         /\ \A u \in Tasks : u # t => drawn'[u] = drawn[u]
         /\ Len(drawn[t]) = time - 1 /\ task[t].state # "INIT"
<1>1. /\ SimTypes /\ t \in Tasks /\ ~ Walked(t) /\ phase = "run" /\ time \in Nat
      /\ Lengths /\ Arriving /\ Account(t)
  BY WhoIsTicked, ListTypes DEF SimInv, Accounts, OnSysTick
<1>2. /\ AccountOf(task[t], drawn[t], job[t], TRUE) /\ task[t].state # "INIT"
      /\ TaskOf(task[t], drawn[t], job[t]) /\ Len(drawn[t]) = time - 1
      /\ drawn[t] \in Seq(States) /\ drawn = [u \in Tasks |-> drawn[u]]
  BY <1>1, EachTaskOf DEF Account, Between, Arriving, Lengths
<1>3. drawn' = [u \in Tasks |-> IF u = t THEN Append(drawn[t], task[t].state) ELSE drawn[u]]
  <2>1. NodeOf(task[t], drawn[t]) = task[t].state
    BY <1>2, NodeIsState DEF AccountOf
  <2>2. drawn' = [drawn EXCEPT ![t] = Append(drawn[t], NodeOf(task[t], drawn[t]))]
    BY DEF OnSysTick, Draw, NodeOf
  <2> DEFINE w == Append(drawn[t], task[t].state)
  <2>3. drawn' = [drawn EXCEPT ![t] = w]
    BY <2>1, <2>2
  <2> HIDE DEF w
  <2>4. drawn' = [u \in Tasks |-> IF u = t THEN w ELSE drawn[u]]
    BY <1>2, <2>3
  <2> QED BY <2>4 DEF w
<1>4. task'[t] = Ticked(task[t])
  <2>1. task' = [task EXCEPT ![t] = Ticked(task[t])]
    BY DEF OnSysTick
  <2> QED BY <1>1, <2>1 DEF SimTypes
<1>5. PICK n \in Nat : n = Len(job[t].runs)
  BY <1>2, TaskNumbers
<1>6. task[t] \in Fields(n)
  BY <1>1, <1>5 DEF SimTypes, Runs
<1>7. IsTicked(n, time, task[t], task'[t])
  <2>1. CASE task[t].state = "RUNNING" /\ task[t].times[task[t].index] = 1
    <3>1. PICK m \in 0 .. Len(job[t].blocks) : HasDone(task[t], drawn[t], job[t], m)
      BY <1>2 DEF AccountOf
    <3>2. task[t].index = 2 * m
      BY <2>1, <3>1 DEF HasDone
    <3>3. 2 * m \in 0 .. 2 * n - 2
      <4>1. PICK b \in Nat : b = Len(job[t].blocks) /\ b < n
        BY <1>2, <1>5, TaskNumbers
      <4>2. PICK p \in 0 .. b : p = m
        BY <4>1
      <4>3. b < n => 2 * p \in 0 .. 2 * n - 2
        OBVIOUS
      <4> QED BY <4>1, <4>2, <4>3
    <3>4. Leaves(n, time, task[t], Ticked(task[t]))
      BY <1>1, <1>6, <2>1, <3>2, <3>3, TickedLeaves
    <3> QED BY <1>4, <2>1, <3>4 DEF IsTicked
  <2>2. CASE ~ (task[t].state = "RUNNING" /\ task[t].times[task[t].index] = 1)
    <3>1. Stays(task[t], Ticked(task[t]))
      BY <1>1, <1>6, <2>2, TickedStays
    <3> QED BY <1>4, <2>2, <3>1 DEF IsTicked
  <2> QED BY <2>1, <2>2
<1>8. AccountOf(task'[t], Append(drawn[t], task[t].state), job[t], FALSE)
  <2> DEFINE l == task'[t]
             v == Append(drawn[t], task[t].state)
  <2>1. time = Len(drawn[t]) + 1
    BY <1>1, <1>2
  <2>2. IsTicked(Len(job[t].runs), Len(drawn[t]) + 1, task[t], l)
    BY <1>5, <1>7, <2>1
  <2>3. v = Append(drawn[t], task[t].state)
    OBVIOUS
  <2> HIDE DEF l, v
  <2>4. AccountOf(l, v, job[t], FALSE)
    BY <1>2, <2>2, <2>3, TickAccount
  <2> QED BY <2>4 DEF l, v
<1>9. /\ drawn'[t] = Append(drawn[t], task[t].state)
      /\ drawn' = [u \in Tasks |-> drawn'[u]]
      /\ \A u \in Tasks : u # t => drawn'[u] = drawn[u]
  BY <1>1, <1>3
<1> QED BY <1>2, <1>8, <1>9

\* A node that is drawn RUNNING in this tick is that of the running task.
LEMMA SysTickOneRuns ==
  ASSUME SimInv, Accounts, OnSysTick, NEW t, t = (list \o finished)[at]
  PROVE  OneRuns' /\ Lengths'
<1>1. /\ t \in Tasks /\ ~ Walked(t) /\ Walked(t)'
      /\ \A u : u # t => (Walked(u)' <=> Walked(u))
  BY WhoIsTicked
<1>2. Len(drawn[t]) = time - 1
  BY SysTickTask
<1>3. /\ phase = "run" /\ phase' = "run" /\ time' = time /\ time \in Nat /\ running' = running
      /\ Lengths /\ OneRuns /\ task[t].state \in States
      /\ task[t].state = "RUNNING" => t = running
  <2>1. SimTypes /\ SchedulerAgrees
    BY DEF SimInv
  <2> QED BY <1>1, <2>1, ListTypes DEF Accounts, OnSysTick, SchedulerAgrees, SimTypes, Fields
<1>4. \A u \in Tasks : /\ drawn[u] \in Seq(States)
                       /\ Len(drawn[u]) = IF ~ Walked(u) THEN time - 1 ELSE time
  BY <1>3 DEF Lengths
<1>5. /\ \A u \in Tasks : u # t => drawn'[u] = drawn[u]
      /\ drawn'[t] = Append(drawn[t], task[t].state)
      /\ drawn' = [u \in Tasks |-> drawn'[u]]
  BY SysTickTask
<1>6. /\ drawn'[t] \in Seq(States) /\ Len(drawn'[t]) = time /\ drawn'[t][time] = task[t].state
      /\ \A i \in 1 .. time - 1 : drawn'[t][i] = drawn[t][i]
  <2> DEFINE w == drawn[t]
             s == task[t].state
             v == drawn'[t]
  <2>1. w \in Seq(States) /\ s \in States /\ v = Append(w, s) /\ Len(w) = time - 1
    BY <1>1, <1>2, <1>3, <1>4, <1>5
  <2> HIDE DEF w, s, v
  <2>2. /\ v \in Seq(States) /\ Len(v) = Len(w) + 1 /\ v[Len(w) + 1] = s
        /\ \A i \in 1 .. Len(w) : v[i] = w[i]
    BY <2>1, AppendProperties
  <2>3. Len(w) + 1 = time
    BY <1>3, <2>1
  <2>4. Len(v) = time /\ v[time] = s /\ \A i \in 1 .. time - 1 : v[i] = w[i]
    BY <2>1, <2>2, <2>3
  <2> QED BY <2>2, <2>4 DEF w, s, v
<1>7. Lengths'
  <2>1. ASSUME NEW u \in Tasks
        PROVE  /\ drawn'[u] \in Seq(States)
               /\ Len(drawn'[u]) = IF ~ Walked(u)' THEN time - 1 ELSE time
    <3>1. CASE u = t
      BY <1>1, <1>6, <3>1
    <3>2. CASE u # t
      BY <1>1, <1>4, <1>5, <3>2
    <3> QED BY <3>1, <3>2
  <2> QED BY <1>3, <1>5, <2>1 DEF Lengths
<1>8. /\ \A u, v \in Tasks : \A i \in 1 .. Len(drawn[u]) :
            i <= Len(drawn[v]) /\ drawn[u][i] = "RUNNING" /\ drawn[v][i] = "RUNNING" => u = v
      /\ \A u \in Tasks : Walked(u) /\ drawn[u][time] = "RUNNING" => u = running
  BY <1>3 DEF OneRuns
<1>9. ASSUME NEW u \in Tasks, u # t, NEW i \in 1 .. time, i <= Len(drawn[u])
      PROVE  ~ (drawn'[t][i] = "RUNNING" /\ drawn[u][i] = "RUNNING")
  <2>1. CASE i = time
    <3>1. Walked(u)
      <4>1. ~ (time <= time - 1)
        BY <1>3
      <4> QED BY <1>4, <1>9, <2>1, <4>1
    <3> QED BY <1>3, <1>6, <1>8, <1>9, <2>1, <3>1
  <2>2. CASE i # time
    <3>1. i \in 1 .. time - 1
      BY <1>3, <2>2
    <3>2. i \in 1 .. Len(drawn[t]) /\ drawn'[t][i] = drawn[t][i]
      BY <1>2, <1>6, <3>1
    <3>3. \A v \in Tasks : i <= Len(drawn[v]) /\ drawn[t][i] = "RUNNING" /\ drawn[v][i] = "RUNNING" => t = v
      BY <1>1, <1>8, <3>2
    <3> QED BY <1>9, <3>2, <3>3
  <2> QED BY <2>1, <2>2
<1>10. ASSUME NEW u \in Tasks, NEW v \in Tasks, NEW i \in 1 .. Len(drawn'[u]),
              i <= Len(drawn'[v]), drawn'[u][i] = "RUNNING", drawn'[v][i] = "RUNNING"
       PROVE  u = v
  <2>1. CASE u # t /\ v # t
    BY <1>5, <1>8, <1>10, <2>1
  <2>2. CASE u = t /\ v # t
    <3>1. i \in 1 .. time /\ i <= Len(drawn[v])
      BY <1>5, <1>6, <1>10, <2>2
    <3> QED BY <1>5, <1>9, <1>10, <2>2, <3>1
  <2>3. CASE u # t /\ v = t
    <3>1. i \in 1 .. Len(drawn[u]) /\ i <= time
      BY <1>5, <1>6, <1>10, <2>3
    <3>2. Len(drawn[u]) \in Nat
      BY <1>4, LenProperties
    <3>3. i \in 1 .. time /\ i <= Len(drawn[u])
      BY <1>3, <3>1, <3>2
    <3> QED BY <1>5, <1>9, <1>10, <2>3, <3>3
  <2> QED BY <2>1, <2>2, <2>3
<1>11. ASSUME NEW u \in Tasks, Walked(u)', drawn'[u][time] = "RUNNING" PROVE u = running
  <2>1. CASE u = t
    BY <1>3, <1>6, <1>11, <2>1
  <2>2. CASE u # t
    BY <1>1, <1>5, <1>8, <1>11, <2>2
  <2> QED BY <2>1, <2>2
<1>12. OneRuns'
  BY <1>3, <1>10, <1>11 DEF OneRuns
<1> QED BY <1>7, <1>12

\* OnSysTick keeps the accounts.
LEMMA SysTickAccounts == SimInv /\ Accounts /\ OnSysTick => Accounts'
<1> SUFFICES ASSUME SimInv, Accounts, OnSysTick PROVE Accounts'
  OBVIOUS
<1>0. PICK t : t = (list \o finished)[at]
  OBVIOUS
<1>1. /\ t \in Tasks /\ ~ Walked(t) /\ Walked(t)'
      /\ \A u : u # t => (Walked(u)' <=> Walked(u))
  BY <1>0, WhoIsTicked
<1>2. Places /\ Arriving /\ \A u \in Tasks : Account(u)
  BY DEF Accounts
<1>3. /\ phase = "run" /\ phase' = "run" /\ list' = list /\ finished' = finished /\ job' = job
  BY DEF OnSysTick, inputs
<1>4. Places'
  BY <1>2, <1>3 DEF Places, InList, InFinished
<1>5. OneRuns' /\ Lengths'
  BY <1>0, SysTickOneRuns
<1>6. /\ AccountOf(task'[t], drawn'[t], job[t], FALSE)
      /\ \A u \in Tasks : u # t => drawn'[u] = drawn[u]
      /\ task[t].state # "INIT"
  BY <1>0, SysTickTask
<1>7. /\ \A u \in Tasks : u # t => task'[u] = task[u]
      /\ task'[t].state = task[t].state \/ task'[t].state \in {"FINISHED", "BLOCKED"}
  BY <1>0, OnSysTickKeeps DEF StillTick, OverTick
<1>8. ASSUME NEW u \in Tasks PROVE Account(u)'
  <2>1. CASE u = t
    <3>1. ~ Between(u)'
      BY <1>1, <1>3, <2>1 DEF Between
    <3> QED BY <1>3, <1>6, <2>1, <3>1 DEF Account
  <2>2. CASE u # t
    <3>1. Between(u)' <=> Between(u)
      BY <1>1, <1>3, <2>2 DEF Between
    <3>2. drawn'[u] = drawn[u] /\ task'[u] = task[u]
      BY <1>6, <1>7, <2>2
    <3> QED BY <1>2, <1>3, <3>1, <3>2 DEF Account
  <2> QED BY <2>1, <2>2
<1>9. Arriving'
  BY <1>2, <1>3, <1>6, <1>7 DEF Arriving
<1> QED BY <1>4, <1>5, <1>8, <1>9 DEF Accounts

\* The end of the loops over OnSysTick keeps the accounts: all have been ticked.
LEMMA AllTickedAccounts == SimInv /\ Accounts /\ AllTicked => Accounts'
<1> SUFFICES ASSUME SimInv, Accounts, AllTicked PROVE Accounts'
  OBVIOUS
<1>1. SimTypes /\ Walks
  BY DEF SimInv
<1>2. Places /\ Lengths /\ OneRuns /\ Arriving /\ \A u \in Tasks : Account(u)
  BY DEF Accounts
<1>3. /\ phase = "run" /\ phase' = "end" /\ at > Len(list \o finished) /\ list' = list
      /\ finished' = finished /\ time' = time /\ drawn' = drawn /\ job' = job /\ task' = task
  BY DEF AllTicked, inputs
<1>4. ASSUME NEW u \in Tasks PROVE Walked(u) /\ ~ Between(u)
  <2>1. PICK i \in 1 .. Len(list) + Len(finished) : (list \o finished)[i] = u
    BY <1>1, <1>2, Distinct
  <2>2. i \in 1 .. at - 1
    BY <1>1, <1>3, ListTypes
  <2> QED BY <1>3, <2>1, <2>2 DEF Walked, Between
<1>5. \A u : ~ Walked(u)' /\ ~ Between(u)'
  BY <1>3 DEF Walked, Between
<1>6. Places'
  BY <1>2, <1>3 DEF Places, InList, InFinished
<1>7. Lengths'
  BY <1>2, <1>3, <1>4 DEF Lengths
<1>8. OneRuns'
  BY <1>2, <1>3, <1>5 DEF OneRuns
<1>9. Arriving'
  BY <1>2, <1>3 DEF Arriving
<1>10. \A u \in Tasks : Account(u)'
  BY <1>2, <1>3, <1>4, <1>5 DEF Account
<1> QED BY <1>6, <1>7, <1>8, <1>9, <1>10 DEF Accounts

\* Each task stays in one of the lists when OnEndTick moves it.
LEMMA EndTickPlaces ==
  ASSUME SimInv, Places, OnEndTick
  PROVE  Places'
<1>0. PICK t : t = list[at]
  OBVIOUS
<1>1. SimTypes /\ Walks /\ t \in Tasks /\ at \in 1 .. Len(list)
  BY <1>0, EndTickKeeps DEF SimInv
<1>2. CASE task[t].state # "FINISHED"
  <2>1. list' = list /\ finished' = finished
    BY <1>0, <1>2 DEF OnEndTick
  <2> QED BY <2>1 DEF Places, InList, InFinished
<1>3. CASE task[t].state = "FINISHED"
  <2>1. list' = RemoveAt(list, at) /\ finished' = Append(finished, t)
    BY <1>0, <1>3 DEF OnEndTick
  <2>2. PICK m \in Nat, n \in Nat : m = Len(list) /\ n = Len(finished)
    BY <1>1, ListTypes
  <2> DEFINE l == list'
             f == finished'
  <2>3. Len(l) = m - 1 /\ \A i \in 1 .. m - 1 : l[i] = IF i < at THEN list[i] ELSE list[i + 1]
    BY <1>1, <2>1, <2>2, RemoveAtPlaces DEF SimTypes
  <2>4. Len(f) = n + 1 /\ f[n + 1] = t /\ \A i \in 1 .. n : f[i] = finished[i]
    BY <1>1, <2>1, <2>2, AppendProperties DEF SimTypes
  <2>5. \A u : InList(u)' <=> \E i \in 1 .. m - 1 : l[i] = u
    BY <2>3 DEF InList
  <2>6. \A u : InFinished(u)' <=> \E i \in 1 .. n + 1 : f[i] = u
    BY <2>4 DEF InFinished
  <2>7. \A u : (InList(u) <=> \E i \in 1 .. m : list[i] = u)
               /\ (InFinished(u) <=> \E i \in 1 .. n : finished[i] = u)
    BY <2>2 DEF InList, InFinished
  <2> HIDE DEF l, f
  <2>8. \A i, j \in 1 .. m : list[i] = list[j] => i = j
    BY <1>1, <2>2, Distinct
  <2>9. at \in 1 .. m /\ list[at] = t
    BY <1>0, <1>1, <2>2
  <2>10. ASSUME NEW u PROVE InList(u)' <=> InList(u) /\ u # t
    <3>1. ASSUME NEW i \in 1 .. m - 1, l[i] = u PROVE InList(u) /\ u # t
      <4>1. CASE i < at
        <5>1. i \in 1 .. m /\ i # at
          BY <2>9, <4>1
        <5> QED BY <2>3, <2>7, <2>8, <2>9, <3>1, <4>1, <5>1
      <4>2. CASE ~ (i < at)
        <5>1. i + 1 \in 1 .. m /\ i + 1 # at
          BY <2>9, <4>2
        <5> QED BY <2>3, <2>7, <2>8, <2>9, <3>1, <4>2, <5>1
      <4> QED BY <4>1, <4>2
    <3>2. ASSUME NEW i \in 1 .. m, list[i] = u, u # t PROVE \E j \in 1 .. m - 1 : l[j] = u
      <4>1. i # at
        BY <2>9, <3>2
      <4>2. CASE i < at
        <5>1. i \in 1 .. m - 1
          BY <2>9, <4>2
        <5> QED BY <2>3, <3>2, <4>2, <5>1
      <4>3. CASE ~ (i < at)
        <5>1. i - 1 \in 1 .. m - 1 /\ ~ (i - 1 < at) /\ (i - 1) + 1 = i
          BY <2>9, <4>1, <4>3
        <5> QED BY <2>3, <3>2, <5>1
      <4> QED BY <4>2, <4>3
    <3> QED BY <2>5, <2>7, <3>1, <3>2
  <2>11. ASSUME NEW u PROVE InFinished(u)' <=> InFinished(u) \/ u = t
    <3>1. /\ n + 1 \in 1 .. n + 1 /\ \A i \in 1 .. n : i \in 1 .. n + 1
          /\ \A i \in 1 .. n + 1 : i = n + 1 \/ i \in 1 .. n
      OBVIOUS
    <3> QED BY <2>4, <2>6, <2>7, <3>1
  <2>12. InList(t) /\ ~ InFinished(t)
    BY <1>1, <2>7, <2>9 DEF Places
  <2>13. \A i, j \in 1 .. n + 1 : f[i] = f[j] => i = j
    <3>1. \A i \in 1 .. n + 1 : i = n + 1 \/ i \in 1 .. n
      OBVIOUS
    <3>2. \A i \in 1 .. n : f[i] # t
      BY <2>4, <2>7, <2>12
    <3>3. \A i, j \in 1 .. n : f[i] = f[j] => i = j
      BY <2>2, <2>4 DEF Places
    <3> QED BY <2>4, <3>1, <3>2, <3>3
  <2>14. \A i, j \in 1 .. Len(finished') : finished'[i] = finished'[j] => i = j
    BY <2>4, <2>13 DEF f
  <2> QED BY <2>10, <2>11, <2>12, <2>14 DEF Places
<1> QED BY <1>2, <1>3

\* OnEndTick keeps the accounts.
LEMMA EndTickAccounts == SimInv /\ Accounts /\ OnEndTick => Accounts'
<1> SUFFICES ASSUME SimInv, Accounts, OnEndTick PROVE Accounts'
  OBVIOUS
<1>1. Places /\ Lengths /\ OneRuns /\ Arriving /\ \A u \in Tasks : Account(u)
  BY DEF Accounts
<1>2. phase = "end" /\ phase' = "end" /\ time' = time /\ drawn' = drawn /\ job' = job
  BY DEF OnEndTick, inputs
<1>3. \A u : ~ Walked(u) /\ ~ Walked(u)' /\ ~ Between(u) /\ ~ Between(u)'
  BY <1>2 DEF Walked, Between
<1>4. Places'
  BY <1>1, EndTickPlaces
<1>5. Lengths'
  BY <1>1, <1>2 DEF Lengths
<1>6. OneRuns'
  BY <1>1, <1>2, <1>3 DEF OneRuns
<1>7. ASSUME NEW u \in Tasks PROVE Account(u)' /\ task'[u].state # "INIT"
  <2> DEFINE new == task'[u]
  <2>1. /\ Alike(task[u], new)
        /\ \/ new.state = task[u].state
           \/ task[u].state \in Queueable /\ new.state \in Queueable
    BY EndTickStates
  <2> HIDE DEF new
  <2>2. AccountOf(task[u], drawn[u], job[u], FALSE)
    BY <1>1, <1>3 DEF Account
  <2>3. AccountOf(new, drawn[u], job[u], FALSE)
    BY <2>1, <2>2, SwapAccount
  <2>4. task[u].state # "INIT"
    BY <1>1, <1>2 DEF Arriving
  <2>5. new.state # "INIT"
    BY <2>1, <2>4 DEF Queueable
  <2> QED BY <1>2, <1>3, <2>3, <2>5 DEF Account, new
<1> QED BY <1>4, <1>5, <1>6, <1>7 DEF Accounts, Arriving

\* The end of a tick keeps the accounts.
LEMMA TickIsOverAccounts == SimInv /\ Accounts /\ TickIsOver => Accounts'
<1> SUFFICES ASSUME SimInv, Accounts, TickIsOver PROVE Accounts'
  OBVIOUS
<1>1. Places /\ Lengths /\ OneRuns /\ Arriving /\ \A u \in Tasks : Account(u)
  BY DEF Accounts
<1>2. /\ phase = "end" /\ phase' \in {"exit", "start"} /\ at' = 1 /\ time' = time /\ drawn' = drawn
      /\ job' = job /\ list' = list /\ finished' = finished /\ task' = task
  BY DEF TickIsOver, inputs
<1>3. \A u : ~ Walked(u) /\ ~ Walked(u)' /\ ~ Between(u) /\ ~ Between(u)'
  <2>1. \A i \in 1 .. 1 - 1 : FALSE
    OBVIOUS
  <2> QED BY <1>2, <2>1 DEF Walked, Between
<1>4. Places'
  BY <1>1, <1>2 DEF Places, InList, InFinished
<1>5. Lengths'
  BY <1>1, <1>2 DEF Lengths
<1>6. OneRuns'
  BY <1>1, <1>2, <1>3 DEF OneRuns
<1>7. Arriving'
  BY <1>1, <1>2 DEF Arriving
<1>8. \A u \in Tasks : Account(u)'
  BY <1>1, <1>2, <1>3 DEF Account
<1> QED BY <1>4, <1>5, <1>6, <1>7, <1>8 DEF Accounts

\* The accounts are about the variables of the simulator only.
LEMMA RestAccounts == Accounts /\ UNCHANGED vars => Accounts'
<1> SUFFICES ASSUME Accounts, UNCHANGED vars PROVE Accounts'
  OBVIOUS
<1>1. /\ phase' = phase /\ at' = at /\ time' = time /\ drawn' = drawn /\ running' = running
      /\ job' = job /\ list' = list /\ finished' = finished /\ task' = task
  BY DEF vars, inputs, control
<1>2. \A u : (Walked(u)' <=> Walked(u)) /\ (Between(u)' <=> Between(u))
  BY <1>1 DEF Walked, Between
<1>3. Places' /\ Lengths' /\ OneRuns' /\ Arriving'
  BY <1>1, <1>2 DEF Accounts, Places, InList, InFinished, Lengths, OneRuns, Arriving
<1>4. \A u \in Tasks : Account(u)'
  BY <1>1, <1>2 DEF Accounts, Account
<1> QED BY <1>3, <1>4 DEF Accounts

\* A task of the list that main has read.
LEMMA NewAccount ==
  ASSUME NEW j \in Jobs
  PROVE  AccountOf(NewTask(j), <<>>, j, FALSE)
<1>1. /\ j.runs \in Seq(Nat) /\ j.blocks \in Seq(Nat) /\ Len(j.blocks) < Len(j.runs)
      /\ j.arrive \in Nat
  BY TasksAssumption
<1>2. PICK n \in Nat, b \in Nat : n = Len(j.runs) /\ b = Len(j.blocks) /\ b < n
  BY <1>1, LenProperties
<1> DEFINE k == NewTask(j)
           w == <<>>
<1>3. /\ k.state = "INIT" /\ k.last = "INIT" /\ k.times = Times(j) /\ k.index = 0
      /\ k.next = j.arrive /\ k.runTime = 0 /\ k.blockTime = 0 /\ k.bursts = 0
  BY DEF NewTask
<1>4. Len(w) = 0 /\ \A s : Shown(w, s) = 0
  BY ShownNone
<1> HIDE DEF k, w
<1>5. LastNode(k, w)
  BY <1>4 DEF LastNode
<1>6. ClockIs(k, w, FALSE)
  BY <1>1, <1>3, <1>4 DEF ClockIs
<1>7. CountsAre(k, w, j)
  BY <1>3, <1>4 DEF CountsAre
<1>8. HasDone(k, w, j, 0) /\ 0 \in 0 .. Len(j.blocks)
  <2>1. 0 \in 0 .. b /\ 2 * 0 = 0 /\ 0 + 1 = 1 /\ 1 \in 1 .. n /\ 1 - 1 = 0
    BY <1>2
  <2>2. Times(j)[0] = j.runs[1] /\ j.runs[1] \in Nat
    <3>1. Times(j)[2 * 0] = j.runs[0 + 1] /\ j.runs[0 + 1] \in Nat
      BY <1>1, <1>2, <2>1, TimesAt
    <3> QED BY <3>1
  <2>3. Sums(j.runs)[1] = j.runs[1]
    <3>1. Sums(j.runs)[0] = 0 /\ Sums(j.runs)[1] = Sums(j.runs)[1 - 1] + j.runs[1]
      BY <1>1, <1>2, <2>1, SumSteps
    <3>2. Sums(j.runs)[1 - 1] = 0
      BY <3>1
    <3> QED BY <2>2, <3>1, <3>2
  <2>4. k.runTime + k.times[2 * 0] = Sums(j.runs)[0 + 1]
    <3>1. k.times[2 * 0] = j.runs[1] /\ Sums(j.runs)[0 + 1] = j.runs[1]
      BY <1>3, <2>2, <2>3
    <3> QED BY <1>3, <2>2, <3>1
  <2> QED BY <1>2, <1>3, <2>1, <2>4 DEF HasDone
<1> QED BY <1>5, <1>6, <1>7, <1>8 DEF AccountOf, k, w

\* The accounts at the start of every simulation.
LEMMA InitAccounts == Init => Accounts
<1> SUFFICES ASSUME Init PROVE Accounts
  OBVIOUS
<1>1. /\ job \in [Tasks -> Jobs] /\ phase = "start" /\ at = 1 /\ time = 0
      /\ list = [t \in Tasks |-> t] /\ finished = <<>>
      /\ task = [t \in Tasks |-> NewTask(job[t])] /\ drawn = [t \in Tasks |-> <<>>]
  BY DEF Init
<1>2. \A u : ~ Walked(u) /\ ~ Between(u)
  <2>1. \A i \in 1 .. 1 - 1 : FALSE
    OBVIOUS
  <2> QED BY <1>1, <2>1 DEF Walked, Between
<1>3. Len(list) = NTasks /\ Len(finished) = 0
  <2>1. SimTypes /\ NTasks \in Nat /\ DOMAIN list = 1 .. NTasks
    BY <1>1, InitInvariant, TasksAssumption DEF SimInv, Tasks
  <2> QED BY <1>1, <2>1, LenProperties DEF SimTypes
<1>4. Places
  <2>1. \A i \in 1 .. 0 : FALSE
    OBVIOUS
  <2>2. \A u : ~ InFinished(u)
    BY <1>3, <2>1 DEF InFinished
  <2>3. \A u \in Tasks : InList(u)
    <3>1. ASSUME NEW u \in Tasks PROVE u \in 1 .. Len(list) /\ list[u] = u
      BY <1>1, <1>3 DEF Tasks
    <3> QED BY <3>1 DEF InList
  <2> QED BY <1>3, <2>1, <2>2, <2>3 DEF Places
<1>5. \A u \in Tasks : drawn[u] = <<>> /\ task[u] = NewTask(job[u]) /\ job[u] \in Jobs
  BY <1>1
<1>6. Lengths
  BY <1>1, <1>5 DEF Lengths
<1>7. OneRuns
  <2>1. \A u \in Tasks : \A i \in 1 .. Len(drawn[u]) : FALSE
    BY <1>5
  <2> QED BY <1>2, <2>1 DEF OneRuns
<1>8. Arriving
  BY <1>1, <1>2 DEF Arriving
<1>9. \A u \in Tasks : Account(u)
  BY <1>2, <1>5, NewAccount DEF Account
<1> QED BY <1>4, <1>6, <1>7, <1>8, <1>9 DEF Accounts

\* Whatever the tasks and the algorithm, every handler leaves each task's counters
\* what its waveform and the clock say, and its place in times behind the bursts
\* that it has had.
THEOREM AccountsInvariance == Init /\ [][Next]_vars => []Accounts
<1>1. Init => Accounts
  BY InitAccounts
<1>2. SimInv /\ Accounts /\ [Next]_vars => Accounts'
  BY StartTickAccounts, SchedulerTickAccounts, SysTickAccounts, AllTickedAccounts,
     EndTickAccounts, TickIsOverAccounts, RestAccounts DEF Next
<1> QED BY <1>1, <1>2, SimulatorInvariance, PTL

\* What the accounts say between two ticks, when each task has a block before
\* every run but the first.
LEMMA AccountsSay ==
  ASSUME SimInv, Accounts,
         \A j \in Jobs : /\ Len(j.blocks) + 1 = Len(j.runs)
                         /\ \A i \in 1 .. Len(j.blocks) : j.blocks[i] > 0
  PROVE  AccountsAddUp
<1> SUFFICES ASSUME phase = "start", at = 1 PROVE AccountsAddUp
  BY DEF AccountsAddUp
<1>1. SimTypes /\ Walks /\ Lengths /\ OneRuns /\ \A u \in Tasks : Account(u)
  BY DEF SimInv, Accounts
<1>2. \A u : ~ Walked(u) /\ ~ Between(u)
  <2>1. \A i \in 1 .. 1 - 1 : FALSE
    OBVIOUS
  <2> QED BY <2>1 DEF Walked, Between
<1>3. \A u \in Tasks : /\ AccountOf(task[u], drawn[u], job[u], FALSE)
                       /\ TaskOf(task[u], drawn[u], job[u]) /\ Len(drawn[u]) = time
  BY <1>1, <1>2, EachTaskOf DEF Account, Lengths
<1>4. \A u \in Tasks : /\ Len(drawn[u]) = time
                       /\ task[u].runTime = Drawn(u, "RUNNING")
                       /\ task[u].blockTime = Drawn(u, "BLOCKED")
  BY <1>3 DEF AccountOf, CountsAre, Drawn
<1>5. \A i \in 1 .. time, t, u \in Tasks :
        drawn[t][i] = "RUNNING" /\ drawn[u][i] = "RUNNING" => t = u
  <2>1. \A i \in 1 .. time : i <= time
    BY <1>1, ListTypes
  <2> QED BY <1>1, <1>3, <2>1 DEF OneRuns
<1>6. ASSUME NEW t \in Range(finished)
      PROVE  /\ task[t].runTime = Sum(job[t].runs) /\ task[t].blockTime = Sum(job[t].blocks)
             /\ task[t].bursts = Len(job[t].runs)
             /\ task[t].finish = job[t].arrive + task[t].runTime + task[t].blockTime
                                   + Drawn(t, "READY")
  <2>1. t \in Tasks /\ task[t].state = "FINISHED"
    <3>1. PICK i \in 1 .. Len(finished) : finished[i] = t
      BY <1>1, Injective DEF SimTypes
    <3> QED BY <1>1, <3>1, ListTypes DEF Walks
  <2> DEFINE j == job[t]
             k == task[t]
  <2>2. j \in Jobs
    BY <1>1, <2>1 DEF SimTypes
  <2> HIDE DEF j
  <2>3. /\ j.runs \in Seq(Nat) /\ j.blocks \in Seq(Nat) /\ Len(j.blocks) < Len(j.runs)
        /\ Len(j.blocks) + 1 = Len(j.runs) /\ \A i \in 1 .. Len(j.blocks) : j.blocks[i] > 0
    BY <2>2, TasksAssumption
  <2>4. PICK m \in 0 .. Len(j.blocks) : HasDone(k, drawn[t], j, m)
    BY <1>3, <2>1 DEF AccountOf, j
  <2>5. /\ k.runTime = Sums(j.runs)[m + 1] /\ k.blockTime = Sums(j.blocks)[m]
        /\ k.bursts = m + 1 /\ Times(j)[2 * m + 1] = 0
    BY <2>1, <2>4 DEF HasDone
  <2>6. m = Len(j.blocks)
    <3>1. PICK b \in Nat : b = Len(j.blocks)
      BY <2>3, LenProperties
    <3>2. m < b => m + 1 \in 1 .. b
      BY <3>1
    <3>3. m < b => j.blocks[m + 1] > 0 /\ j.blocks[m + 1] = 0
      BY <2>3, <2>5, <3>1, <3>2, TimesAt
    <3>4. ~ (m < b)
      BY <3>3
    <3>5. m <= b /\ m \in Nat
      BY <3>1
    <3> QED BY <3>1, <3>4, <3>5
  <2>7. CountsAre(k, drawn[t], j)
    BY <1>3, <2>1 DEF AccountOf, j
  <2>8. k.finish = j.arrive + k.runTime + k.blockTime + Drawn(t, "READY")
    BY <2>1, <2>7 DEF CountsAre, Drawn
  <2>9. /\ k.runTime = Sum(j.runs) /\ k.blockTime = Sum(j.blocks) /\ k.bursts = Len(j.runs)
    BY <2>3, <2>5, <2>6 DEF Sum
  <2> QED BY <2>8, <2>9 DEF j
<1> QED BY <1>4, <1>5, <1>6 DEF AccountsAddUp

\* If a task list has a block of at least one tick between any two runs of a task,
\* the waveforms and the counters of the log tell the same between any two ticks,
\* at most one task runs in each, and a finished task has had the bursts and the
\* blocks of its job and nothing else.  A block of no tick, or one that is missing,
\* would be taken for the 0 behind the last run.
THEOREM AccountsAlwaysAddUp ==
  (\A j \in Jobs : /\ Len(j.blocks) + 1 = Len(j.runs)
                   /\ \A i \in 1 .. Len(j.blocks) : j.blocks[i] > 0)
    => (Init /\ [][Next]_vars => []AccountsAddUp)
<1> SUFFICES ASSUME \A j \in Jobs : /\ Len(j.blocks) + 1 = Len(j.runs)
                                    /\ \A i \in 1 .. Len(j.blocks) : j.blocks[i] > 0
             PROVE  Init /\ [][Next]_vars => []AccountsAddUp
  OBVIOUS
<1>1. SimInv /\ Accounts => AccountsAddUp
  BY AccountsSay
<1> QED BY <1>1, SimulatorInvariance, AccountsInvariance, PTL
=============================================================================
