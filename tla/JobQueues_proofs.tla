-------------------------- MODULE JobQueues_proofs --------------------------
(***************************************************************************)
(* Proofs about JobQueues, for every set of groups and every bound on the  *)
(* number of jobs.                                                         *)
(***************************************************************************)
EXTENDS JobQueues, PlaceTheorems

(***************************************************************************)
(* What cutting behind a job makes of a list.                              *)
(***************************************************************************)

\* Cutting a list of jobs leaves a list of jobs.
LEMMA CutType == 
  ASSUME NEW s \in Seq(Jobs), NEW j
  PROVE  CutBehind(s, j) \in Seq(Jobs)
<1>1. CASE \E i \in 1 .. Len(s) : s[i] = j
  <2> DEFINE c == CHOOSE i \in 1 .. Len(s) : s[i] = j
  <2>1. c \in 1 .. Len(s)
    BY <1>1
  <2>2. \A i \in 1 .. c : s[i] \in Jobs
    BY <2>1
  <2> HIDE DEF c
  <2>3. c \in Int
    BY <2>1
  <2>4. SubSeq(s, 1, c) \in Seq(Jobs)
    BY <2>2, <2>3, SubSeqProperties
  <2> QED BY <1>1, <2>4 DEF CutBehind, c
<1>2. CASE ~ \E i \in 1 .. Len(s) : s[i] = j
  BY <1>2 DEF CutBehind
<1> QED BY <1>1, <1>2

\* A list that j is not in stays as it is.
LEMMA CutElsewhere ==
  ASSUME NEW s \in Seq(Jobs), NEW j, \A i \in 1 .. Len(s) : s[i] # j
  PROVE  CutBehind(s, j) = s
BY DEF CutBehind

\* Behind the only occurrence of j, at i, a list ends with i jobs.
LEMMA CutAt ==
  ASSUME NEW s \in Seq(Jobs), NEW i \in 1 .. Len(s),
         \A k \in 1 .. Len(s) : s[k] = s[i] => k = i
  PROVE  CutBehind(s, s[i]) = SubSeq(s, 1, i)
<1> DEFINE c == CHOOSE k \in 1 .. Len(s) : s[k] = s[i]
<1>1. c \in 1 .. Len(s) /\ s[c] = s[i]
  OBVIOUS
<1>2. c = i
  BY <1>1
<1> QED BY <1>2 DEF CutBehind

-----------------------------------------------------------------------------
\* Every variable keeps its type, in particular no semaphore goes below zero.
THEOREM TypeCorrect == Spec => []TypeOK
<1>1. Init => TypeOK
  BY MaxJobsAssumption DEF Init, TypeOK, Jobs, NoJob
<1>2. TypeOK /\ [Next]_vars => TypeOK'
  <2> SUFFICES ASSUME TypeOK, [Next]_vars PROVE TypeOK'
    OBVIOUS
  <2> USE MaxJobsAssumption
  <2>1. CASE Discard
    BY <2>1 DEF TypeOK, Discard, NewJob, Jobs
  <2>2. ASSUME NEW g \in Groups, Enqueue(g) PROVE TypeOK'
    <3>1. job_number \in Jobs /\ job_number' \in 0 .. MaxJobs
      BY <2>2 DEF TypeOK, Enqueue, NewJob, Jobs
    <3>2. <<job_number>> \o queue[g] \in Seq(Jobs)
      BY <3>1 DEF TypeOK
    <3>3. Append(sent[g], job_number) \in Seq(Jobs)
      BY <3>1 DEF TypeOK
    <3> QED BY <2>2, <3>1, <3>2, <3>3 DEF TypeOK, Enqueue, NewJob
  <2>3. ASSUME NEW g \in Groups, Consume(g) PROVE TypeOK'
    <3>1. queue[g] \in Seq(Jobs) /\ Len(queue[g]) > 0
      BY <2>3 DEF TypeOK, Consume
    <3>2. queue[g][Len(queue[g])] \in Jobs
      BY <3>1
    <3>3. prev' \in Jobs \cup {NoJob}
      BY <2>3, <3>1 DEF TypeOK, Consume, PrevAfterWalk
    <3>4. queue' \in [Groups -> Seq(Jobs)]
      BY <2>3, CutType DEF TypeOK, Consume
    <3>5. num_jobs' \in [Groups -> Nat]
      BY <2>3 DEF TypeOK, Consume
    <3>6. printed' \in [Groups -> Seq(Jobs)]
      BY <2>3, <3>2 DEF TypeOK, Consume
    <3> QED BY <2>3, <3>3, <3>4, <3>5, <3>6 DEF TypeOK, Consume
  <2>4. CASE UNCHANGED vars
    BY <2>4 DEF TypeOK, vars
  <2> QED BY <2>1, <2>2, <2>3, <2>4 DEF Next
<1> QED BY <1>1, <1>2, PTL DEF Spec
-----------------------------------------------------------------------------
\* The types of what belongs to one group.
LEMMA TypesOf ==
  ASSUME TypeOK, NEW g \in Groups
  PROVE  /\ queue[g] \in Seq(Jobs) /\ Len(queue[g]) \in Nat
         /\ sent[g] \in Seq(Jobs) /\ Len(sent[g]) \in Nat
         /\ printed[g] \in Seq(Jobs) /\ Len(printed[g]) \in Nat
         /\ num_jobs[g] \in Nat
BY LenProperties DEF TypeOK

-----------------------------------------------------------------------------
(***************************************************************************)
(* The inductive invariant.                                                *)
(***************************************************************************)

\* Cutting behind the only occurrence of a job, in the list of h and at i,
\* shortens that list and no other.
LEMMA CutOneList ==
  ASSUME TypeOK, Unshared, NEW h \in Groups, NEW i \in 1 .. Len(queue[h])
  PROVE  [k \in Groups |-> CutBehind(queue[k], queue[h][i])]
           = [queue EXCEPT ![h] = SubSeq(@, 1, i)]
<1>1. CutBehind(queue[h], queue[h][i]) = SubSeq(queue[h], 1, i)
  <2>1. \A k \in 1 .. Len(queue[h]) : queue[h][k] = queue[h][i] => k = i
    BY DEF Unshared
  <2>2. queue[h] \in Seq(Jobs)
    BY DEF TypeOK
  <2> QED BY <2>1, <2>2, CutAt
<1>2. ASSUME NEW k \in Groups, k # h
      PROVE  CutBehind(queue[k], queue[h][i]) = queue[k]
  <2>1. \A m \in 1 .. Len(queue[k]) : queue[k][m] # queue[h][i]
    BY <1>2 DEF Unshared
  <2>2. queue[k] \in Seq(Jobs)
    BY DEF TypeOK
  <2> QED BY <2>1, <2>2, CutElsewhere
<1>3. queue \in [Groups -> Seq(Jobs)]
  BY DEF TypeOK
<1> QED BY <1>1, <1>2, <1>3

\* The three things that can become of the lists when a job is consumed.
LEMMA ConsumeEffect ==
  ASSUME IInv, NEW g \in Groups, Consume(g)
  PROVE  \/ /\ Len(queue[g]) > 1
            /\ prev' = queue[g][Len(queue[g]) - 1]
            /\ prev' # NoJob
            /\ queue' = [queue EXCEPT ![g] = SubSeq(@, 1, Len(queue[g]) - 1)]
         \/ /\ Len(queue[g]) = 1 /\ prev # NoJob
            /\ prev' = prev /\ queue' = queue
         \/ /\ Len(queue[g]) = 1 /\ prev = NoJob
            /\ prev' = prev /\ queue' = [queue EXCEPT ![g] = <<>>]
<1>1. /\ TypeOK /\ Unshared /\ PrevIsATail
      /\ queue[g] \in Seq(Jobs) /\ Len(queue[g]) > 0
  BY DEF IInv, TypeOK, Consume
<1>2. CASE Len(queue[g]) > 1
  <2> DEFINE n == Len(queue[g]) - 1
  <2>1. n \in 1 .. Len(queue[g]) /\ prev' = queue[g][n]
    BY <1>1, <1>2 DEF Consume, PrevAfterWalk
  <2>2. prev' # NoJob
    BY <2>1, <1>1, MaxJobsAssumption DEF NoJob, Jobs
  <2>3. [k \in Groups |-> CutBehind(queue[k], queue[g][n])]
          = [queue EXCEPT ![g] = SubSeq(@, 1, n)]
    BY <2>1, <1>1, CutOneList
  <2>4. queue' = [k \in Groups |-> CutBehind(queue[k], queue[g][n])]
    BY <2>1, <2>2 DEF Consume
  <2> QED BY <1>2, <2>1, <2>2, <2>3, <2>4
<1>3. CASE Len(queue[g]) = 1 /\ prev # NoJob
  <2>1. prev' = prev
    BY <1>3 DEF Consume, PrevAfterWalk
  <2>2. PICK h \in Groups : Len(queue[h]) > 0 /\ prev = queue[h][Len(queue[h])]
    BY <1>1, <1>3 DEF PrevIsATail
  <2>3. queue[h] \in Seq(Jobs) /\ Len(queue[h]) \in 1 .. Len(queue[h])
    BY <1>1, <2>2 DEF TypeOK
  <2>4. [k \in Groups |-> CutBehind(queue[k], prev)]
          = [queue EXCEPT ![h] = SubSeq(@, 1, Len(queue[h]))]
    BY <1>1, <2>2, <2>3, CutOneList
  <2>5. SubSeq(queue[h], 1, Len(queue[h])) = queue[h]
    BY <2>3, SubSeqFull
  <2>6. queue' = [k \in Groups |-> CutBehind(queue[k], prev)]
    BY <2>1, <1>3 DEF Consume
  <2>7. queue' = queue
    BY <2>4, <2>5, <2>6, <1>1 DEF TypeOK
  <2> QED BY <1>3, <2>1, <2>7
<1>4. CASE Len(queue[g]) = 1 /\ prev = NoJob
  BY <1>4 DEF Consume, PrevAfterWalk
<1>5. Len(queue[g]) > 1 \/ Len(queue[g]) = 1
  <2>1. \A n \in Nat : n > 0 => n > 1 \/ n = 1
    OBVIOUS
  <2> QED BY <1>1, <2>1, LenProperties
<1> QED BY <1>2, <1>3, <1>4, <1>5

\* Queueing a job keeps the invariant: the new job is younger than any other
\* and takes its place before the tails prev can point to.
LEMMA EnqueueKeepsIInv ==
  ASSUME IInv, TypeOK', NEW g \in Groups, Enqueue(g)
  PROVE  IInv'
<1>1. TypeOK /\ job_number \in Jobs /\ job_number' = job_number + 1
  BY MaxJobsAssumption DEF IInv, TypeOK, Enqueue, NewJob, Jobs
<1>2. /\ queue[g] \in Seq(Jobs) /\ Len(queue[g]) \in Nat
      /\ sent[g] \in Seq(Jobs) /\ Len(sent[g]) \in Nat
      /\ printed[g] \in Seq(Jobs) /\ Len(printed[g]) \in Nat
      /\ num_jobs[g] \in Nat
  BY <1>1, TypesOf
<1>3. /\ Len(queue'[g]) = Len(queue[g]) + 1
      /\ queue'[g][1] = job_number
      /\ \A i \in 2 .. Len(queue[g]) + 1 : queue'[g][i] = queue[g][i - 1]
  <2>1. queue'[g] = <<job_number>> \o queue[g]
    BY <1>1 DEF Enqueue, TypeOK
  <2>2. <<job_number>> \in Seq(Jobs) /\ Len(<<job_number>>) = 1
        /\ <<job_number>>[1] = job_number
    BY <1>1
  <2>3. /\ Len(<<job_number>> \o queue[g]) = 1 + Len(queue[g])
        /\ \A i \in 1 .. 1 + Len(queue[g]) :
             (<<job_number>> \o queue[g])[i]
               = IF i <= 1 THEN <<job_number>>[i] ELSE queue[g][i - 1]
    BY <1>2, <2>2, ConcatProperties
  <2> QED BY <1>2, <2>1, <2>2, <2>3
<1>4. /\ Len(sent'[g]) = Len(sent[g]) + 1
      /\ sent'[g][Len(sent[g]) + 1] = job_number
      /\ \A i \in 1 .. Len(sent[g]) : sent'[g][i] = sent[g][i]
  <2>1. sent'[g] = Append(sent[g], job_number)
    BY <1>1 DEF Enqueue, TypeOK
  <2> QED BY <1>1, <1>2, <2>1
<1>5. num_jobs'[g] = num_jobs[g] + 1
  BY <1>1 DEF Enqueue, TypeOK
<1>6. \A h \in Groups : h # g => /\ queue'[h] = queue[h] /\ sent'[h] = sent[h]
                                /\ num_jobs'[h] = num_jobs[h]
  BY <1>1 DEF Enqueue, TypeOK
<1>7. prev' = prev /\ printed' = printed
  BY DEF Enqueue
<1>8. \A h \in Groups : Lag(h)' = Lag(h)
  <2> SUFFICES ASSUME NEW h \in Groups PROVE Lag(h)' = Lag(h)
    OBVIOUS
  <2>1. CASE h = g
    <3>1. Len(queue'[g]) - num_jobs'[g] = Len(queue[g]) - num_jobs[g]
      <4>1. Len(queue'[g]) = Len(queue[g]) + 1
        BY <1>3
      <4>2. Len(queue[g]) \in Nat /\ num_jobs[g] \in Nat
        BY <1>2
      <4> QED BY <1>5, <4>1, <4>2
    <3> QED BY <2>1, <3>1 DEF Lag
  <2>2. CASE h # g
    BY <1>6, <2>2 DEF Lag
  <2> QED BY <2>1, <2>2
<1>9. \A h \in Groups : \A i \in 1 .. Len(queue[h]) :
        queue[h][i] \in Int /\ queue[h][i] < job_number
  <2> SUFFICES ASSUME NEW h \in Groups, NEW i \in 1 .. Len(queue[h])
               PROVE  queue[h][i] \in Int /\ queue[h][i] < job_number
    OBVIOUS
  <2>1. queue[h] \in Seq(Jobs)
    BY <1>1, TypesOf
  <2>2. queue[h][i] \in Jobs
    BY <2>1
  <2> QED BY <2>2 DEF IInv, Jobs
<1>10. AtMostOnePhantom' /\ (prev' = NoJob => \A h \in Groups : Lag(h)' = 0)
  BY <1>7, <1>8 DEF IInv, AtMostOnePhantom
<1>11. PrevIsATail'
  <2> SUFFICES ASSUME prev # NoJob
               PROVE  \E h \in Groups : /\ Len(queue'[h]) > 0
                                        /\ prev = queue'[h][Len(queue'[h])]
    BY <1>7 DEF PrevIsATail
  <2>1. PICK h \in Groups : Len(queue[h]) > 0 /\ prev = queue[h][Len(queue[h])]
    BY DEF IInv, PrevIsATail
  <2>2. Len(queue'[h]) > 0 /\ prev = queue'[h][Len(queue'[h])]
    <3>1. CASE h = g
      BY <1>2, <1>3, <2>1, <3>1
    <3>2. CASE h # g
      BY <1>6, <2>1, <3>2
    <3> QED BY <3>1, <3>2
  <2> QED BY <2>2
<1> DEFINE New(h, i) == h = g /\ i = 1
           Place(h, i) == IF h = g THEN i - 1 ELSE i
<1>12. ASSUME NEW h \in Groups, NEW i \in 1 .. Len(queue'[h])
       PROVE  \/ New(h, i) /\ queue'[h][i] = job_number
              \/ /\ ~ New(h, i)
                 /\ Place(h, i) \in 1 .. Len(queue[h])
                 /\ queue'[h][i] = queue[h][Place(h, i)]
                 /\ queue'[h][i] \in Int
                 /\ queue'[h][i] < job_number
  <2>1. CASE h = g /\ i = 1
    BY <1>3, <2>1
  <2>2. CASE h = g /\ i # 1
    <3>1. i - 1 \in 1 .. Len(queue[g]) /\ queue'[g][i] = queue[g][i - 1]
      BY <1>2, <1>3, <2>2
    <3> QED BY <1>9, <2>2, <3>1
  <2>3. CASE h # g
    BY <1>6, <1>9, <2>3
  <2> QED BY <2>1, <2>2, <2>3
<1>13. job_number \in Int
  BY <1>1 DEF Jobs
<1>14. Unshared'
  <2> SUFFICES ASSUME NEW h \in Groups, NEW m \in Groups,
                      NEW i \in 1 .. Len(queue'[h]), NEW k \in 1 .. Len(queue'[m]),
                      queue'[h][i] = queue'[m][k]
               PROVE  h = m /\ i = k
    BY DEF Unshared
  <2>1. CASE New(h, i)
    BY <1>12, <1>13, <2>1
  <2>2. CASE ~ New(h, i)
    <3>1. /\ ~ New(m, k)
          /\ Place(h, i) \in 1 .. Len(queue[h]) /\ Place(m, k) \in 1 .. Len(queue[m])
          /\ queue[h][Place(h, i)] = queue[m][Place(m, k)]
      BY <1>12, <1>13, <2>2
    <3>2. h = m /\ Place(h, i) = Place(m, k)
      BY <3>1 DEF IInv, Unshared
    <3> QED BY <3>2
  <2> QED BY <2>1, <2>2
<1>15. \A h \in Groups : \A i \in 1 .. Len(queue'[h]) : queue'[h][i] < job_number'
  BY <1>1, <1>12, <1>13
<1>16. ASSUME NEW h \in Groups
       PROVE  /\ ListOfSent(h)'
              /\ Len(printed'[h]) = Len(sent'[h]) - num_jobs'[h]
              /\ Lag(h)' = 0 => PrintedUpTo(h, Len(printed[h]))'
              /\ Lag(h)' = 1 => \E k \in 1 .. Len(printed'[h]) : PrintedUpTo(h, k)'
  <2>1. /\ ListOfSent(h)
        /\ Len(printed[h]) = Len(sent[h]) - num_jobs[h]
        /\ Lag(h) = 0 => PrintedUpTo(h, Len(printed[h]))
        /\ Lag(h) = 1 => \E k \in 1 .. Len(printed[h]) : PrintedUpTo(h, k)
    BY DEF IInv
  <2>2. CASE h # g
    <3>1. /\ queue'[h] = queue[h] /\ sent'[h] = sent[h] /\ num_jobs'[h] = num_jobs[h]
          /\ printed'[h] = printed[h] /\ Lag(h)' = Lag(h)
      BY <1>6, <1>7, <1>8, <2>2
    <3>2. ListOfSent(h)'
      BY <2>1, <3>1 DEF ListOfSent
    <3>3. \A k : PrintedUpTo(h, k) => PrintedUpTo(h, k)'
      BY <3>1 DEF PrintedUpTo
    <3> QED BY <1>7, <2>1, <3>1, <3>2, <3>3
  <2>3. CASE h = g
    <3>1. ListOfSent(g)'
      <4> SUFFICES ASSUME NEW i \in 1 .. Len(queue'[g])
                   PROVE  queue'[g][i] = sent'[g][Len(sent'[g]) + 1 - i]
        <5>1. Len(queue'[g]) =< Len(sent'[g])
          BY <1>2, <1>3, <1>4, <2>1, <2>3 DEF ListOfSent
        <5> QED BY <5>1 DEF ListOfSent
      <4>1. CASE i = 1
        BY <1>2, <1>3, <1>4, <4>1
      <4>2. CASE i # 1
        <5>1. i - 1 \in 1 .. Len(queue[g]) /\ queue'[g][i] = queue[g][i - 1]
          BY <1>2, <1>3, <4>2
        <5>2. /\ queue[g][i - 1] = sent[g][Len(sent[g]) + 1 - (i - 1)]
              /\ Len(sent[g]) + 1 - (i - 1) \in 1 .. Len(sent[g])
          <6>1. \A k \in 1 .. Len(queue[g]) :
                  queue[g][k] = sent[g][Len(sent[g]) + 1 - k]
            BY <2>1, <2>3 DEF ListOfSent
          <6>2. Len(queue[g]) =< Len(sent[g]) /\ Len(sent[g]) \in Nat
            BY <1>2, <1>4, <2>1, <2>3 DEF ListOfSent
          <6>3. Len(sent[g]) + 1 - (i - 1) \in 1 .. Len(sent[g])
            BY <1>2, <5>1, <6>2
          <6> QED BY <5>1, <6>1, <6>3
        <5>3. Len(sent'[g]) + 1 - i = Len(sent[g]) + 1 - (i - 1)
          <6>1. Len(sent'[g]) = Len(sent[g]) + 1 /\ Len(sent[g]) \in Nat /\ i \in Int
            BY <1>2, <1>4, LenProperties
          <6> QED BY <6>1
        <5> QED BY <1>4, <5>1, <5>2, <5>3
      <4> QED BY <4>1, <4>2
    <3>2. Len(printed'[g]) = Len(sent'[g]) - num_jobs'[g]
      BY <1>2, <1>4, <1>5, <1>7, <2>1, <2>3
    <3>3. ASSUME NEW k \in Nat, k =< Len(printed[g]), PrintedUpTo(g, k),
                 k = 0 => Len(printed[g]) = 0
          PROVE  PrintedUpTo(g, k)'
      <4> SUFFICES ASSUME NEW i \in 1 .. Len(printed[g])
                   PROVE  printed[g][i] = sent'[g][IF i =< k THEN i ELSE i - 1]
        BY <1>7 DEF PrintedUpTo
      <4>1. (IF i =< k THEN i ELSE i - 1) \in 1 .. Len(sent[g])
        BY <1>2, <2>1, <2>3, <3>3
      <4> QED BY <1>4, <3>3, <4>1 DEF PrintedUpTo
    <3>4. Lag(g)' = 0 => PrintedUpTo(g, Len(printed[g]))'
      <4>1. PICK n \in Nat : n = Len(printed[g])
        BY <1>2
      <4>2. Lag(g)' = 0 => PrintedUpTo(g, n)
        BY <1>8, <2>1, <2>3, <4>1
      <4>3. PrintedUpTo(g, n) => PrintedUpTo(g, n)'
        BY <3>3, <4>1
      <4>4. n = Len(printed[g])'
        BY <1>7, <4>1
      <4> QED BY <4>2, <4>3, <4>4 DEF PrintedUpTo
    <3>5. Lag(g)' = 1 => \E k \in 1 .. Len(printed[g]) : PrintedUpTo(g, k)'
      BY <1>2, <1>8, <2>1, <2>3, <3>3
    <3> QED BY <1>7, <2>3, <3>1, <3>2, <3>4, <3>5
  <2> QED BY <2>2, <2>3
<1> QED BY <1>10, <1>11, <1>14, <1>15, <1>16 DEF IInv

\* Consuming a job keeps the invariant.  Only when the walk passes a single
\* job and prev is stale does the list keep its length and the lag appear.
LEMMA ConsumeKeepsIInv ==
  ASSUME IInv, TypeOK', NEW g \in Groups, Consume(g)
  PROVE  IInv'
<1>1. TypeOK
  BY DEF IInv
<1>2. /\ queue[g] \in Seq(Jobs) /\ Len(queue[g]) \in Nat
      /\ sent[g] \in Seq(Jobs) /\ Len(sent[g]) \in Nat
      /\ printed[g] \in Seq(Jobs) /\ Len(printed[g]) \in Nat
      /\ num_jobs[g] \in Nat /\ num_jobs[g] > 0
  BY <1>1, TypesOf DEF Consume
<1>3. /\ num_jobs'[g] = num_jobs[g] - 1
      /\ sent' = sent /\ job_number' = job_number
  BY <1>1 DEF Consume, TypeOK
<1>4. \A h \in Groups : h # g => /\ queue'[h] = queue[h]
                                /\ num_jobs'[h] = num_jobs[h]
                                /\ printed'[h] = printed[h]
  <2>1. \A h \in Groups : h # g => queue'[h] = queue[h]
    BY <1>1, ConsumeEffect DEF TypeOK
  <2> QED BY <1>1, <2>1 DEF Consume, TypeOK
<1>5. /\ ListOfSent(g)
      /\ Len(printed[g]) = Len(sent[g]) - num_jobs[g]
      /\ Lag(g) = 0 => PrintedUpTo(g, Len(printed[g]))
      /\ Lag(g) = 1 => \E k \in 1 .. Len(printed[g]) : PrintedUpTo(g, k)
  BY DEF IInv
<1>6. PICK n \in Nat : n = Len(queue[g]) /\ n > 0
  BY <1>2 DEF Consume
<1>7. PICK c \in Nat : c = num_jobs[g] /\ c > 0
  BY <1>2
<1>8. PICK m \in Nat : m = Len(sent[g])
  BY <1>2
<1>9. n - c \in {0, 1} /\ Lag(g) = n - c /\ Len(printed[g]) = m - c /\ n =< m
  BY <1>5, <1>6, <1>7, <1>8 DEF IInv, AtMostOnePhantom, Lag, ListOfSent
\* The job printed is the one after those counted as printed.
<1>10. /\ printed'[g] = Append(printed[g], sent[g][m + 1 - n])
       /\ Len(printed'[g]) = m - c + 1
       /\ printed'[g][m - c + 1] = sent[g][m + 1 - n]
       /\ \A i \in 1 .. m - c : printed'[g][i] = printed[g][i]
  <2>1. printed'[g] = Append(printed[g], queue[g][n])
    BY <1>1, <1>6 DEF Consume, TypeOK
  <2>2. n \in 1 .. Len(queue[g])
    BY <1>6
  <2>3. queue[g][n] = sent[g][m + 1 - n]
    BY <1>5, <1>8, <2>2 DEF ListOfSent
  <2>4. queue[g][n] \in Jobs
    BY <1>2, <2>2
  <2>5. /\ Len(Append(printed[g], queue[g][n])) = m - c + 1
        /\ Append(printed[g], queue[g][n])[m - c + 1] = queue[g][n]
        /\ \A i \in 1 .. m - c : Append(printed[g], queue[g][n])[i] = printed[g][i]
    <3>1. /\ Len(Append(printed[g], queue[g][n])) = Len(printed[g]) + 1
          /\ Append(printed[g], queue[g][n])[Len(printed[g]) + 1] = queue[g][n]
          /\ \A i \in 1 .. Len(printed[g]) :
               Append(printed[g], queue[g][n])[i] = printed[g][i]
      BY <1>2, <2>4, AppendProperties
    <3> QED BY <1>9, <3>1
  <2> QED BY <2>1, <2>3, <2>5
\* The list of g afterwards: shorter by one, or kept with a stale prev.
<1>11. PICK r \in Nat :
         /\ Len(queue'[g]) = r
         /\ \A i \in 1 .. r : queue'[g][i] = queue[g][i]
         /\ \/ r = n - 1
            \/ r = n /\ n = 1 /\ c = 1
         /\ prev' = NoJob => prev = NoJob /\ r = n - 1
         /\ \/ r > 0 /\ prev' = queue[g][r]
            \/ r = n /\ prev' = prev
            \/ r = 0 /\ prev' = NoJob
  <2>1. CASE /\ Len(queue[g]) > 1
             /\ prev' = queue[g][Len(queue[g]) - 1]
             /\ prev' # NoJob
             /\ queue' = [queue EXCEPT ![g] = SubSeq(@, 1, Len(queue[g]) - 1)]
    <3>1. n - 1 \in Nat /\ n - 1 > 0
      BY <1>6, <2>1
    <3>2. queue'[g] = SubSeq(queue[g], 1, n - 1)
      BY <1>1, <1>6, <2>1 DEF TypeOK
    <3>3. \A i \in 1 .. n - 1 : queue[g][i] \in Jobs
      BY <1>2, <1>6
    <3>4. /\ Len(queue'[g]) = n - 1
          /\ \A i \in 1 .. n - 1 : queue'[g][i] = queue[g][i]
      BY <3>1, <3>2, <3>3, SubSeqProperties
    <3> QED BY <1>6, <2>1, <3>1, <3>4
  <2>2. CASE /\ Len(queue[g]) = 1 /\ prev # NoJob
             /\ prev' = prev /\ queue' = queue
    <3>1. n = 1
      BY <1>6, <2>2
    <3>2. c = 1
      BY <1>7, <1>9, <3>1
    <3> QED BY <1>6, <2>2, <3>1, <3>2
  <2>3. CASE /\ Len(queue[g]) = 1 /\ prev = NoJob
             /\ prev' = prev /\ queue' = [queue EXCEPT ![g] = <<>>]
    <3>1. n = 1
      BY <1>6, <2>3
    <3>2. queue'[g] = <<>>
      BY <1>1, <2>3 DEF TypeOK
    <3> QED BY <2>3, <3>1, <3>2
  <2> QED BY <2>1, <2>2, <2>3, ConsumeEffect
<1>12. r =< n /\ r - (c - 1) \in {0, 1} /\ Lag(g)' = r - (c - 1)
  BY <1>3, <1>7, <1>9, <1>11, SMTT(30) DEF Lag
<1>13. \A h \in Groups : h # g => Lag(h)' = Lag(h)
  BY <1>4 DEF Lag
<1>14. AtMostOnePhantom'
  BY <1>12, <1>13 DEF IInv, AtMostOnePhantom
<1>15. prev' = NoJob => \A h \in Groups : Lag(h)' = 0
  <2> SUFFICES ASSUME prev' = NoJob PROVE \A h \in Groups : Lag(h)' = 0
    OBVIOUS
  <2>1. prev = NoJob /\ r = n - 1
    BY <1>11
  <2>2. n - c = 0
    BY <1>9, <2>1 DEF IInv
  <2>3. Lag(g)' = 0
    BY <1>12, <2>1, <2>2
  <2> QED BY <1>13, <2>1, <2>3 DEF IInv
<1>16. PrevIsATail'
  <2> SUFFICES ASSUME prev' # NoJob
               PROVE  \E h \in Groups : /\ Len(queue'[h]) > 0
                                        /\ prev' = queue'[h][Len(queue'[h])]
    BY DEF PrevIsATail
  <2>1. CASE r > 0 /\ prev' = queue[g][r]
    BY <1>11, <2>1
  <2>2. CASE r = n /\ prev' = prev
    <3>1. PICK h \in Groups : Len(queue[h]) > 0 /\ prev = queue[h][Len(queue[h])]
      BY <2>2 DEF IInv, PrevIsATail
    <3>2. CASE h = g
      <4>1. Len(queue'[g]) = n /\ queue'[g][n] = queue[g][n]
        BY <1>6, <1>11, <2>2
      <4> QED BY <1>6, <2>2, <3>1, <3>2, <4>1
    <3>3. CASE h # g
      BY <1>4, <2>2, <3>1, <3>3
    <3> QED BY <3>2, <3>3
  <2> QED BY <1>11, <2>1, <2>2
\* Every place of the new lists is a place of the old ones.
<1>17. ASSUME NEW h \in Groups, NEW i \in 1 .. Len(queue'[h])
       PROVE  i \in 1 .. Len(queue[h]) /\ queue'[h][i] = queue[h][i]
  <2>1. CASE h = g
    <3>1. i \in 1 .. r
      BY <1>11, <2>1
    <3>2. i \in 1 .. n
      BY <1>12, <3>1
    <3> QED BY <1>6, <1>11, <2>1, <3>1, <3>2
  <2>2. CASE h # g
    BY <1>4, <2>2
  <2> QED BY <2>1, <2>2
<1>18. Unshared'
  <2> SUFFICES ASSUME NEW h \in Groups, NEW k \in Groups,
                      NEW i \in 1 .. Len(queue'[h]), NEW j \in 1 .. Len(queue'[k]),
                      queue'[h][i] = queue'[k][j]
               PROVE  h = k /\ i = j
    BY DEF Unshared
  <2>1. /\ i \in 1 .. Len(queue[h]) /\ j \in 1 .. Len(queue[k])
        /\ queue[h][i] = queue[k][j]
    BY <1>17
  <2> QED BY <2>1 DEF IInv, Unshared
<1>19. \A h \in Groups : \A i \in 1 .. Len(queue'[h]) : queue'[h][i] < job_number'
  <2> SUFFICES ASSUME NEW h \in Groups, NEW i \in 1 .. Len(queue'[h])
               PROVE  queue'[h][i] < job_number'
    OBVIOUS
  <2>1. i \in 1 .. Len(queue[h]) /\ queue'[h][i] = queue[h][i]
    BY <1>17
  <2> QED BY <1>3, <2>1 DEF IInv
<1>20. ListOfSent(g)'
  <2> SUFFICES ASSUME NEW i \in 1 .. Len(queue'[g])
               PROVE  queue'[g][i] = sent[g][Len(sent[g]) + 1 - i]
    <3>1. Len(queue'[g]) =< Len(sent[g])
      BY <1>8, <1>9, <1>11, <1>12
    <3> QED BY <1>3, <3>1 DEF ListOfSent
  <2>1. i \in 1 .. Len(queue[g]) /\ queue'[g][i] = queue[g][i]
    BY <1>17
  <2> QED BY <1>5, <2>1 DEF ListOfSent
<1>21. Len(printed'[g]) = Len(sent'[g]) - num_jobs'[g]
  <2>1. Len(printed'[g]) = m - c + 1 /\ c \in Nat /\ m \in Nat
    BY <1>7, <1>8, <1>10
  <2>2. Len(sent'[g]) = m
    BY <1>3, <1>8
  <2>3. num_jobs'[g] = c - 1
    BY <1>3, <1>7
  <2> QED BY <2>1, <2>2, <2>3
\* One more job of sent is printed, or the last printed one is repeated.
<1>22. \E k \in 1 .. m - c + 1 :
          /\ \A i \in 1 .. m - c + 1 :
               printed'[g][i] = sent'[g][IF i =< k THEN i ELSE i - 1]
          /\ Lag(g)' = 0 => k = m - c + 1
  <2>1. CASE n = c
    <3>1. \A i \in 1 .. m - c : printed[g][i] = sent[g][i]
      BY <1>5, <1>9, <2>1 DEF PrintedUpTo
    <3>2. m - c + 1 = m + 1 - n
      BY <2>1
    <3>3. \A i \in 1 .. m - c + 1 : printed'[g][i] = sent'[g][i]
      BY <1>3, <1>10, <3>1, <3>2
    <3>4. PICK k \in Nat : k = m - c + 1 /\ k >= 1
      BY <1>9
    <3>5. \A i \in 1 .. m - c + 1 :
            printed'[g][i] = sent'[g][IF i =< k THEN i ELSE i - 1]
      BY <3>3, <3>4
    <3>6. k \in 1 .. m - c + 1
      BY <3>4
    <3>7. Lag(g)' = 0 => k = m - c + 1
      BY <3>4
    <3> QED BY <3>5, <3>6, <3>7
  <2>2. CASE n = c + 1
    <3>1. Lag(g) = 1
      BY <1>9, <2>2
    <3>2. PICK k \in 1 .. Len(printed[g]) : PrintedUpTo(g, k)
      BY <1>5, <3>1
    <3>3. k \in 1 .. m - c
      BY <1>9, <3>2
    <3>4. \A i \in 1 .. m - c : printed[g][i] = sent[g][IF i =< k THEN i ELSE i - 1]
      BY <1>9, <3>2 DEF PrintedUpTo
    <3>5. m + 1 - n = m - c
      BY <2>2
    <3>6. \A i \in 1 .. m - c + 1 :
            printed'[g][i] = sent'[g][IF i =< k THEN i ELSE i - 1]
      <4> SUFFICES ASSUME NEW i \in 1 .. m - c + 1
                   PROVE  printed'[g][i] = sent[g][IF i =< k THEN i ELSE i - 1]
        BY <1>3
      <4>1. CASE i = m - c + 1
        <5>1. ~ (i =< k)
          BY <1>7, <1>8, <3>3, <4>1
        <5>2. i - 1 = m + 1 - n
          BY <1>7, <1>8, <3>5, <4>1
        <5>3. printed'[g][i] = sent[g][m + 1 - n]
          BY <1>10, <4>1
        <5> QED BY <5>1, <5>2, <5>3
      <4>2. CASE i # m - c + 1
        <5>1. i \in 1 .. m - c
          BY <1>7, <1>8, <4>2
        <5> QED BY <1>10, <3>4, <5>1
      <4> QED BY <4>1, <4>2
    <3>7. Lag(g)' # 0
      BY <1>11, <1>12, <2>2
    <3>8. k \in 1 .. m - c + 1
      BY <1>7, <1>8, <3>3
    <3> QED BY <3>6, <3>7, <3>8, Zenon
  <2> QED BY <1>9, <2>1, <2>2
<1>23. ASSUME NEW h \in Groups
       PROVE  /\ ListOfSent(h)'
              /\ Len(printed'[h]) = Len(sent'[h]) - num_jobs'[h]
              /\ Lag(h)' = 0 => PrintedUpTo(h, Len(printed[h]))'
              /\ Lag(h)' = 1 => \E k \in 1 .. Len(printed'[h]) : PrintedUpTo(h, k)'
  <2>1. CASE h = g
    <3>1. PICK k \in 1 .. m - c + 1 :
            /\ \A i \in 1 .. m - c + 1 :
                 printed'[g][i] = sent'[g][IF i =< k THEN i ELSE i - 1]
            /\ Lag(g)' = 0 => k = m - c + 1
      BY <1>22
    <3>2. Lag(g)' = 0 => PrintedUpTo(g, Len(printed[g]))'
      <4>1. Lag(g)' = 0 => k = m - c + 1
        BY <3>1
      <4>2. Len(printed'[g]) = m - c + 1
        BY <1>10
      <4> QED BY <3>1, <4>1, <4>2 DEF PrintedUpTo
    <3>3. \E i \in 1 .. Len(printed'[g]) : PrintedUpTo(g, i)'
      <4>1. k \in 1 .. Len(printed'[g])
        BY <1>10
      <4>2. Len(printed'[g]) = m - c + 1
        BY <1>10
      <4>3. PrintedUpTo(g, k)'
        BY <3>1, <4>2 DEF PrintedUpTo
      <4> QED BY <4>1, <4>3
    <3> QED BY <1>20, <1>21, <2>1, <3>2, <3>3
  <2>2. CASE h # g
    <3>1. /\ queue'[h] = queue[h] /\ sent'[h] = sent[h] /\ num_jobs'[h] = num_jobs[h]
          /\ printed'[h] = printed[h] /\ Lag(h)' = Lag(h)
      BY <1>3, <1>4, <1>13, <2>2
    <3>2. ListOfSent(h) => ListOfSent(h)'
      BY <3>1 DEF ListOfSent
    <3>3. \A k : PrintedUpTo(h, k) => PrintedUpTo(h, k)'
      BY <3>1 DEF PrintedUpTo
    <3>4. PrintedUpTo(h, Len(printed[h])) => PrintedUpTo(h, Len(printed[h]))'
      BY <3>1 DEF PrintedUpTo
    <3> QED BY <3>1, <3>2, <3>3, <3>4 DEF IInv
  <2> QED BY <2>1, <2>2
<1> QED BY <1>14, <1>15, <1>16, <1>18, <1>19, <1>23 DEF IInv

\* The inductive invariant holds of every state the server can reach.
THEOREM Invariance == Spec => []IInv
<1>1. Init => IInv
  <2> SUFFICES ASSUME Init PROVE IInv
    OBVIOUS
  <2>1. TypeOK
    BY MaxJobsAssumption DEF Init, TypeOK, Jobs, NoJob
  <2>2. \A g \in Groups : /\ queue[g] = <<>> /\ sent[g] = <<>> /\ printed[g] = <<>>
                          /\ num_jobs[g] = 0 /\ Lag(g) = 0
    <3> SUFFICES ASSUME NEW g \in Groups
                 PROVE  /\ queue[g] = <<>> /\ sent[g] = <<>> /\ printed[g] = <<>>
                        /\ num_jobs[g] = 0 /\ Lag(g) = 0
      OBVIOUS
    <3>1. /\ queue[g] = <<>> /\ sent[g] = <<>> /\ printed[g] = <<>>
          /\ num_jobs[g] = 0
      BY DEF Init
    <3>2. Len(queue[g]) = 0
      BY <3>1, EmptySeq
    <3> QED BY <3>1, <3>2 DEF Lag
  <2>3. AtMostOnePhantom /\ PrevIsATail /\ Unshared
    BY <2>2, EmptySeq DEF Init, AtMostOnePhantom, PrevIsATail, Unshared
  <2>4. \A g \in Groups : ListOfSent(g) /\ PrintedUpTo(g, Len(printed[g]))
    <3> SUFFICES ASSUME NEW g \in Groups
                 PROVE  ListOfSent(g) /\ PrintedUpTo(g, Len(printed[g]))
      OBVIOUS
    <3>1. Len(queue[g]) = 0 /\ Len(sent[g]) = 0 /\ Len(printed[g]) = 0
      BY <2>2, EmptySeq
    <3> QED BY <3>1 DEF ListOfSent, PrintedUpTo
  <2> QED BY <2>1, <2>2, <2>3, <2>4 DEF IInv
<1>2. TypeOK /\ IInv /\ TypeOK' /\ [Next]_vars => IInv'
  <2> SUFFICES ASSUME IInv, TypeOK', [Next]_vars PROVE IInv'
    OBVIOUS
  <2>1. CASE Discard
    <3>1. /\ job_number \in Int /\ job_number' = job_number + 1
          /\ UNCHANGED <<queue, num_jobs, prev, sent, printed>>
      BY <2>1 DEF IInv, TypeOK, Discard, NewJob
    <3>2. \A g \in Groups : \A i \in 1 .. Len(queue[g]) : queue[g][i] < job_number'
      <4> SUFFICES ASSUME NEW g \in Groups, NEW i \in 1 .. Len(queue[g])
                   PROVE  queue[g][i] < job_number'
        OBVIOUS
      <4>1. queue[g][i] \in Jobs
        BY TypesOf DEF IInv
      <4> QED BY <3>1, <4>1 DEF IInv, Jobs
    <3> QED BY <3>1, <3>2 DEF IInv, AtMostOnePhantom, PrevIsATail, Unshared,
                              Lag, ListOfSent, PrintedUpTo
  <2>2. ASSUME NEW g \in Groups, Enqueue(g) PROVE IInv'
    BY <2>2, EnqueueKeepsIInv
  <2>3. ASSUME NEW g \in Groups, Consume(g) PROVE IInv'
    BY <2>3, ConsumeKeepsIInv
  <2>4. CASE UNCHANGED vars
    BY <2>4 DEF vars, IInv, TypeOK, AtMostOnePhantom, PrevIsATail, Unshared,
                Lag, ListOfSent, PrintedUpTo
  <2> QED BY <2>1, <2>2, <2>3, <2>4 DEF Next
<1> QED BY <1>1, <1>2, TypeCorrect, PTL DEF Spec

\* The walk over the list of a group with a job to take never starts at a
\* null head, whatever the groups and the number of jobs.
THEOREM NeverWalksNull == Spec => []NoNullWalk
<1>1. IInv => NoNullWalk
  <2> SUFFICES ASSUME IInv, NEW g \in Groups, num_jobs[g] > 0
               PROVE  Len(queue[g]) > 0
    BY DEF NoNullWalk
  <2>1. num_jobs[g] \in Nat /\ Len(queue[g]) \in Nat
    BY TypesOf DEF IInv
  <2>2. Len(queue[g]) - num_jobs[g] \in {0, 1}
    BY DEF IInv, AtMostOnePhantom, Lag
  <2> QED BY <2>1, <2>2
<1> QED BY <1>1, Invariance, PTL

\* Jobs are printed in the order they were queued, with one repetition at
\* most, whatever the groups and the number of jobs.
THEOREM PrintsInOrder == Spec => []PrintedInOrder
<1>1. IInv => PrintedInOrder
  <2> SUFFICES ASSUME IInv, NEW g \in Groups
               PROVE  \E k \in 0 .. Len(printed[g]) :
                        \A i \in 1 .. Len(printed[g]) :
                          LET n == IF i <= k THEN i ELSE i - 1
                          IN  n \in 1 .. Len(sent[g]) /\ printed[g][i] = sent[g][n]
    BY DEF PrintedInOrder
  <2>1. /\ Len(printed[g]) \in Nat /\ Len(sent[g]) \in Nat /\ num_jobs[g] \in Nat
        /\ Len(printed[g]) = Len(sent[g]) - num_jobs[g]
    BY TypesOf DEF IInv
  <2>2. Len(printed[g]) =< Len(sent[g])
    BY <2>1
  <2>3. CASE Lag(g) = 0
    <3>1. PrintedUpTo(g, Len(printed[g]))
      BY <2>3 DEF IInv
    <3> WITNESS Len(printed[g]) \in 0 .. Len(printed[g])
    <3> QED BY <2>1, <2>2, <3>1 DEF PrintedUpTo
  <2>4. CASE Lag(g) = 1
    <3>1. PICK k \in 1 .. Len(printed[g]) : PrintedUpTo(g, k)
      BY <2>4 DEF IInv
    <3>2. k \in 0 .. Len(printed[g])
      BY <2>1
    <3> WITNESS k \in 0 .. Len(printed[g])
    <3> QED BY <2>1, <2>2, <3>1 DEF PrintedUpTo
  <2> QED BY <2>3, <2>4 DEF IInv, AtMostOnePhantom
<1> QED BY <1>1, Invariance, PTL

\* No job is lost, whatever the groups and the number of jobs: the list of a
\* group has its youngest jobs and printed the others.
THEOREM LosesNoJob == Spec => []NoJobLost
<1>1. IInv => NoJobLost
  <2> SUFFICES ASSUME IInv, NEW g \in Groups, NEW i \in 1 .. Len(sent[g])
               PROVE  \/ \E k \in 1 .. Len(printed[g]) : printed[g][k] = sent[g][i]
                      \/ \E k \in 1 .. Len(queue[g]) : queue[g][k] = sent[g][i]
    BY DEF NoJobLost
  <2>0. /\ Len(sent[g]) \in Nat /\ Len(queue[g]) \in Nat
        /\ Len(printed[g]) \in Nat /\ num_jobs[g] \in Nat
    BY TypesOf DEF IInv
  <2>m. PICK m \in Nat : m = Len(sent[g])
    BY <2>0
  <2>n. PICK n \in Nat : n = Len(queue[g])
    BY <2>0
  <2>q. PICK q \in Nat : q = Len(printed[g])
    BY <2>0
  <2>1. i \in 1 .. m
    BY <2>m
  <2>2. /\ ListOfSent(g) /\ Lag(g) \in {0, 1}
        /\ q = m - num_jobs[g] /\ Lag(g) = n - num_jobs[g]
    BY <2>m, <2>n, <2>q DEF IInv, AtMostOnePhantom, Lag
  <2>3. CASE i > m - n
    <3>1. m + 1 - i \in 1 .. n /\ m + 1 - (m + 1 - i) = i
      BY <2>1, <2>3
    <3>2. \A k \in 1 .. n : queue[g][k] = sent[g][m + 1 - k]
      BY <2>2, <2>m, <2>n DEF ListOfSent
    <3>3. queue[g][m + 1 - i] = sent[g][i]
      <4>1. queue[g][m + 1 - i] = sent[g][m + 1 - (m + 1 - i)]
        BY <3>1, <3>2
      <4> QED BY <3>1, <4>1
    <3> QED BY <2>n, <3>1, <3>3
  <2>4. CASE ~ (i > m - n)
    <3>1. CASE Lag(g) = 0
      <4>1. PrintedUpTo(g, q)
        BY <2>q, <3>1 DEF IInv
      <4>2. i \in 1 .. q
        BY <2>0, <2>1, <2>2, <2>4, <3>1
      <4>3. printed[g][i] = sent[g][i]
        BY <2>q, <4>1, <4>2 DEF PrintedUpTo
      <4> QED BY <2>q, <4>2, <4>3
    <3>2. CASE Lag(g) = 1
      <4>1. PICK k \in 1 .. q : PrintedUpTo(g, k)
        BY <2>q, <3>2 DEF IInv
      <4>2. i \in 1 .. q /\ i + 1 \in 1 .. q
        BY <2>0, <2>1, <2>2, <2>4, <3>2
      <4>3. CASE i =< k
        <5>1. printed[g][i] = sent[g][i]
          BY <2>q, <4>1, <4>2, <4>3 DEF PrintedUpTo
        <5> QED BY <2>q, <4>2, <5>1
      <4>4. CASE ~ (i =< k)
        <5>1. ~ (i + 1 =< k) /\ (i + 1) - 1 = i
          BY <2>1, <4>1, <4>4
        <5>2. printed[g][i + 1] = sent[g][(i + 1) - 1]
          BY <2>q, <4>1, <4>2, <5>1 DEF PrintedUpTo
        <5> QED BY <2>q, <4>2, <5>1, <5>2
      <4> QED BY <4>3, <4>4
    <3> QED BY <2>2, <3>1, <3>2
  <2> QED BY <2>3, <2>4
<1> QED BY <1>1, Invariance, PTL

\* A list that has an uncounted job keeps it, whatever the groups and the
\* number of jobs: queueing counts the job it links, and a consumption from
\* such a list is of one that holds two jobs or more, and cuts exactly one.
THEOREM PhantomStays == Spec => PhantomIsForever
<1>1. ASSUME IInv, [Next]_vars, NEW h \in Groups, Lag(h) = 1
      PROVE  Lag(h)' = 1
  <2>1. CASE Discard \/ UNCHANGED vars
    BY <1>1, <2>1 DEF Discard, vars, Lag
  <2>2. ASSUME NEW g \in Groups, Enqueue(g)
        PROVE  Lag(h)' = 1
    <3>1. CASE h = g
      <4>1. /\ queue[g] \in Seq(Jobs) /\ Len(queue[g]) \in Nat
            /\ num_jobs[g] \in Nat /\ job_number \in Jobs
        BY <1>1, <2>2, TypesOf, MaxJobsAssumption
          DEF IInv, TypeOK, Enqueue, NewJob, Jobs
      <4>2. num_jobs'[g] = num_jobs[g] + 1 /\ queue'[g] = <<job_number>> \o queue[g]
        BY <1>1, <2>2 DEF Enqueue, IInv, TypeOK
      <4>3. <<job_number>> \in Seq(Jobs) /\ Len(<<job_number>>) = 1
        BY <4>1
      <4>4. Len(<<job_number>> \o queue[g]) = 1 + Len(queue[g])
        BY <4>1, <4>3, ConcatProperties
      <4>5. Len(queue'[g]) - num_jobs'[g] = Len(queue[g]) - num_jobs[g]
        BY <4>1, <4>2, <4>4
      <4> QED BY <1>1, <3>1, <4>5 DEF Lag
    <3>2. CASE h # g
      BY <1>1, <2>2, <3>2 DEF Enqueue, IInv, TypeOK, Lag
    <3> QED BY <3>1, <3>2
  <2>3. ASSUME NEW g \in Groups, Consume(g)
        PROVE  Lag(h)' = 1
    <3>1. queue[g] \in Seq(Jobs) /\ Len(queue[g]) \in Nat /\ num_jobs[g] \in Nat
      BY <1>1, TypesOf DEF IInv
    <3>2. num_jobs[g] > 0 /\ num_jobs'[g] = num_jobs[g] - 1
      BY <1>1, <2>3 DEF Consume, IInv, TypeOK
    <3>3. CASE h = g
      <4>1. Len(queue[g]) > 1
        BY <1>1, <3>1, <3>2, <3>3 DEF Lag
      <4>2. queue' = [queue EXCEPT ![g] = SubSeq(@, 1, Len(queue[g]) - 1)]
        <5>1. Len(queue[g]) # 1
          <6>1. \A n \in Nat : n > 1 => n # 1
            OBVIOUS
          <6> QED BY <3>1, <4>1, <6>1, Zenon
        <5> QED BY <1>1, <2>3, <5>1, ConsumeEffect
      <4>3. queue'[g] = SubSeq(queue[g], 1, Len(queue[g]) - 1)
        BY <1>1, <4>2 DEF IInv, TypeOK
      <4>4. \A i \in 1 .. Len(queue[g]) - 1 : queue[g][i] \in Jobs
        BY <3>1
      <4>5. Len(queue'[g]) = Len(queue[g]) - 1
        BY <3>1, <4>1, <4>3, <4>4, SubSeqProperties
      <4> QED BY <1>1, <3>1, <3>2, <3>3, <4>5 DEF Lag
    <3>4. CASE h # g
      <4>1. queue'[h] = queue[h]
        BY <1>1, <2>3, <3>4, ConsumeEffect DEF IInv, TypeOK
      <4>2. num_jobs'[h] = num_jobs[h]
        BY <1>1, <2>3, <3>4 DEF Consume, IInv, TypeOK
      <4> QED BY <1>1, <4>1, <4>2 DEF Lag
    <3> QED BY <3>3, <3>4
  <2> QED BY <1>1, <2>1, <2>2, <2>3 DEF Next
<1>2. IInv /\ [Next]_vars => [\A g \in Groups : Lag(g) = 1 => Lag(g)' = 1]_vars
  BY <1>1
<1> QED BY <1>2, Invariance, PTL DEF Spec, PhantomIsForever

-----------------------------------------------------------------------------
(***************************************************************************)
(* The spool.  Whether a job came out twice shows in printed: jobs are     *)
(* sent in the order of their numbers, so equal neighbours in printed are  *)
(* one job.                                                                *)
(***************************************************************************)

SentInOrder ==
  \A g \in Groups :
    /\ \A i \in 1 .. Len(sent[g]) : sent[g][i] < job_number
    /\ \A i, k \in 1 .. Len(sent[g]) : i < k => sent[g][i] < sent[g][k]

\* Jobs are sent in the order in which they were numbered.
LEMMA SendsInOrder == Spec => []SentInOrder
<1>1. Init => SentInOrder
  <2>1. Len(<<>>) = 0 /\ 1 .. 0 = {}
    OBVIOUS
  <2> QED BY <2>1 DEF Init, SentInOrder
<1>2. TypeOK /\ SentInOrder /\ [Next]_vars => SentInOrder'
  <2> SUFFICES ASSUME TypeOK, SentInOrder, [Next]_vars PROVE SentInOrder'
    OBVIOUS
  <2>1. \A g \in Groups : \A i \in 1 .. Len(sent[g]) : sent[g][i] \in Nat
    <3>1. Jobs \subseteq Nat
      BY MaxJobsAssumption DEF Jobs
    <3> QED BY <3>1, TypesOf, ElementOfSeq
  <2>2. CASE Discard
    <3>1. job_number \in Nat /\ job_number' = job_number + 1 /\ sent' = sent
      BY <2>2, MaxJobsAssumption DEF TypeOK, Discard, NewJob
    <3>2. \A x \in Nat : x < job_number => x < job_number'
      BY <3>1
    <3> QED BY <3>1, <3>2, <2>1 DEF SentInOrder
  <2>3. ASSUME NEW g \in Groups, Enqueue(g) PROVE SentInOrder'
    <3>1. /\ job_number \in Jobs /\ job_number \in Nat /\ job_number' = job_number + 1
          /\ sent' = [sent EXCEPT ![g] = Append(@, job_number)]
          /\ sent \in [Groups -> Seq(Jobs)]
      BY <2>3, MaxJobsAssumption DEF TypeOK, Enqueue, NewJob, Jobs
    <3>2. PICK m \in Nat : m = Len(sent[g])
      BY TypesOf
    <3>3. /\ Len(sent'[g]) = m + 1 /\ sent'[g][m + 1] = job_number
          /\ \A i \in 1 .. m : sent'[g][i] = sent[g][i]
          /\ \A h \in Groups : h # g => sent'[h] = sent[h]
      BY <3>1, <3>2, AppendProperties
    <3>4. \A x \in Nat : x < job_number => x < job_number'
      BY <3>1
    <3>5. job_number < job_number'
      BY <3>1
    <3>6. ASSUME NEW h \in Groups, h # g
          PROVE  /\ \A i \in 1 .. Len(sent'[h]) : sent'[h][i] < job_number'
                 /\ \A i, k \in 1 .. Len(sent'[h]) : i < k => sent'[h][i] < sent'[h][k]
      BY <3>3, <3>4, <3>6, <2>1 DEF SentInOrder
    <3>7. \A i \in 1 .. m : sent'[g][i] < job_number /\ sent'[g][i] \in Nat
      BY <3>2, <3>3, <2>1 DEF SentInOrder
    <3>8. \A i \in 1 .. m + 1 : i \in 1 .. m \/ i = m + 1
      BY <3>2
    <3>9. \A i \in 1 .. m + 1 : sent'[g][i] < job_number'
      BY <3>3, <3>4, <3>5, <3>7, <3>8
    <3>10. ASSUME NEW i \in 1 .. m + 1, NEW k \in 1 .. m + 1, i < k
           PROVE  sent'[g][i] < sent'[g][k]
      <4>1. i \in 1 .. m
        BY <3>10, <3>2
      <4>2. CASE k = m + 1
        BY <4>1, <4>2, <3>3, <3>7
      <4>3. CASE k \in 1 .. m
        BY <4>1, <4>3, <3>2, <3>3, <3>10 DEF SentInOrder
      <4> QED BY <4>2, <4>3, <3>8
    <3> QED BY <3>3, <3>6, <3>9, <3>10 DEF SentInOrder
  <2>4. ASSUME NEW g \in Groups, Consume(g) PROVE SentInOrder'
    BY <2>4 DEF Consume, SentInOrder
  <2>5. CASE UNCHANGED vars
    BY <2>5 DEF vars, SentInOrder
  <2> QED BY <2>2, <2>3, <2>4, <2>5 DEF Next
<1> QED BY <1>1, <1>2, TypeCorrect, PTL DEF Spec

RepeatsOne(g) == \E i \in 2 .. Len(printed[g]) : printed[g][i] = printed[g][i - 1]

\* The mapping counts a repetition when there is one.
LEMMA ReprintsAre ==
  ASSUME NEW g \in Groups
  PROVE  ReprintsOf(g) = IF RepeatsOne(g) THEN 1 ELSE 0
<1>1. RepeatsOne(g) => Repeated(g) \in 2 .. Len(printed[g])
  BY DEF RepeatsOne, Repeated
<1>2. ~ RepeatsOne(g) => Repeated(g) = 0
  BY DEF RepeatsOne, Repeated
<1>3. RepeatsOne(g) => Repeated(g) # 0
  BY <1>1
<1> QED BY <1>2, <1>3 DEF ReprintsOf

\* Without a repetition the printed jobs are the first that were sent; with one
\* the last printed job is one place behind, and the list has its extra job.
LEMMA PrintedShape ==
  ASSUME IInv, SentInOrder, NEW g \in Groups,
         NEW m \in Nat, m = Len(sent[g]), NEW n \in Nat, n = Len(printed[g])
  PROVE  /\ n =< m
         /\ ~ RepeatsOne(g) => \A i \in 1 .. n : printed[g][i] = sent[g][i]
         /\ RepeatsOne(g) => n >= 2 /\ Lag(g) = 1
         /\ Lag(g) = 1 => n >= 1
<1>1. n = m - num_jobs[g] /\ num_jobs[g] \in Nat /\ Lag(g) \in {0, 1}
  BY TypesOf DEF IInv, AtMostOnePhantom
<1>2. n =< m
  BY <1>1
<1>3. \A i \in 1 .. m : sent[g][i] \in Nat
  <2>1. Jobs \subseteq Nat
    BY MaxJobsAssumption DEF Jobs
  <2> QED BY <2>1, TypesOf, ElementOfSeq DEF IInv
<1>4. \A i \in 2 .. m : sent[g][i] # sent[g][i - 1]
  <2> SUFFICES ASSUME NEW i \in 2 .. m PROVE sent[g][i] # sent[g][i - 1]
    OBVIOUS
  <2>1. i \in 1 .. m /\ i - 1 \in 1 .. m /\ i - 1 < i
    OBVIOUS
  <2>2. sent[g][i - 1] < sent[g][i]
    BY <2>1 DEF SentInOrder
  <2>3. sent[g][i - 1] \in Nat /\ sent[g][i] \in Nat
    BY <2>1, <1>3
  <2> QED BY <2>2, <2>3
<1>5. ASSUME \A i \in 1 .. n : printed[g][i] = sent[g][i]
      PROVE  ~ RepeatsOne(g)
  <2> SUFFICES ASSUME NEW i \in 2 .. n PROVE printed[g][i] # printed[g][i - 1]
    BY DEF RepeatsOne
  <2>1. i \in 1 .. n /\ i - 1 \in 1 .. n /\ i \in 2 .. m
    BY <1>2
  <2> QED BY <2>1, <1>4, <1>5
<1>6. CASE Lag(g) = 0
  <2>1. PrintedUpTo(g, n)
    BY <1>6 DEF IInv
  <2>2. \A i \in 1 .. n : printed[g][i] = sent[g][i]
    BY <2>1 DEF PrintedUpTo
  <2> QED BY <1>2, <1>5, <1>6, <2>2
<1>7. CASE Lag(g) = 1
  <2>1. PICK k \in 1 .. n : PrintedUpTo(g, k)
    BY <1>7 DEF IInv
  <2>2. CASE k = n
    <3>1. \A i \in 1 .. n : printed[g][i] = sent[g][i]
      BY <2>1, <2>2 DEF PrintedUpTo
    <3> QED BY <1>2, <1>5, <3>1, <2>1
  <2>3. CASE k # n
    <3>1. k \in 1 .. n /\ k + 1 \in 2 .. n /\ k + 1 \in 1 .. n
          /\ (k + 1) - 1 = k /\ ~ (k + 1 =< k)
      BY <2>1, <2>3
    <3>2. printed[g][k] = sent[g][k] /\ printed[g][k + 1] = sent[g][(k + 1) - 1]
      BY <2>1, <3>1 DEF PrintedUpTo
    <3>3. RepeatsOne(g)
      BY <3>1, <3>2 DEF RepeatsOne
    <3> QED BY <1>2, <1>7, <3>1, <3>3
  <2> QED BY <2>2, <2>3
<1> QED BY <1>1, <1>6, <1>7

\* The job that is consumed is the next that was sent, or the one before if the
\* list has its extra job.
LEMMA ConsumePrints ==
  ASSUME IInv, NEW g \in Groups, Consume(g),
         NEW m \in Nat, m = Len(sent[g]), NEW n \in Nat, n = Len(printed[g])
  PROVE  /\ n + 1 - Lag(g) \in 1 .. m
         /\ sent[g][n + 1 - Lag(g)] \in Jobs
         /\ printed' = [printed EXCEPT ![g] = Append(@, sent[g][n + 1 - Lag(g)])]
<1>1. /\ queue[g] \in Seq(Jobs) /\ Len(queue[g]) \in Nat
      /\ num_jobs[g] \in Nat /\ num_jobs[g] > 0 /\ Len(queue[g]) > 0
      /\ sent[g] \in Seq(Jobs)
  BY TypesOf DEF Consume, IInv
<1>2. PICK q \in Nat : q = Len(queue[g]) /\ q > 0
  BY <1>1
<1>3. PICK c \in Nat : c = num_jobs[g] /\ c > 0
  BY <1>1
<1>4. Lag(g) = q - c /\ n = m - c /\ q =< m
  BY <1>2, <1>3 DEF IInv, Lag, ListOfSent
<1>5. n + 1 - Lag(g) = m + 1 - q /\ m + 1 - q \in 1 .. m
  <2>1. \A x, y, z \in Nat : (x - y) + 1 - (z - y) = x + 1 - z
    OBVIOUS
  <2>2. \A x, z \in Nat : z > 0 /\ z =< x => x + 1 - z \in 1 .. x
    OBVIOUS
  <2>3. (m - c) + 1 - (q - c) = m + 1 - q
    <3>1. m \in Nat /\ c \in Nat /\ q \in Nat
      BY <1>2, <1>3
    <3> QED BY <2>1, <3>1, ZenonT(30)
  <2>4. m + 1 - q \in 1 .. m
    BY <2>2, <1>2, <1>4
  <2> QED BY <2>3, <2>4, <1>4
<1>6. queue[g][q] = sent[g][m + 1 - q]
  <2>1. q \in 1 .. Len(queue[g])
    BY <1>2
  <2> QED BY <2>1 DEF IInv, ListOfSent
<1>7. printed' = [printed EXCEPT ![g] = Append(@, queue[g][q])]
  BY <1>2 DEF Consume
<1>8. sent[g][m + 1 - q] \in Jobs
  BY <1>1, <1>5, ElementOfSeq
<1> QED BY <1>5, <1>6, <1>7, <1>8

\* The queues implement a spool that prints in order and, per group, repeats
\* at most one job in its life: consuming delivers the next job, or prints the
\* last one again where a stale prev left it in the list.
THEOREM QueuesImplementSpool == Spec => ImplementsSpool
<1> SUFFICES Spec => Spool!Spec
  BY DEF ImplementsSpool
<1> DEFINE left(g) == SubSeq(sent[g], Len(printed[g]) - ReprintsOf(g) + 1, Len(sent[g]))
           waiting == [g \in Groups |-> left(g)]
           reprints == [g \in Groups |-> ReprintsOf(g)]
<1>1. Init => Spool!Init
  <2> SUFFICES ASSUME Init PROVE Spool!Init
    OBVIOUS
  <2>1. SubSeq(<<>>, 0 - 0 + 1, 0) = <<>> /\ Len(<<>>) = 0 /\ 2 .. 0 = {}
    <3>1. 0 - 0 + 1 \in Int /\ 0 \in Int /\ 0 < 0 - 0 + 1
      OBVIOUS
    <3> QED BY <3>1, SubSeqEmpty
  <2>2. \A g \in Groups : ReprintsOf(g) = 0
    BY <2>1, ReprintsAre DEF RepeatsOne, Init
  <2>3. \A g \in Groups : left(g) = <<>>
    BY <2>1, <2>2 DEF Init
  <2> QED BY <2>2, <2>3 DEF Init, Spool!Init
<1>2. IInv /\ SentInOrder /\ IInv' /\ SentInOrder' /\ [Next]_vars => [Spool!Next]_Spool!vars
  <2> SUFFICES ASSUME IInv, SentInOrder, IInv', SentInOrder', [Next]_vars
               PROVE  Spool!Next \/ UNCHANGED <<waiting, printed, reprints>>
    BY DEF Spool!vars
  <2>1. CASE Discard \/ UNCHANGED vars
    <3>1. UNCHANGED <<sent, printed>>
      BY <2>1 DEF Discard, vars
    <3>2. \A g \in Groups : ReprintsOf(g)' = ReprintsOf(g)
      BY <3>1 DEF ReprintsOf, Repeated
    <3> QED BY <3>1, <3>2
  <2>2. ASSUME NEW g \in Groups, Enqueue(g) PROVE Spool!Next
    <3>0. PICK j \in Jobs : j = job_number
      BY <2>2, MaxJobsAssumption DEF IInv, TypeOK, Enqueue, NewJob, Jobs
    <3>1. /\ printed' = printed
          /\ sent' = [sent EXCEPT ![g] = Append(@, j)]
          /\ sent \in [Groups -> Seq(Jobs)] /\ sent[g] \in Seq(Jobs)
      BY <2>2, <3>0 DEF IInv, TypeOK, Enqueue
    <3>2. PICK m \in Nat, n \in Nat : m = Len(sent[g]) /\ n = Len(printed[g])
      BY TypesOf DEF IInv
    <3>3. \A h \in Groups : ReprintsOf(h)' = ReprintsOf(h)
      BY <3>1 DEF ReprintsOf, Repeated
    <3>4. \A h \in Groups : h # g => left(h)' = left(h)
      BY <3>1, <3>3
    <3>5. PICK r \in 0 .. m : r = n - ReprintsOf(g)
      <4>1. n =< m /\ (RepeatsOne(g) => n >= 2)
        BY <3>2, PrintedShape
      <4>2. ReprintsOf(g) = IF RepeatsOne(g) THEN 1 ELSE 0
        BY ReprintsAre
      <4> QED BY <4>1, <4>2
    <3>6. left(g) = Behind(sent[g], r)
      BY <3>2, <3>5 DEF Behind
    <3>7. left(g)' = Behind(Append(sent[g], j), r)
      BY <3>1, <3>2, <3>3, <3>5 DEF Behind
    <3>8. left(g)' = Append(left(g), j)
      <4>1. Behind(Append(sent[g], j), r) = Append(Behind(sent[g], r), j)
        BY <3>1, <3>2, BehindAppend
      <4> QED BY <4>1, <3>6, <3>7
    <3>10. /\ waiting' = [waiting EXCEPT ![g] = Append(@, j)]
           /\ UNCHANGED reprints
      <4> HIDE DEF left
      <4> QED BY <3>3, <3>4, <3>8
    <3>9. Spool!Submit(g, j)
      BY <3>1, <3>10 DEF Spool!Submit
    <3> QED BY <3>9 DEF Spool!Next
  <2>3. ASSUME NEW g \in Groups, Consume(g) PROVE Spool!Next
    <3>1. PICK m \in Nat, n \in Nat : m = Len(sent[g]) /\ n = Len(printed[g])
      BY TypesOf DEF IInv
    <3> DEFINE j == sent[g][n + 1 - Lag(g)]
    <3>2. /\ n + 1 - Lag(g) \in 1 .. m /\ j \in Jobs
          /\ printed' = [printed EXCEPT ![g] = Append(@, j)]
      BY <2>3, <3>1, ConsumePrints
    <3>3. /\ printed[g] \in Seq(Jobs) /\ printed \in [Groups -> Seq(Jobs)]
          /\ sent[g] \in Seq(Jobs) /\ sent' = sent
      BY <2>3 DEF IInv, TypeOK, Consume
    <3>4. /\ \A h \in Groups : h # g => printed'[h] = printed[h]
          /\ Len(printed'[g]) = n + 1 /\ printed'[g][n + 1] = j
          /\ \A i \in 1 .. n : printed'[g][i] = printed[g][i]
      BY <3>1, <3>2, <3>3, AppendProperties
    <3>5. \A h \in Groups : h # g => ReprintsOf(h)' = ReprintsOf(h)
      BY <3>4, SMTT(30) DEF ReprintsOf, Repeated
    <3>6. \A h \in Groups : h # g => left(h)' = left(h)
      BY <3>3, <3>4, <3>5
    <3>7. /\ n =< m
          /\ ~ RepeatsOne(g) => \A i \in 1 .. n : printed[g][i] = sent[g][i]
          /\ RepeatsOne(g) => n >= 2 /\ Lag(g) = 1
          /\ Lag(g) = 1 => n >= 1
      BY <3>1, PrintedShape
    <3>8. /\ ReprintsOf(g) = IF RepeatsOne(g) THEN 1 ELSE 0
          /\ ReprintsOf(g)' = IF RepeatsOne(g)' THEN 1 ELSE 0
      <4>1. ReprintsOf(g) = IF RepeatsOne(g) THEN 1 ELSE 0
        BY ReprintsAre
      <4>2. (ReprintsOf(g) = IF RepeatsOne(g) THEN 1 ELSE 0)'
        BY ReprintsAre, PTL
      <4> QED BY <4>1, <4>2
    <3>9. RepeatsOne(g)' <=> RepeatsOne(g) \/ (n >= 1 /\ j = printed[g][n])
      <4>1. RepeatsOne(g)' <=> \E i \in 2 .. n + 1 : printed'[g][i] = printed'[g][i - 1]
        BY <3>4 DEF RepeatsOne
      <4>2. \A i \in 2 .. n : i \in 1 .. n /\ i - 1 \in 1 .. n /\ i \in 2 .. n + 1
        OBVIOUS
      <4>3. \A i \in 2 .. n + 1 : i \in 2 .. n \/ (i = n + 1 /\ n >= 1)
        BY <3>1
      <4>4. n >= 1 => n + 1 \in 2 .. n + 1 /\ (n + 1) - 1 = n /\ n \in 1 .. n
        BY <3>1
      <4>5. \A i \in 2 .. n : printed'[g][i] = printed[g][i] /\ printed'[g][i - 1] = printed[g][i - 1]
        BY <3>4, <4>2
      <4>6. n >= 1 => (printed'[g][n + 1] = printed'[g][(n + 1) - 1] <=> j = printed[g][n])
        BY <3>4, <4>4
      <4>7. RepeatsOne(g) <=> \E i \in 2 .. n : printed[g][i] = printed[g][i - 1]
        BY <3>1 DEF RepeatsOne
      <4>8. ASSUME RepeatsOne(g)' PROVE RepeatsOne(g) \/ (n >= 1 /\ j = printed[g][n])
        <5>1. PICK i \in 2 .. n + 1 : printed'[g][i] = printed'[g][i - 1]
          BY <4>1, <4>8
        <5>2. CASE i \in 2 .. n
          BY <4>5, <4>7, <5>1, <5>2
        <5>3. CASE i = n + 1 /\ n >= 1
          BY <4>6, <5>1, <5>3
        <5> QED BY <4>3, <5>2, <5>3
      <4>9. RepeatsOne(g) => RepeatsOne(g)'
        BY <4>1, <4>2, <4>5, <4>7
      <4>10. n >= 1 /\ j = printed[g][n] => RepeatsOne(g)'
        BY <4>1, <4>4, <4>6
      <4> QED BY <4>8, <4>9, <4>10
    <3> HIDE DEF j
    <3>10. CASE Lag(g) = 0
      <4>1. ~ RepeatsOne(g) /\ ReprintsOf(g) = 0
        BY <3>7, <3>8, <3>10
      <4>2. n + 1 - Lag(g) = n + 1 /\ n < m /\ n \in 0 .. m
        BY <3>1, <3>2, <3>7, <3>10
      <4>3. j = sent[g][n + 1]
        BY <4>2 DEF j
      <4>4. ~ RepeatsOne(g)'
        <5>1. n >= 1 => printed[g][n] = sent[g][n] /\ n \in 1 .. m /\ n + 1 \in 1 .. m /\ n < n + 1
          BY <3>1, <3>7, <4>1, <4>2
        <5>2. n >= 1 => sent[g][n] < sent[g][n + 1]
          BY <3>1, <5>1 DEF SentInOrder
        <5>3. n >= 1 => sent[g][n] \in Jobs /\ sent[g][n + 1] \in Jobs
          BY <3>1, <3>3, <5>1, ElementOfSeq
        <5>4. \A x, y \in Jobs : x < y => x # y
          BY MaxJobsAssumption DEF Jobs
        <5> QED BY <3>9, <4>1, <4>3, <5>1, <5>2, <5>3, <5>4
      <4>5. ReprintsOf(g)' = 0
        BY <3>8, <4>4
      <4>6. left(g) = Behind(sent[g], n) /\ left(g)' = Behind(sent[g], n + 1)
        <5>1. n - 0 = n /\ (n + 1) - 0 = n + 1
          BY <3>1
        <5> QED BY <3>1, <3>3, <3>4, <4>1, <4>5, <5>1 DEF Behind
      <4>7. /\ Len(Behind(sent[g], n)) > 0
            /\ Behind(sent[g], n)[1] = sent[g][n + 1]
            /\ Behind(sent[g], n + 1) = Tail(Behind(sent[g], n))
        BY <3>1, <3>3, <4>2, BehindNext
      <4>8. /\ waiting' = [waiting EXCEPT ![g] = Tail(@)] /\ UNCHANGED reprints
            /\ Len(waiting[g]) > 0 /\ waiting[g][1] = j
        BY <3>5, <3>6, <4>1, <4>3, <4>5, <4>6, <4>7
      <4>9. Spool!Deliver(g)
        BY <3>2, <4>8 DEF Spool!Deliver
      <4> QED BY <4>9 DEF Spool!Next
    <3>11. CASE Lag(g) = 1 /\ ~ RepeatsOne(g)
      <4>1. n + 1 - Lag(g) = n /\ n >= 1 /\ n \in 1 .. n
        BY <3>1, <3>7, <3>11
      <4>2. j = printed[g][n]
        BY <3>7, <3>11, <4>1 DEF j
      <4>3. ReprintsOf(g) = 0 /\ ReprintsOf(g)' = 1
        BY <3>8, <3>9, <3>11, <4>1, <4>2
      <4>4. left(g)' = left(g)
        <5>1. (n + 1) - 1 + 1 = n - 0 + 1
          BY <3>1
        <5> QED BY <3>1, <3>3, <3>4, <4>3, <5>1
      <4>5. UNCHANGED waiting
        <5> HIDE DEF left
        <5> QED BY <3>6, <4>4
      <4>8. reprints' = [reprints EXCEPT ![g] = @ + 1] /\ reprints[g] < 1
        <5>1. ReprintsOf(g) + 1 = 1 /\ ReprintsOf(g) < 1
          BY <4>3
        <5> QED BY <3>5, <4>3, <5>1
      <4>6. Len(printed[g]) > 0 /\ j = printed[g][Len(printed[g])]
        BY <3>1, <4>1, <4>2
      <4>7. Spool!Reprint(g)
        BY <3>2, <4>5, <4>6, <4>8 DEF Spool!Reprint
      <4> QED BY <4>7 DEF Spool!Next
    <3>12. CASE Lag(g) = 1 /\ RepeatsOne(g)
      <4>1. n + 1 - Lag(g) = n /\ n >= 2 /\ n - 1 \in 0 .. m /\ n - 1 < m /\ (n - 1) + 1 = n
        BY <3>1, <3>7, <3>12
      <4>2. j = sent[g][n]
        BY <4>1 DEF j
      <4>3. ReprintsOf(g) = 1 /\ ReprintsOf(g)' = 1
        BY <3>8, <3>9, <3>12
      <4>4. left(g) = Behind(sent[g], n - 1) /\ left(g)' = Behind(sent[g], (n - 1) + 1)
        <5>1. (n + 1) - 1 = (n - 1) + 1
          BY <3>1
        <5> QED BY <3>1, <3>3, <3>4, <4>3, <5>1 DEF Behind
      <4>5. /\ Len(Behind(sent[g], n - 1)) > 0
            /\ Behind(sent[g], n - 1)[1] = sent[g][(n - 1) + 1]
            /\ Behind(sent[g], (n - 1) + 1) = Tail(Behind(sent[g], n - 1))
        BY <3>1, <3>3, <4>1, BehindNext
      <4>6. /\ waiting' = [waiting EXCEPT ![g] = Tail(@)] /\ UNCHANGED reprints
            /\ Len(waiting[g]) > 0 /\ waiting[g][1] = j
        BY <3>5, <3>6, <4>1, <4>2, <4>3, <4>4, <4>5
      <4>7. Spool!Deliver(g)
        BY <3>2, <4>6 DEF Spool!Deliver
      <4> QED BY <4>7 DEF Spool!Next
    <3> QED BY <3>10, <3>11, <3>12 DEF IInv, AtMostOnePhantom
  <2> QED BY <2>1, <2>2, <2>3 DEF Next
<1> QED BY <1>1, <1>2, Invariance, SendsInOrder, PTL DEF Spec, Spool!Spec
=============================================================================
