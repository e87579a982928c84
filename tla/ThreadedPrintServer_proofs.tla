--------------------- MODULE ThreadedPrintServer_proofs ---------------------
(***************************************************************************)
(* Proofs about ThreadedPrintServer, for every number of groups, jobs and  *)
(* PRINT lines.                                                            *)
(***************************************************************************)
EXTENDS ThreadedPrintServer, PlaceTheorems

\* config.rc has one printer in each group.
OnePrinterPerGroup ==
  \A p, q \in Printers : GroupOf[p] = GroupOf[q] => p = q

-----------------------------------------------------------------------------
(***************************************************************************)
(* The inductive invariant, in parts.                                      *)
(***************************************************************************)

\* Where the producer has a job for a list, where it is in that list, and where
\* it holds or believes it holds the mutex of the list.
Walking == {"walk", "step", "link", "terminate"}
Holding == Walking \cup {"unlock"}
Busy == Holding \cup {"lock", "count", "signal"}

\* Where a consumer believes it holds the mutex of its list.
Critical == {"look", "take", "unlink", "count", "unlock"}

Types ==
  /\ head \in [Groups -> Jobs \cup {Null}]
  /\ next_job \in [Jobs -> Jobs \cup {Null}]
  /\ lock \in [Groups -> Printers \cup {Free, Producer}]
  /\ supply \in Int /\ supply_mutex \in {Free, Producer} /\ exit_flag \in BOOLEAN
  /\ ppc \in Busy \cup {"read", "drain", "returned"}
  /\ job \in Jobs \cup {Null} /\ group \in Groups \cup {NoGroup}
  /\ tail \in Jobs \cup {Null}
  /\ job_number \in 0 .. MaxJobs /\ prints \in 0 .. MaxPrints
  /\ cpc \in [Printers -> Critical \cup {"test", "wait", "waiting", "signalled",
                                        "timed out", "returned"}]
  /\ cjob \in [Printers -> Jobs \cup {Null}]
  /\ cprev \in [Printers -> Jobs \cup {Null}]
  /\ mpc \in {"join producer", "join consumers", "down"}
  /\ sent \in [Groups -> Seq(Jobs)]
  /\ printed \in [Groups -> Seq(Jobs)]

TypeInv ==
  /\ Types
  /\ job = job_number - 1
  /\ ppc \in Busy => job \in Jobs /\ group \in Groups
  /\ ppc = "step" => tail \in Jobs
  /\ \A p \in Printers : cpc[p] = "unlink" => cjob[p] \in Jobs

\* Who is in a list holds its mutex; and a consumer that was signalled, which
\* is on its way into the list, no longer frees the mutex of the producer.
Exclusion ==
  /\ \A p \in Printers : cpc[p] \in Critical => lock[GroupOf[p]] = p
  /\ \A p \in Printers :
       /\ GroupOf[p] = group /\ ppc \in Holding
       /\ cpc[p] \in Critical \cup {"signalled"}
       => lock[group] = Producer
  /\ \A p \in Printers : cpc[p] = "take" => head[GroupOf[p]] # Null

\* The places in sent of the jobs that wait in the list of g.
Waits(g) == Len(printed[g]) + 1 .. Len(sent[g])

\* Jobs are numbered as they are read, and each goes to one group only.
Numbered ==
  /\ \A g \in Groups : Len(printed[g]) =< Len(sent[g])
  /\ \A g \in Groups : \A i \in 1 .. Len(sent[g]) :
       sent[g][i] =< job /\ (sent[g][i] = job => g = group)
  /\ \A g, h \in Groups : \A i \in 1 .. Len(sent[g]), k \in 1 .. Len(sent[h]) :
       sent[g][i] = sent[h][k] => g = h
  /\ \A g \in Groups : \A i, k \in Waits(g) : i < k => sent[g][i] < sent[g][k]

\* head and next_job lead through the waiting jobs; only the last next_job of
\* the list the producer is about to terminate is open.
Linked ==
  /\ \A g \in Groups :
       head[g] = IF Waits(g) = {} THEN Null ELSE sent[g][Len(printed[g]) + 1]
  /\ \A g \in Groups : \A i \in Waits(g) :
       i < Len(sent[g]) => next_job[sent[g][i]] = sent[g][i + 1]
  /\ \A g \in Groups : \A i \in Waits(g) :
       i = Len(sent[g]) => next_job[sent[g][i]] = Null \/ (ppc = "terminate" /\ g = group)

\* The producer's j is of the list as it is.
Positioned ==
  /\ ppc = "step" => \E i \in Waits(group) : tail = sent[group][i]
  /\ ppc = "link" =>
       tail = IF Waits(group) = {} THEN Null ELSE sent[group][Len(sent[group])]
  /\ ppc = "terminate" =>
       Waits(group) # {} /\ sent[group][Len(sent[group])] = job

\* What a consumer read of the list is still so when it uses it.
Fresh ==
  \A p \in Printers : cpc[p] = "unlink" =>
    /\ Waits(GroupOf[p]) # {}
    /\ cjob[p] = head[GroupOf[p]]
    /\ cprev[p] = next_job[head[GroupOf[p]]]

ListInv == Numbered /\ Linked /\ Positioned /\ Fresh

\* supply counts at least the jobs that wait and those a consumer has taken but
\* not counted, but for the one the producer has yet to count.
Owed == {w \in Groups \X Nat : w[2] \in Waits(w[1])}
Counting == {p \in Printers : cpc[p] = "count"}
Uncounted == IF ppc \in {"terminate", "unlock", "count"} THEN 1 ELSE 0

SupplyInv ==
  /\ IsFiniteSet(Owed) /\ IsFiniteSet(Counting)
  /\ Cardinality(Owed) + Cardinality(Counting) =< supply + Uncounted
  /\ exit_flag => ppc \in {"drain", "returned"}
  /\ exit_flag /\ ppc = "returned" => Owed = {}

-----------------------------------------------------------------------------
(***************************************************************************)
(* Types.                                                                  *)
(***************************************************************************)

\* The types hold at the start.
LEMMA InitTypeInv == Init => TypeInv
<1> SUFFICES ASSUME Init PROVE TypeInv
  OBVIOUS
<1>1. -1 = 0 - 1 /\ 0 \in Int /\ 0 \in 0 .. MaxJobs /\ 0 \in 0 .. MaxPrints
  BY ConfigAssumption
<1>2. <<>> \in Seq(Jobs)
  BY EmptySeq
<1> QED BY <1>1, <1>2, ConfigAssumption
  DEF Init, Null, TypeInv, Types, Free, Producer, Busy, Holding, Walking, Critical

\* The counters are numbers within their bounds.
LEMMA NumbersOf ==
  ASSUME TypeInv
  PROVE  /\ supply + 1 \in Int /\ supply - 1 \in Int
         /\ job_number < MaxJobs =>
              /\ job_number \in Jobs
              /\ job_number = (job_number + 1) - 1
              /\ job_number + 1 \in 0 .. MaxJobs
         /\ prints < MaxPrints => prints + 1 \in 0 .. MaxPrints
<1>1. /\ supply \in Int /\ job_number \in 0 .. MaxJobs /\ prints \in 0 .. MaxPrints
      /\ MaxJobs \in Nat /\ MaxPrints \in Nat
  BY ConfigAssumption DEF TypeInv, Types
<1> QED BY <1>1 DEF Jobs

\* A step of the producer keeps the types.
LEMMA ReadKeepsTypeInv == TypeInv /\ ReadLine => TypeInv'
<1> SUFFICES ASSUME TypeInv, ReadLine PROVE TypeInv'
  OBVIOUS
<1> USE ConfigAssumption
    DEF TypeInv, Types, Busy, Holding, Walking, lists, producervars, consumervars
<1>1. CASE ReadNew
  <2>1. /\ job' \in Jobs /\ job' = job_number' - 1
        /\ job_number' \in 0 .. MaxJobs
    BY <1>1, NumbersOf DEF ReadNew
  <2> QED BY <1>1, <2>1 DEF ReadNew
<1>2. CASE ReadPrinter
  BY <1>2 DEF ReadPrinter
<1>3. CASE ReadPrint
  <2>1. prints' \in 0 .. MaxPrints
    BY <1>3, NumbersOf DEF ReadPrint
  <2>2. job' \in Jobs
    BY <1>3 DEF ReadPrint
  <2> QED BY <1>3, <2>1, <2>2 DEF ReadPrint
<1>4. CASE ReadExit
  BY <1>4 DEF ReadExit
<1>5. CASE EndOfInput
  BY <1>5 DEF EndOfInput
<1> QED BY <1>1, <1>2, <1>3, <1>4, <1>5 DEF ReadLine

\* The producer at a list keeps the types.
LEMMA WorkKeepsTypeInv == TypeInv /\ (Lock \/ Work) => TypeInv'
<1> SUFFICES ASSUME TypeInv, Lock \/ Work PROVE TypeInv'
  OBVIOUS
<1> USE ConfigAssumption
    DEF TypeInv, Types, Null, Busy, Holding, Walking, lists, producervars, consumervars
<1>1. CASE Lock
  BY <1>1 DEF Lock
<1>2. CASE Walk
  BY <1>2 DEF Walk
<1>3. CASE WalkOn
  BY <1>3 DEF WalkOn
<1>4. CASE Link
  <2>1. Append(sent[group], job) \in Seq(Jobs)
    BY <1>4, AppendProperties DEF Link
  <2>2. sent' \in [Groups -> Seq(Jobs)]
    BY <1>4, <2>1 DEF Link
  <2>3. /\ head' \in [Groups -> Jobs \cup {Null}]
        /\ next_job' \in [Jobs -> Jobs \cup {Null}]
    BY <1>4, ZenonT(30) DEF Link
  <2> QED BY <1>4, <2>2, <2>3 DEF Link
<1>5. CASE Terminate
  BY <1>5 DEF Terminate
<1>6. CASE UnlockList
  BY <1>6 DEF UnlockList
<1>7. CASE CountUp
  <2>1. supply' \in Int
    BY <1>7, NumbersOf DEF CountUp
  <2> QED BY <1>7, <2>1 DEF CountUp
<1>8. CASE Signal
  BY <1>8 DEF Signal, WaitingIn
<1>9. CASE Drained
  BY <1>9 DEF Drained
<1> QED BY <1>1, <1>2, <1>3, <1>4, <1>5, <1>6, <1>7, <1>8, <1>9 DEF Work

\* A consumer keeps the types.
LEMMA ConsumerKeepsTypeInv ==
  ASSUME TypeInv, NEW p \in Printers, Reacquire(p) \/ Consumer(p)
  PROVE  TypeInv'
<1> USE ConfigAssumption
    DEF TypeInv, Types, Null, Critical, Step, ofproducer, producervars
<1>1. CASE Test(p)
  BY <1>1 DEF Test
<1>2. CASE EnterWait(p)
  BY <1>2 DEF EnterWait
<1>3. CASE TimeOut(p)
  BY <1>3 DEF TimeOut
<1>4. CASE Reacquire(p)
  BY <1>4, ZenonT(30) DEF Reacquire
<1>5. CASE Look(p)
  BY <1>5 DEF Look
<1>6. CASE Take(p)
  BY <1>6 DEF Take
<1>7. CASE Unlink(p)
  <2>1. Append(printed[GroupOf[p]], cjob[p]) \in Seq(Jobs)
    BY <1>7, AppendProperties, ZenonT(30) DEF Unlink
  <2>2. printed' \in [Groups -> Seq(Jobs)]
    BY <1>7, <2>1 DEF Unlink
  <2> QED BY <1>7, <2>2 DEF Unlink
<1>8. CASE CountDown(p)
  <2>1. supply' \in Int
    BY <1>8, NumbersOf DEF CountDown
  <2> QED BY <1>8, <2>1 DEF CountDown
<1>9. CASE Unlock(p)
  BY <1>9 DEF Unlock
<1> QED BY <1>1, <1>2, <1>3, <1>4, <1>5, <1>6, <1>7, <1>8, <1>9 DEF Consumer

\* main keeps the types.
LEMMA MainKeepsTypeInv == TypeInv /\ Main => TypeInv'
BY DEF TypeInv, Types, Main, JoinProducer, TearDown, lists, producervars, consumervars

\* And so does a step of nobody.
LEMMA StutterKeepsTypeInv == TypeInv /\ UNCHANGED vars => TypeInv'
BY DEF TypeInv, Types, vars, lists, producervars, consumervars

\* Every variable keeps its type; in particular the producer never links a job
\* into a list that is none, and no consumer prints a job that is none.
THEOREM TypeCorrect == Spec => []TypeInv
<1>1. TypeInv /\ [Next]_vars => TypeInv'
  BY ReadKeepsTypeInv, WorkKeepsTypeInv, ConsumerKeepsTypeInv, MainKeepsTypeInv,
     StutterKeepsTypeInv
  DEF Next
<1> QED BY InitTypeInv, <1>1, PTL DEF Spec
-----------------------------------------------------------------------------
(***************************************************************************)
(* Mutual exclusion.                                                       *)
(***************************************************************************)

\* Reading a line touches no list and no mutex.
LEMMA ReadKeepsExclusion ==
  ASSUME TypeInv, Exclusion, ReadLine
  PROVE  Exclusion'
BY DEF Exclusion, Holding, Walking, ReadLine, ReadNew, ReadPrinter, ReadPrint, ReadExit,
       EndOfInput, lists, consumervars

\* While the producer holds the mutex of a list, whoever shares the list is
\* outside of it; the mutex is either the producer's or was freed by a consumer
\* that has since only waited.
LEMMA ProducerAlone ==
  ASSUME TypeInv, Exclusion, NEW p \in Printers, GroupOf[p] = group, ppc \in Holding
  PROVE  cpc[p] \notin Critical
BY ConfigAssumption DEF Exclusion, Producer

\* The producer enters a list only with its mutex.
LEMMA WorkKeepsExclusion ==
  ASSUME TypeInv, Exclusion, Lock \/ Work
  PROVE  Exclusion'
<1> USE DEF Exclusion, Holding, Walking, lists, consumervars
<1>1. CASE Lock
  <2>1. group \in Groups /\ lock \in [Groups -> Printers \cup {Free, Producer}]
    BY <1>1 DEF TypeInv, Types, Busy, Lock
  <2>2. \A p \in Printers : GroupOf[p] = group => cpc[p] \notin Critical
    BY <1>1, ConfigAssumption DEF Lock, Free
  <2> QED BY <1>1, <2>1, <2>2 DEF Lock
<1>2. CASE Walk \/ WalkOn
  BY <1>2 DEF Walk, WalkOn
<1>3. CASE Link
  <2>1. group \in Groups /\ head \in [Groups -> Jobs \cup {Null}]
    BY <1>3 DEF TypeInv, Types, Busy, Link
  <2>2. \A p \in Printers : GroupOf[p] = group => cpc[p] \notin Critical
    BY <1>3, ProducerAlone DEF Link
  <2>3. \A p \in Printers : GroupOf[p] # group => head'[GroupOf[p]] = head[GroupOf[p]]
    <3>1. head' = head \/ head' = [head EXCEPT ![group] = job]
      BY <1>3 DEF Link
    <3> QED BY <3>1, <2>1, ConfigAssumption
  <2> QED BY <1>3, <2>2, <2>3 DEF Link, Critical
<1>4. CASE Terminate
  BY <1>4 DEF Terminate
<1>5. CASE UnlockList
  <2>1. group \in Groups /\ lock \in [Groups -> Printers \cup {Free, Producer}]
    BY <1>5 DEF TypeInv, Types, Busy, UnlockList
  <2>2. \A p \in Printers : GroupOf[p] = group => cpc[p] \notin Critical
    BY <1>5, ProducerAlone DEF UnlockList
  <2> QED BY <1>5, <2>1, <2>2 DEF UnlockList
<1>6. CASE CountUp \/ Drained
  BY <1>6 DEF CountUp, Drained
<1>7. CASE Signal
  <2>1. cpc \in [Printers -> Critical \cup {"test", "wait", "waiting", "signalled",
                                            "timed out", "returned"}]
    BY DEF TypeInv, Types
  <2>2. \A p \in Printers : cpc'[p] = cpc[p] \/ cpc'[p] = "signalled"
    BY <1>7, <2>1 DEF Signal
  <2> QED BY <1>7, <2>2 DEF Signal, Critical
<1> QED BY <1>1, <1>2, <1>3, <1>4, <1>5, <1>6, <1>7 DEF Work

\* The only consumer of a list enters it with its mutex, or after a wait that
\* gave it the mutex back.
LEMMA ConsumerKeepsExclusion ==
  ASSUME OnePrinterPerGroup, TypeInv, Exclusion,
         NEW p \in Printers, Reacquire(p) \/ Consumer(p)
  PROVE  Exclusion'
<1>1. /\ \A q \in Printers : GroupOf[q] = GroupOf[p] => q = p
      /\ \A q \in Printers : GroupOf[q] \in Groups
  BY ConfigAssumption DEF OnePrinterPerGroup
<1>2. /\ cpc \in [Printers -> Critical \cup {"test", "wait", "waiting", "signalled",
                                            "timed out", "returned"}]
      /\ lock \in [Groups -> Printers \cup {Free, Producer}]
      /\ head \in [Groups -> Jobs \cup {Null}]
  BY DEF TypeInv, Types
<1>3. p # Free /\ p # Producer /\ Free # Producer
  BY ConfigAssumption DEF Free, Producer
<1> USE DEF Exclusion, Critical, Holding, Walking, Step, ofproducer, producervars
<1>4. CASE Test(p)
  BY <1>4, <1>2 DEF Test
<1>5. CASE EnterWait(p)
  BY <1>5, <1>1, <1>2 DEF EnterWait
<1>6. CASE TimeOut(p)
  BY <1>6, <1>2 DEF TimeOut
<1>7. CASE Reacquire(p)
  BY <1>7, <1>1, <1>2, <1>3 DEF Reacquire
<1>8. CASE Look(p)
  BY <1>8, <1>2 DEF Look
<1>9. CASE Take(p)
  BY <1>9, <1>2 DEF Take
<1>10. CASE Unlink(p)
  BY <1>10, <1>1, <1>2 DEF Unlink
<1>11. CASE CountDown(p)
  BY <1>11, <1>2 DEF CountDown
<1>12. CASE Unlock(p)
  <2>1. GroupOf[p] = group => ppc \notin Holding
    BY <1>12, ProducerAlone DEF Unlock
  <2> QED BY <1>12, <1>1, <1>2, <2>1 DEF Unlock
<1> QED BY <1>4, <1>5, <1>6, <1>7, <1>8, <1>9, <1>10, <1>11, <1>12 DEF Consumer

\* main joins threads that have left the lists.
LEMMA MainKeepsExclusion == Exclusion /\ Main => Exclusion'
BY DEF Exclusion, Main, JoinProducer, TearDown, lists, producervars, consumervars

\* Mutual exclusion is an invariant.
LEMMA ExclusionHolds == OnePrinterPerGroup => (Spec => [](TypeInv /\ Exclusion))
<1> SUFFICES ASSUME OnePrinterPerGroup PROVE Spec => [](TypeInv /\ Exclusion)
  OBVIOUS
<1>1. Init => Exclusion
  BY DEF Init, Exclusion, Critical
<1>2. TypeInv /\ Exclusion /\ [Next]_vars => Exclusion'
  <2>1. Exclusion /\ UNCHANGED vars => Exclusion'
    BY DEF Exclusion, vars, lists, producervars, consumervars
  <2> QED BY <2>1, ReadKeepsExclusion, WorkKeepsExclusion, ConsumerKeepsExclusion,
             MainKeepsExclusion
          DEF Next
<1> QED BY <1>1, <1>2, TypeCorrect, PTL DEF Spec

\* Never are two threads in the same list, and a job seen at the head is still
\* there when it is taken, whatever the interleaving.
THEOREM ListsAreThreadSafe == OnePrinterPerGroup => (Spec => []ThreadSafe)
<1> SUFFICES ASSUME OnePrinterPerGroup PROVE Spec => []ThreadSafe
  OBVIOUS
<1>1. TypeInv /\ Exclusion => ThreadSafe
  <2> SUFFICES ASSUME TypeInv, Exclusion, NEW g \in Groups
               PROVE  Cardinality(InList(g)) =< 1
    BY DEF ThreadSafe, Exclusion
  <2>1. \A p \in Printers : p # Producer
    BY ConfigAssumption DEF Producer
  <2>2. \A x, y \in InList(g) : x = y
    <3> SUFFICES ASSUME NEW x \in InList(g), NEW y \in InList(g) PROVE x = y
      OBVIOUS
    <3>1. \A p \in Printers : p \in InList(g) => GroupOf[p] = g /\ cpc[p] \in Critical
      BY <2>1 DEF InList, Critical
    <3>2. Producer \in InList(g) => group = g /\ ppc \in Holding
      BY <2>1 DEF InList, Holding, Walking
    <3>3. \A p \in Printers : ~ (p \in InList(g) /\ Producer \in InList(g))
      BY <3>1, <3>2, ProducerAlone
    <3>4. \A z \in InList(g) : z \in Printers \/ z = Producer
      BY DEF InList
    <3> QED BY <3>1, <3>3, <3>4 DEF OnePrinterPerGroup
  <2>3. CASE InList(g) = {}
    BY <2>3, FS_EmptySet
  <2>4. ASSUME NEW x \in InList(g) PROVE Cardinality(InList(g)) =< 1
    <3>1. InList(g) = {x}
      BY <2>2
    <3> QED BY <3>1, FS_Singleton, SMTT(30)
  <2> QED BY <2>3, <2>4
<1> QED BY <1>1, ExclusionHolds, PTL
-----------------------------------------------------------------------------
(***************************************************************************)
(* The lists.                                                              *)
(***************************************************************************)

\* The types and the bounds of what belongs to one group.
LEMMA WaitsOf ==
  ASSUME TypeInv, Numbered, NEW g \in Groups
  PROVE  /\ sent[g] \in Seq(Jobs) /\ Len(sent[g]) \in Nat
         /\ printed[g] \in Seq(Jobs) /\ Len(printed[g]) \in Nat
         /\ Len(printed[g]) =< Len(sent[g])
         /\ \A i \in 1 .. Len(sent[g]) : sent[g][i] \in Jobs /\ sent[g][i] \in Nat
         /\ \A i \in Waits(g) : /\ i \in 1 .. Len(sent[g]) /\ i \in Nat
                                /\ Len(printed[g]) + 1 =< i
         /\ Waits(g) = {} => Len(printed[g]) = Len(sent[g])
         /\ Waits(g) # {} => /\ Len(printed[g]) + 1 \in Waits(g)
                             /\ Len(sent[g]) \in Waits(g)
                             /\ Len(printed[g]) < Len(sent[g])
<1>1. sent[g] \in Seq(Jobs) /\ printed[g] \in Seq(Jobs)
  BY DEF TypeInv, Types
<1>2. PICK m \in Nat, n \in Nat : m = Len(sent[g]) /\ n = Len(printed[g])
  BY <1>1, LenProperties
<1>3. n =< m
  BY <1>2 DEF Numbered
<1>4. Waits(g) = n + 1 .. m
  BY <1>2 DEF Waits
<1>5. \A i \in 1 .. m : sent[g][i] \in Jobs
  BY <1>1, <1>2, ElementOfSeq
<1>6. Jobs \subseteq Nat
  BY ConfigAssumption DEF Jobs
<1>7. \A i \in n + 1 .. m : i \in 1 .. m /\ i \in Nat /\ n + 1 =< i
  BY <1>3
<1>8. /\ n + 1 .. m = {} => n = m
      /\ n + 1 .. m # {} => n + 1 \in n + 1 .. m /\ m \in n + 1 .. m /\ n < m
  BY <1>3
<1> QED BY <1>1, <1>2, <1>3, <1>4, <1>5, <1>6, <1>7, <1>8

\* A step that changes neither the lists nor what they depend on.
LEMMA ListFrame ==
  ASSUME Numbered, Linked, UNCHANGED <<lists, printed, job, group>>,
         ppc = "terminate" => ppc' = "terminate"
  PROVE  Numbered' /\ Linked'
BY DEF Numbered, Linked, Waits, lists

\* What touches neither lists nor consumers leaves the queued jobs as new as they are.
LEMMA FreshFrame ==
  ASSUME Fresh, UNCHANGED <<lists, consumervars>>
  PROVE  Fresh'
BY DEF Fresh, Waits, lists, consumervars

\* The job that is read is younger than every job that was sent; a new group
\* is chosen before the job is sent.
LEMMA ReadKeepsListInv ==
  ASSUME TypeInv, ListInv, ReadLine, ~ Regroup
  PROVE  ListInv'
<1>1. Numbered /\ Linked /\ Positioned /\ Fresh
  BY DEF ListInv
<1>2. \A g \in Groups : Len(sent[g]) \in Nat
                        /\ \A i \in 1 .. Len(sent[g]) : sent[g][i] \in Nat
  BY <1>1, WaitsOf
<1>3. CASE ReadNew
  <2>1. job' = job + 1 /\ job \in Int
    <3>1. job = job_number - 1 /\ job' = job_number /\ job_number \in 0 .. MaxJobs
      BY <1>3 DEF TypeInv, Types, ReadNew
    <3>2. MaxJobs \in Nat
      BY ConfigAssumption
    <3> QED BY <3>1, <3>2
  <2>2. \A g \in Groups : \A i \in 1 .. Len(sent[g]) : sent[g][i] < job'
    BY <2>1, <1>1, <1>2 DEF Numbered
  <2>3. \A g \in Groups : \A i \in 1 .. Len(sent[g]) : sent[g][i] =< job' /\ sent[g][i] # job'
    BY <2>1, <2>2, <1>2
  <2>4. Numbered'
    BY <1>1, <1>3, <2>3 DEF Numbered, ReadNew, lists, consumervars, Waits
  <2> QED BY <1>1, <1>3, <2>4 DEF ListInv, Linked, Positioned, Fresh, ReadNew, lists,
                                  consumervars, Waits
<1>4. CASE ReadPrinter
  <2>1. \A g \in Groups : \A i \in 1 .. Len(sent[g]) : sent[g][i] # job
    BY <1>4 DEF ReadPrinter, IsSent
  <2> QED BY <1>1, <1>4, <2>1 DEF ListInv, Numbered, Linked, Positioned, Fresh, ReadPrinter,
                                  lists, consumervars, Waits
<1>5. CASE ReadPrint \/ ReadExit \/ EndOfInput
  <2>1. UNCHANGED <<lists, consumervars, job, group>> /\ ppc = "read"
        /\ ppc' \notin Walking
    BY <1>5 DEF ReadPrint, ReadExit, EndOfInput, Walking
  <2>2. Numbered' /\ Linked'
    BY <1>1, <2>1, ListFrame DEF consumervars
  <2>3. Fresh'
    BY <1>1, <2>1, FreshFrame
  <2>4. Positioned'
    BY <2>1 DEF Positioned, Walking
  <2> QED BY <2>2, <2>3, <2>4 DEF ListInv
<1> QED BY <1>3, <1>4, <1>5 DEF ReadLine

\* The walk stays in the list, and stops at its last job.
LEMMA WalkKeepsListInv ==
  ASSUME TypeInv, ListInv, Walk \/ WalkOn
  PROVE  ListInv'
<1>1. Numbered /\ Linked /\ Positioned /\ Fresh /\ group \in Groups
  BY DEF ListInv, TypeInv, Walk, WalkOn, Busy, Holding, Walking
<1>2. UNCHANGED <<lists, consumervars, job, group>> /\ ppc # "terminate"
  BY DEF Walk, WalkOn
<1>3. Numbered' /\ Linked' /\ Fresh'
  BY <1>1, <1>2, ListFrame, FreshFrame DEF consumervars
<1>4. UNCHANGED Waits(group) /\ UNCHANGED <<sent, group>>
  BY <1>2 DEF Waits, lists, consumervars
<1>5. \A i \in Waits(group) : /\ i \in 1 .. Len(sent[group]) /\ i \in Nat
                              /\ sent[group][i] \in Jobs
  BY <1>1, WaitsOf
<1>6. Null \notin Jobs
  BY ConfigAssumption DEF Jobs, Null
<1>7. CASE Walk
  <2>1. Waits(group) = {} <=> head[group] = Null
    BY <1>1, <1>5, <1>6, WaitsOf DEF Linked
  <2>2. Waits(group) # {} => head[group] = sent[group][Len(printed[group]) + 1]
                             /\ Len(printed[group]) + 1 \in Waits(group)
    BY <1>1, WaitsOf DEF Linked
  <2>3. ppc' = "step" => \E i \in Waits(group) : tail' = sent[group][i]
    BY <1>7, <2>1, <2>2 DEF Walk
  <2>4. ppc' = "link" => tail' = Null /\ Waits(group) = {}
    BY <1>7, <2>1 DEF Walk
  <2>5. Positioned'
    BY <1>4, <1>7, <2>3, <2>4 DEF Positioned, Walk
  <2> QED BY <1>3, <2>5 DEF ListInv
<1>8. CASE WalkOn
  <2>1. PICK i \in Waits(group) : tail = sent[group][i]
    BY <1>1, <1>8 DEF Positioned, WalkOn
  <2>2. PICK m \in Nat : m = Len(sent[group])
    BY <1>1, WaitsOf
  <2>3. i \in 1 .. m /\ i \in Nat
    BY <1>5, <2>1, <2>2
  <2>4. CASE i = m
    <3>1. next_job[tail] = Null
      BY <1>1, <1>8, <2>1, <2>2, <2>4 DEF Linked, WalkOn
    <3>2. Positioned'
      BY <1>4, <1>8, <3>1, <2>1, <2>2, <2>4 DEF Positioned, WalkOn
    <3> QED BY <1>3, <3>2 DEF ListInv
  <2>5. CASE i < m
    <3>1. i + 1 \in Waits(group)
      BY <2>1, <2>2, <2>3, <2>5, <1>1, WaitsOf DEF Waits
    <3>2. next_job[tail] = sent[group][i + 1] /\ next_job[tail] # Null
      BY <1>1, <1>5, <1>6, <3>1, <2>1, <2>2, <2>5 DEF Linked
    <3>3. Positioned'
      BY <1>4, <1>8, <3>1, <3>2 DEF Positioned, WalkOn
    <3> QED BY <1>3, <3>3 DEF ListInv
  <2> QED BY <2>3, <2>4, <2>5
<1> QED BY <1>7, <1>8

\* A job that is not the last one goes behind the last one, or to the head of
\* an empty list; it is younger than those that wait there.
LEMMA AppendKeepsListInv ==
  ASSUME TypeInv, ListInv, Exclusion, Link, tail # job
  PROVE  ListInv'
<1> DEFINE m == Len(sent[group])
<1>1. Numbered /\ Linked /\ Positioned /\ Fresh /\ group \in Groups /\ job \in Jobs
  BY DEF ListInv, TypeInv, Link, Busy, Holding, Walking
<1>2. Null \notin Jobs /\ Jobs \subseteq Nat
  BY ConfigAssumption DEF Jobs, Null
<1>3. /\ m \in Nat /\ sent[group] \in Seq(Jobs)
      /\ sent \in [Groups -> Seq(Jobs)]
      /\ head \in [Groups -> Jobs \cup {Null}]
      /\ next_job \in [Jobs -> Jobs \cup {Null}]
  BY <1>1, WaitsOf DEF TypeInv, Types
\* What becomes of sent.
<1>4. /\ \A g \in Groups : g # group => sent'[g] = sent[g]
      /\ Len(sent'[group]) = m + 1 /\ sent'[group][m + 1] = job
      /\ \A i \in 1 .. m : sent'[group][i] = sent[group][i]
  <2>1. sent' = [sent EXCEPT ![group] = Append(sent[group], job)]
    BY DEF Link
  <2> QED BY <2>1, <1>1, <1>3, AppendProperties
<1>5. /\ UNCHANGED <<job, group, printed, cpc, cjob, cprev>>
      /\ ppc = "link" /\ ppc' = "terminate"
  BY DEF Link, consumervars
<1>6. \A g \in Groups : /\ Len(sent[g]) \in Nat /\ Len(printed[g]) \in Nat
                        /\ Len(printed[g]) =< Len(sent[g])
                        /\ \A i \in 1 .. Len(sent[g]) : sent[g][i] \in Jobs
  BY <1>1, WaitsOf
<1>7. /\ \A g \in Groups :
           Waits(g)' = IF g = group THEN Waits(g) \cup {m + 1} ELSE Waits(g)
      /\ \A i \in Waits(group) : i \in 1 .. m
  <2>1. PICK n \in Nat : n = Len(printed[group])
    BY <1>1, <1>6
  <2>2. n =< m
    BY <2>1, <1>1, <1>6
  <2>3. /\ Waits(group) = n + 1 .. m
        /\ \A g \in Groups : Waits(g)' = IF g = group THEN n + 1 .. m + 1 ELSE Waits(g)
    BY <2>1, <1>4, <1>5 DEF Waits
  <2>4. n + 1 .. m + 1 = (n + 1 .. m) \cup {m + 1}
    BY <2>2, <1>3
  <2>5. \A i \in n + 1 .. m : i \in 1 .. m
    OBVIOUS
  <2> QED BY <2>3, <2>4, <2>5
\* The new job is younger than those that wait.
<1>8. \A i \in Waits(group) : sent[group][i] < job
  <2> SUFFICES ASSUME NEW i \in Waits(group) PROVE sent[group][i] < job
    OBVIOUS
  <2>1. m \in Waits(group) /\ m \in 1 .. m /\ i \in 1 .. m
    BY <1>1, <1>7, WaitsOf
  <2>2. sent[group][m] # job /\ sent[group][m] =< job
    BY <2>1, <1>1, <1>5 DEF Numbered, Positioned
  <2>3. i < m => sent[group][i] < sent[group][m]
    BY <2>1, <1>1 DEF Numbered
  <2>4. sent[group][i] \in Nat /\ sent[group][m] \in Nat /\ job \in Nat
    BY <2>1, <1>1, <1>2, <1>6
  <2>5. i = m \/ i < m
    BY <2>1
  <2> QED BY <2>2, <2>3, <2>4, <2>5
<1> HIDE DEF m
<1>9. Numbered'
  <2>1. \A g \in Groups : Len(printed'[g]) =< Len(sent'[g])
    <3>1. \A x, y \in Nat : x =< y => x =< y + 1
      OBVIOUS
    <3> QED BY <3>1, <1>1, <1>3, <1>4, <1>5, <1>6 DEF m
  <2>2. \A g \in Groups : \A i \in 1 .. Len(sent'[g]) :
          IF g = group /\ i = m + 1 THEN sent'[g][i] = job
          ELSE i \in 1 .. Len(sent[g]) /\ sent'[g][i] = sent[g][i]
    BY <1>3, <1>4 DEF m
  <2>3. \A g \in Groups : \A i \in 1 .. Len(sent'[g]) :
          sent'[g][i] =< job /\ (sent'[g][i] = job => g = group)
    <3>1. job =< job
      BY <1>1, <1>2
    <3> QED BY <2>2, <3>1, <1>1 DEF Numbered
  <2>4. \A g, h \in Groups : \A i \in 1 .. Len(sent'[g]), k \in 1 .. Len(sent'[h]) :
          sent'[g][i] = sent'[h][k] => g = h
    BY <2>2, <2>3, <1>1 DEF Numbered
  <2>5. ASSUME NEW g \in Groups, NEW i \in Waits(g)', NEW k \in Waits(g)', i < k
        PROVE  sent'[g][i] < sent'[g][k]
    <3>1. CASE g # group
      BY <3>1, <2>5, <1>1, <1>4, <1>7 DEF Numbered
    <3>2. CASE g = group /\ k = m + 1
      <4>1. i \in Waits(group) /\ i \in 1 .. m
        BY <3>2, <2>5, <1>3, <1>7
      <4> QED BY <4>1, <3>2, <1>4, <1>8 DEF m
    <3>3. CASE g = group /\ k # m + 1
      <4>1. k \in Waits(group) /\ k \in 1 .. m
        BY <3>3, <1>7
      <4>2. i \in Waits(group) /\ i \in 1 .. m
        BY <3>3, <4>1, <2>5, <1>3, <1>7
      <4> QED BY <4>1, <4>2, <3>3, <2>5, <1>1, <1>4 DEF Numbered, m
    <3> QED BY <3>1, <3>2, <3>3
  <2> QED BY <2>1, <2>3, <2>4, <2>5, <1>5 DEF Numbered
\* Jobs of other lists are not the tail.
<1>10. ASSUME NEW g \in Groups, g # group, NEW i \in Waits(g)
       PROVE  sent[g][i] # tail
  <2>1. i \in 1 .. Len(sent[g]) /\ sent[g][i] \in Jobs
    BY <1>1, WaitsOf
  <2>2. CASE Waits(group) = {}
    BY <2>1, <2>2, <1>1, <1>2, <1>5 DEF Positioned
  <2>3. CASE Waits(group) # {}
    <3>1. m \in 1 .. m /\ tail = sent[group][m]
      BY <2>3, <1>1, <1>5, WaitsOf DEF Positioned, m
    <3> QED BY <3>1, <2>1, <1>1, <1>10 DEF Numbered, m
  <2> QED BY <2>2, <2>3
<1>11. \A g \in Groups : \A i \in Waits(g) :
         g # group => next_job'[sent[g][i]] = next_job[sent[g][i]]
  <2>1. next_job' = next_job \/ next_job' = [next_job EXCEPT ![tail] = job]
    BY DEF Link
  <2>2. \A g \in Groups : \A i \in Waits(g) : sent[g][i] \in Jobs
    BY <1>1, WaitsOf
  <2> QED BY <2>1, <2>2, <1>3, <1>10
<1>12. \A g \in Groups : g # group => head'[g] = head[g]
  <2>1. head' = head \/ head' = [head EXCEPT ![group] = job]
    BY DEF Link
  <2> QED BY <2>1, <1>3
<1>13. Linked'
  <2>1. ASSUME NEW g \in Groups
        PROVE  head'[g] = IF Waits(g)' = {} THEN Null ELSE sent'[g][Len(printed'[g]) + 1]
    <3>1. CASE g # group
      BY <3>1, <1>1, <1>4, <1>5, <1>7, <1>12 DEF Linked
    <3>2. CASE g = group /\ Waits(group) = {}
      <4>1. tail = Null
        BY <3>2, <1>1, <1>5 DEF Positioned
      <4>2. head'[group] = job
        BY <4>1, <1>1, <1>3 DEF Link
      <4>3. Len(printed[group]) = m
        BY <3>2, <1>1, WaitsOf DEF m
      <4> QED BY <3>2, <4>2, <4>3, <1>4, <1>5, <1>7 DEF m
    <3>3. CASE g = group /\ Waits(group) # {}
      <4>1. m \in 1 .. m /\ tail = sent[group][m] /\ Len(printed[group]) + 1 \in Waits(group)
        BY <3>3, <1>1, <1>5, WaitsOf DEF Positioned, m
      <4>2. tail # Null
        BY <4>1, <1>1, <1>2, <1>6 DEF m
      <4>3. head' = head
        BY <4>2 DEF Link
      <4>4. Len(printed[group]) + 1 \in 1 .. m
        BY <4>1, <1>7 DEF m
      <4> QED BY <3>3, <4>1, <4>3, <4>4, <1>1, <1>4, <1>5, <1>7 DEF Linked, m
    <3> QED BY <3>1, <3>2, <3>3
  <2>2. ASSUME NEW i \in Waits(group) \cup {m + 1}, i < m + 1
        PROVE  next_job'[sent'[group][i]] = sent'[group][i + 1]
    <3>1. i \in Waits(group) /\ i \in 1 .. m
      BY <2>2, <1>3, <1>7
    <3>2. m \in Waits(group) /\ m \in 1 .. m /\ tail = sent[group][m]
      BY <3>1, <1>1, <1>5, WaitsOf DEF Positioned, m
    <3>3. tail \in Jobs /\ tail # Null /\ sent[group][i] \in Jobs
      BY <3>1, <3>2, <1>1, <1>2, <1>6 DEF m
    <3>4. next_job' = [next_job EXCEPT ![tail] = job]
      BY <3>3 DEF Link
    <3>5. CASE i = m
      BY <3>1, <3>2, <3>3, <3>4, <3>5, <1>3, <1>4 DEF m
    <3>6. CASE i < m
      <4>1. sent[group][i] < sent[group][m]
        BY <3>1, <3>2, <3>6, <1>1 DEF Numbered
      <4>2. sent[group][i] # tail
        BY <4>1, <3>2, <3>3, <1>2
      <4>3. next_job'[sent[group][i]] = sent[group][i + 1]
        BY <4>2, <3>1, <3>3, <3>4, <3>6, <1>1, <1>3 DEF Linked, m
      <4>4. i + 1 \in 1 .. m
        BY <3>1, <3>6, <1>3 DEF m
      <4> QED BY <4>3, <4>4, <3>1, <1>4 DEF m
    <3> QED BY <3>1, <3>5, <3>6, <1>3 DEF m
  <2>3. \A g \in Groups : \A i \in Waits(g)' :
          i < Len(sent'[g]) => next_job'[sent'[g][i]] = sent'[g][i + 1]
    BY <2>2, <1>1, <1>4, <1>7, <1>11 DEF Linked, m
  <2>4. \A g \in Groups : \A i \in Waits(g)' :
          i = Len(sent'[g]) => next_job'[sent'[g][i]] = Null \/ g = group
    BY <1>1, <1>4, <1>5, <1>7, <1>11 DEF Linked
  <2> QED BY <2>1, <2>3, <2>4, <1>5 DEF Linked
<1>14. Positioned'
  <2>1. m + 1 \in Len(printed'[group]) + 1 .. Len(sent'[group])
    BY <1>1, <1>7 DEF Waits
  <2> QED BY <2>1, <1>4, <1>5 DEF Positioned, Waits
<1>15. Fresh'
  <2> SUFFICES ASSUME NEW p \in Printers, cpc[p] = "unlink"
               PROVE  /\ Waits(GroupOf[p])' # {}
                      /\ cjob[p] = head'[GroupOf[p]]
                      /\ cprev[p] = next_job'[head'[GroupOf[p]]]
    BY <1>5 DEF Fresh
  <2> DEFINE g == GroupOf[p]
  <2>1. g # group /\ g \in Groups
    BY <1>5, ProducerAlone, ConfigAssumption DEF Critical, Holding, Walking
  <2>2. /\ Waits(g) # {} /\ cjob[p] = head[g] /\ cprev[p] = next_job[head[g]]
    BY <1>1 DEF Fresh
  <2>3. head[g] = sent[g][Len(printed[g]) + 1] /\ Len(printed[g]) + 1 \in Waits(g)
    BY <2>1, <2>2, <1>1, WaitsOf DEF Linked
  <2> QED BY <2>1, <2>2, <2>3, <1>7, <1>11, <1>12
<1> QED BY <1>9, <1>13, <1>14, <1>15 DEF ListInv

\* When the producer's job is the last of its list it is nowhere else among the
\* jobs that wait, in any list.
LEMMA LastOnly ==
  ASSUME TypeInv, Numbered, group \in Groups, job \in Jobs, Waits(group) # {},
         sent[group][Len(sent[group])] = job
  PROVE  \A g \in Groups : \A i \in Waits(g) :
           /\ i \in 1 .. Len(sent[g]) /\ sent[g][i] \in Jobs
           /\ g # group => sent[g][i] # job
           /\ g = group /\ i < Len(sent[g]) => sent[g][i] # job
<1> SUFFICES ASSUME NEW g \in Groups, NEW i \in Waits(g)
             PROVE  /\ i \in 1 .. Len(sent[g]) /\ sent[g][i] \in Jobs
                    /\ g # group => sent[g][i] # job
                    /\ g = group /\ i < Len(sent[g]) => sent[g][i] # job
  OBVIOUS
<1>1. i \in 1 .. Len(sent[g]) /\ sent[g][i] \in Jobs
  BY WaitsOf
<1>2. g # group => sent[g][i] # job
  BY <1>1 DEF Numbered
<1>3. ASSUME g = group, i < Len(sent[g]) PROVE sent[g][i] # job
  <2>1. Len(sent[g]) \in Waits(g)
    BY <1>3, WaitsOf
  <2>2. sent[g][i] < job
    BY <2>1, <1>3 DEF Numbered
  <2>3. sent[g][i] \in Nat /\ job \in Nat
    BY <1>1, ConfigAssumption DEF Jobs
  <2> QED BY <2>2, <2>3
<1> QED BY <1>1, <1>2, <1>3

\* Linking the last job behind itself closes a ring, which only the producer
\* can meet until it sets the next_job to NULL again.
LEMMA RelinkKeepsListInv ==
  ASSUME TypeInv, ListInv, Exclusion, Link, tail = job
  PROVE  ListInv'
<1>1. Numbered /\ Linked /\ Positioned /\ Fresh /\ group \in Groups /\ job \in Jobs
  BY DEF ListInv, TypeInv, Link, Busy, Holding, Walking
<1>2. Null \notin Jobs /\ Jobs \subseteq Nat
  BY ConfigAssumption DEF Jobs, Null
<1>3. next_job' = [next_job EXCEPT ![job] = job] /\ next_job \in [Jobs -> Jobs \cup {Null}]
  BY <1>1, <1>2 DEF Link, TypeInv, Types
<1>4. UNCHANGED <<head, sent, printed, job, group, cpc, cjob, cprev>>
      /\ ppc = "link" /\ ppc' = "terminate"
  BY <1>1, <1>2 DEF Link, consumervars
<1>5. Waits(group) # {} /\ sent[group][Len(sent[group])] = job
  BY <1>1, <1>2, <1>4 DEF Positioned
<1>6. \A g \in Groups : Waits(g)' = Waits(g)
  BY <1>4 DEF Waits
<1>7. \A g \in Groups : \A i \in Waits(g) :
        /\ i \in 1 .. Len(sent[g]) /\ sent[g][i] \in Jobs
        /\ g # group => sent[g][i] # job
        /\ g = group /\ i < Len(sent[g]) => sent[g][i] # job
  BY <1>1, <1>5, LastOnly
<1>8. \A g \in Groups : \A i \in Waits(g) :
        g # group \/ i < Len(sent[g]) => next_job'[sent[g][i]] = next_job[sent[g][i]]
  BY <1>1, <1>3, <1>7
<1>9. Numbered'
  BY <1>1, <1>4, <1>6 DEF Numbered
<1>10. Linked'
  <2>1. \A g \in Groups : \A i \in Waits(g)' :
          i < Len(sent'[g]) => next_job'[sent'[g][i]] = sent'[g][i + 1]
    BY <1>1, <1>4, <1>6, <1>8 DEF Linked
  <2>2. \A g \in Groups : \A i \in Waits(g)' :
          i = Len(sent'[g]) => next_job'[sent'[g][i]] = Null \/ g = group
    BY <1>1, <1>4, <1>6, <1>8 DEF Linked
  <2> QED BY <1>1, <1>4, <1>6, <2>1, <2>2 DEF Linked
<1>11. Positioned'
  BY <1>4, <1>5 DEF Positioned, Waits
<1>12. Fresh'
  <2> SUFFICES ASSUME NEW p \in Printers, cpc[p] = "unlink"
               PROVE  /\ Waits(GroupOf[p])' # {}
                      /\ cjob[p] = head[GroupOf[p]]
                      /\ cprev[p] = next_job'[head[GroupOf[p]]]
    BY <1>4 DEF Fresh
  <2> DEFINE g == GroupOf[p]
  <2>1. g # group /\ g \in Groups
    BY <1>4, ProducerAlone, ConfigAssumption DEF Critical, Holding, Walking
  <2>2. /\ Waits(g) # {} /\ cjob[p] = head[g] /\ cprev[p] = next_job[head[g]]
    BY <1>1 DEF Fresh
  <2>3. head[g] = sent[g][Len(printed[g]) + 1] /\ Len(printed[g]) + 1 \in Waits(g)
    BY <2>1, <2>2, <1>1, WaitsOf DEF Linked
  <2> QED BY <2>1, <2>2, <2>3, <1>6, <1>8
<1> QED BY <1>9, <1>10, <1>11, <1>12 DEF ListInv

\* With its next_job NULL the last job ends the list; no other list has it.
LEMMA TerminateKeepsListInv ==
  ASSUME TypeInv, ListInv, Exclusion, Terminate
  PROVE  ListInv'
<1>1. Numbered /\ Linked /\ Positioned /\ Fresh /\ group \in Groups /\ job \in Jobs
  BY DEF ListInv, TypeInv, Terminate, Busy, Holding, Walking
<1>2. next_job' = [next_job EXCEPT ![job] = Null] /\ next_job \in [Jobs -> Jobs \cup {Null}]
  BY DEF Terminate, TypeInv, Types
<1>3. UNCHANGED <<head, sent, printed, job, group, cpc, cjob, cprev>>
      /\ ppc = "terminate" /\ ppc' = "unlock"
  BY DEF Terminate, consumervars
<1>4. Waits(group) # {} /\ sent[group][Len(sent[group])] = job
  BY <1>1, <1>3 DEF Positioned
<1>5. \A g \in Groups : Waits(g)' = Waits(g)
  BY <1>3 DEF Waits
<1>6. \A g \in Groups : \A i \in Waits(g) :
        /\ i \in 1 .. Len(sent[g]) /\ sent[g][i] \in Jobs
        /\ g # group => sent[g][i] # job
        /\ g = group /\ i < Len(sent[g]) => sent[g][i] # job
  BY <1>1, <1>4, LastOnly
<1>7. \A g \in Groups : \A i \in Waits(g) :
        g # group \/ i < Len(sent[g]) => next_job'[sent[g][i]] = next_job[sent[g][i]]
  BY <1>1, <1>2, <1>6
<1>8. Numbered'
  BY <1>1, <1>3, <1>5 DEF Numbered
<1>9. Linked'
  <2>1. \A g \in Groups : \A i \in Waits(g)' :
          i < Len(sent'[g]) => next_job'[sent'[g][i]] = sent'[g][i + 1]
    BY <1>1, <1>3, <1>5, <1>7 DEF Linked
  <2>2. \A g \in Groups : \A i \in Waits(g)' :
          i = Len(sent'[g]) => next_job'[sent'[g][i]] = Null
    BY <1>1, <1>2, <1>3, <1>4, <1>5, <1>7 DEF Linked
  <2> QED BY <1>1, <1>3, <1>5, <2>1, <2>2 DEF Linked
<1>10. Positioned'
  BY <1>3 DEF Positioned
<1>11. Fresh'
  <2> SUFFICES ASSUME NEW p \in Printers, cpc[p] = "unlink"
               PROVE  /\ Waits(GroupOf[p])' # {}
                      /\ cjob[p] = head[GroupOf[p]]
                      /\ cprev[p] = next_job'[head[GroupOf[p]]]
    BY <1>3 DEF Fresh
  <2> DEFINE g == GroupOf[p]
  <2>1. g # group /\ g \in Groups
    BY <1>3, ProducerAlone, ConfigAssumption DEF Critical, Holding, Walking
  <2>2. /\ Waits(g) # {} /\ cjob[p] = head[g] /\ cprev[p] = next_job[head[g]]
    BY <1>1 DEF Fresh
  <2>3. head[g] = sent[g][Len(printed[g]) + 1] /\ Len(printed[g]) + 1 \in Waits(g)
    BY <2>1, <2>2, <1>1, WaitsOf DEF Linked
  <2> QED BY <2>1, <2>2, <2>3, <1>5, <1>7
<1> QED BY <1>8, <1>9, <1>10, <1>11 DEF ListInv

\* The other steps of the producer leave the lists alone.
LEMMA OtherWorkKeepsListInv ==
  ASSUME TypeInv, ListInv, Lock \/ UnlockList \/ CountUp \/ Signal \/ Drained
  PROVE  ListInv'
<1>1. /\ UNCHANGED <<lists, printed, job, group, cjob, cprev>>
      /\ ppc # "terminate" /\ ppc' \notin {"step", "link", "terminate"}
  BY DEF Lock, UnlockList, CountUp, Signal, Drained, consumervars
<1>2. \A p \in Printers : cpc'[p] = "unlink" => cpc[p] = "unlink"
  BY DEF TypeInv, Types, Lock, UnlockList, CountUp, Signal, Drained, consumervars
<1>3. Numbered' /\ Linked'
  BY <1>1, ListFrame DEF ListInv
<1>4. Positioned'
  BY <1>1 DEF Positioned
<1>5. Fresh'
  BY <1>1, <1>2 DEF ListInv, Fresh, Waits, lists
<1> QED BY <1>3, <1>4, <1>5 DEF ListInv

\* Nobody changes a list between the reads of a consumer.
LEMMA TakeKeepsListInv ==
  ASSUME TypeInv, ListInv, NEW p \in Printers, Take(p)
  PROVE  ListInv'
<1>1. /\ UNCHANGED <<lists, printed, producervars>>
      /\ cjob' = [cjob EXCEPT ![p] = head[GroupOf[p]]]
      /\ cprev' = [cprev EXCEPT ![p] = next_job[head[GroupOf[p]]]]
      /\ cpc' = [cpc EXCEPT ![p] = "unlink"]
      /\ GroupOf[p] \in Groups
  BY ConfigAssumption DEF Take, Step, ofproducer, lists
<1>2. Waits(GroupOf[p]) # {}
  BY <1>1 DEF ListInv, Linked, Take
<1>3. /\ cjob \in [Printers -> Jobs \cup {Null}]
      /\ cprev \in [Printers -> Jobs \cup {Null}]
      /\ DOMAIN cpc = Printers
  BY DEF TypeInv, Types
<1>4. Fresh'
  BY <1>1, <1>2, <1>3 DEF ListInv, Fresh, Waits, lists
<1>5. Numbered' /\ Linked' /\ Positioned'
  BY <1>1, ListFrame DEF ListInv, Positioned, Waits, lists, producervars
<1> QED BY <1>4, <1>5 DEF ListInv

\* The head moves on to the job behind it, which the consumer read before.
LEMMA UnlinkKeepsListInv ==
  ASSUME OnePrinterPerGroup, TypeInv, ListInv, Exclusion, NEW p \in Printers, Unlink(p)
  PROVE  ListInv'
<1> DEFINE g == GroupOf[p]
           n == Len(printed[g])
<1>1. Numbered /\ Linked /\ Positioned /\ Fresh /\ g \in Groups
  BY ConfigAssumption DEF ListInv
<1>2. /\ UNCHANGED <<sent, next_job, ppc, job, group, tail, cjob, cprev>>
      /\ head' = [head EXCEPT ![g] = cprev[p]]
      /\ printed' = [printed EXCEPT ![g] = Append(@, cjob[p])]
      /\ cpc' = [cpc EXCEPT ![p] = "count"]
      /\ cpc[p] = "unlink"
  BY DEF Unlink, Step, ofproducer, producervars
<1>3. /\ DOMAIN cpc = Printers
      /\ DOMAIN head = Groups
      /\ printed \in [Groups -> Seq(Jobs)]
      /\ printed[g] \in Seq(Jobs) /\ n \in Nat
  BY <1>1, WaitsOf DEF TypeInv, Types
<1>4. /\ Len(printed'[g]) = n + 1
      /\ \A h \in Groups : h # g => printed'[h] = printed[h]
  <2>1. printed'[g] = Append(printed[g], cjob[p]) /\ cjob[p] \in Jobs
    BY <1>1, <1>2, <1>3 DEF TypeInv
  <2> QED BY <2>1, <1>2, <1>3, AppendProperties
<1>5. g # group \/ ppc \notin Walking
  BY <1>2, ProducerAlone DEF Holding, Critical
<1>6. n + 1 \in Waits(g) /\ n < Len(sent[g]) /\ Len(sent[g]) \in Nat
  BY <1>1, <1>2, WaitsOf DEF Fresh
<1>7. \A h \in Groups : Waits(h)' = IF h = g THEN n + 2 .. Len(sent[g]) ELSE Waits(h)
  BY <1>1, <1>2, <1>3, <1>4 DEF Waits
<1>8. n + 2 .. Len(sent[g]) \subseteq Waits(g)
  BY <1>3, <1>6 DEF Waits
<1>9. Numbered'
  <2>1. \A h \in Groups : Len(printed'[h]) =< Len(sent[h])
    BY <1>1, <1>3, <1>4, <1>6 DEF Numbered
  <2> QED BY <1>1, <1>2, <1>7, <1>8, <2>1 DEF Numbered
<1>10. Linked'
  <2>1. head'[g] = IF n + 2 .. Len(sent[g]) = {} THEN Null ELSE sent[g][n + 2]
    <3>1. head'[g] = next_job[sent[g][n + 1]]
      BY <1>1, <1>2, <1>3, <1>6 DEF Linked, Fresh
    <3>2. CASE n + 1 = Len(sent[g])
      <4>1. next_job[sent[g][n + 1]] = Null
        BY <3>2, <1>1, <1>5, <1>6 DEF Linked, Walking
      <4>2. n + 2 .. Len(sent[g]) = {}
        BY <3>2, <1>3
      <4> QED BY <3>1, <4>1, <4>2
    <3>3. CASE n + 1 < Len(sent[g])
      <4>1. next_job[sent[g][n + 1]] = sent[g][(n + 1) + 1]
        BY <3>3, <1>1, <1>6 DEF Linked
      <4>2. n + 2 \in n + 2 .. Len(sent[g]) /\ (n + 1) + 1 = n + 2
        BY <3>3, <1>3, <1>6
      <4> QED BY <3>1, <4>1, <4>2
    <3> QED BY <3>2, <3>3, <1>3, <1>6
  <2>2. \A h \in Groups :
          head'[h] = IF Waits(h)' = {} THEN Null ELSE sent[h][Len(printed'[h]) + 1]
    <3>1. (n + 1) + 1 = n + 2
      BY <1>3
    <3>2. \A h \in Groups : h # g => head'[h] = head[h]
      BY <1>2, <1>3
    <3> QED BY <2>1, <3>1, <3>2, <1>1, <1>2, <1>4, <1>7, ZenonT(30) DEF Linked
  <2>3. \A h \in Groups : \A i \in Waits(h)' : i \in Waits(h)
    BY <1>7, <1>8
  <2> QED BY <2>2, <2>3, <1>1, <1>2 DEF Linked
<1>11. Positioned'
  BY <1>1, <1>2, <1>4, <1>5 DEF Positioned, Waits, Walking, TypeInv, Busy, Holding
<1>12. Fresh'
  <2>1. \A q \in Printers : cpc'[q] = "unlink" => /\ cpc[q] = "unlink" /\ GroupOf[q] # g
                                                /\ GroupOf[q] \in Groups
    BY <1>2, <1>3, ConfigAssumption DEF OnePrinterPerGroup
  <2> QED BY <2>1, <1>1, <1>2, <1>3, <1>7 DEF Fresh
<1> QED BY <1>9, <1>10, <1>11, <1>12 DEF ListInv

\* The steps of a consumer in which it reads or waits keep the lists as they are.
LEMMA OtherConsumerKeepsListInv ==
  ASSUME TypeInv, ListInv, NEW p \in Printers,
         Test(p) \/ EnterWait(p) \/ TimeOut(p) \/ Reacquire(p) \/ Look(p)
           \/ CountDown(p) \/ Unlock(p)
  PROVE  ListInv'
<1>1. UNCHANGED <<lists, printed, producervars, cjob, cprev>>
  BY DEF Test, EnterWait, TimeOut, Reacquire, Look, CountDown, Unlock, ofproducer, lists
<1>2. \A q \in Printers : cpc'[q] = "unlink" => cpc[q] = "unlink"
  <2>1. \E next : next # "unlink" /\ cpc' = [cpc EXCEPT ![p] = next]
    BY DEF Test, EnterWait, TimeOut, Reacquire, Look, CountDown, Unlock, Step
  <2>2. DOMAIN cpc = Printers
    BY DEF TypeInv, Types
  <2> QED BY <2>1, <2>2
<1> QED BY <1>1, <1>2, ListFrame
        DEF ListInv, Positioned, Fresh, Waits, lists, producervars

\* With one printer in each group the lists hold what is pending, step by step.
LEMMA ListInvHolds ==
  OnePrinterPerGroup /\ ~ Regroup => (Spec => [](TypeInv /\ Exclusion /\ ListInv))
<1> SUFFICES ASSUME OnePrinterPerGroup, ~ Regroup
             PROVE  Spec => [](TypeInv /\ Exclusion /\ ListInv)
  OBVIOUS
<1>1. Init => ListInv
  <2> SUFFICES ASSUME Init PROVE ListInv
    OBVIOUS
  <2>1. \A g \in Groups : /\ head[g] = Null /\ Len(sent[g]) = 0 /\ Len(printed[g]) = 0
                          /\ 1 .. Len(sent[g]) = {} /\ Waits(g) = {}
    <3>1. Len(<<>>) = 0 /\ 1 .. 0 = {} /\ 0 + 1 .. 0 = {}
      OBVIOUS
    <3> QED BY <3>1 DEF Init, Waits
  <2>2. ppc = "read" /\ \A p \in Printers : cpc[p] = "test"
    BY DEF Init
  <2> QED BY <2>1, <2>2 DEF ListInv, Numbered, Linked, Positioned, Fresh
<1>2. TypeInv /\ Exclusion /\ ListInv /\ [Next]_vars => ListInv'
  <2> SUFFICES ASSUME TypeInv, Exclusion, ListInv, [Next]_vars PROVE ListInv'
    OBVIOUS
  <2>1. CASE ReadLine
    BY <2>1, ReadKeepsListInv
  <2>2. CASE Lock \/ Work
    BY <2>2, WalkKeepsListInv, AppendKeepsListInv, RelinkKeepsListInv,
       TerminateKeepsListInv, OtherWorkKeepsListInv
    DEF Work
  <2>3. ASSUME NEW p \in Printers, Reacquire(p) \/ Consumer(p) PROVE ListInv'
    BY <2>3, TakeKeepsListInv, UnlinkKeepsListInv, OtherConsumerKeepsListInv
    DEF Consumer
  <2>4. CASE Main \/ UNCHANGED vars
    <3>1. UNCHANGED <<lists, printed, job, group, tail, ppc, cpc, cjob, cprev>>
      BY <2>4 DEF Main, JoinProducer, TearDown, vars, producervars, consumervars
    <3> QED BY <3>1, ListFrame DEF ListInv, Positioned, Fresh, Waits, lists
  <2> QED BY <2>1, <2>2, <2>3, <2>4 DEF Next
<1> QED BY <1>1, <1>2, ExclusionHolds, PTL DEF Spec

\* Wherever the threads are interrupted, head and next_job lead through just the
\* jobs that were sent and not yet printed, in their order.
THEOREM ListsArePending ==
  OnePrinterPerGroup /\ ~ Regroup => (Spec => []ListIsPending)
<1> SUFFICES ASSUME OnePrinterPerGroup, ~ Regroup PROVE Spec => []ListIsPending
  OBVIOUS
<1>1. TypeInv /\ ListInv => ListIsPending
  <2> SUFFICES ASSUME TypeInv, ListInv, ppc # "terminate", NEW g \in Groups
               PROVE  ListIs(g, Pending(g))
    BY DEF ListIsPending
  <2>1. Numbered /\ Linked
    BY DEF ListInv
  <2>2. PICK m \in Nat, n \in Nat :
          m = Len(sent[g]) /\ n = Len(printed[g]) /\ n =< m
    BY <2>1, WaitsOf
  <2>3. sent[g] \in Seq(Jobs) /\ Waits(g) = n + 1 .. m
    BY <2>1, <2>2, WaitsOf DEF Waits
  <2>4. \A i \in n + 1 .. m : sent[g][i] \in Jobs
    BY <2>1, <2>3, WaitsOf
  <2>9. Pending(g) = Behind(sent[g], n) /\ n \in 0 .. m
    BY <2>2 DEF Pending, Behind
  <2>5. /\ Len(Pending(g)) = m - n
        /\ \A i \in 1 .. m - n : Pending(g)[i] = sent[g][n + i]
    <3>1. Len(Behind(sent[g], n)) = m - n
      BY <2>2, <2>3, <2>9, BehindType
    <3>2. \A i \in 1 .. m - n : Behind(sent[g], n)[i] = sent[g][n + i]
      BY <2>2, <2>3, <2>9, BehindElement
    <3> QED BY <3>1, <3>2, <2>9
  <2>6. Pending(g) = <<>> <=> n = m
    BY <2>2, <2>3, <2>9, BehindEmpty
  <2>7. head[g] = IF Pending(g) = <<>> THEN Null ELSE Pending(g)[1]
    <3>1. head[g] = IF n + 1 .. m = {} THEN Null ELSE sent[g][n + 1]
      BY <2>1, <2>2, <2>3 DEF Linked
    <3>2. n = m => n + 1 .. m = {}
      BY <2>2
    <3>3. n # m => n + 1 \in n + 1 .. m /\ 1 \in 1 .. m - n
      BY <2>2
    <3> QED BY <2>5, <2>6, <3>1, <3>2, <3>3
  <2>8. ASSUME NEW i \in 1 .. m - n
        PROVE  next_job[Pending(g)[i]] = IF i < m - n THEN Pending(g)[i + 1] ELSE Null
    <3>1. n + i \in Waits(g) /\ Pending(g)[i] = sent[g][n + i]
      BY <2>2, <2>3, <2>5
    <3>4. i \in 1 .. m - n /\ m \in Nat /\ n \in Nat
      BY <2>2
    <3>2. CASE i < m - n
      <4>1. n + i < m /\ (n + i) + 1 = n + (i + 1) /\ i + 1 \in 1 .. m - n
        BY <3>2, <3>4
      <4>2. next_job[sent[g][n + i]] = sent[g][(n + i) + 1]
        BY <3>1, <4>1, <2>1, <2>2 DEF Linked
      <4>3. Pending(g)[i + 1] = sent[g][n + (i + 1)]
        BY <4>1, <2>5
      <4> QED BY <3>1, <3>2, <4>1, <4>2, <4>3
    <3>3. CASE ~ (i < m - n)
      <4>1. n + i = m
        BY <3>3, <3>4
      <4>2. next_job[sent[g][m]] = Null
        BY <3>1, <4>1, <2>1, <2>2 DEF Linked
      <4> QED BY <3>1, <3>3, <4>1, <4>2
    <3> QED BY <3>2, <3>3
  <2> QED BY <2>5, <2>7, <2>8 DEF ListIs
<1> QED BY <1>1, ListInvHolds, PTL

-----------------------------------------------------------------------------
(***************************************************************************)
(* The count of the jobs.                                                  *)
(***************************************************************************)

\* The counts, as numbers.
LEMMA SupplyNumbers ==
  ASSUME TypeInv, SupplyInv
  PROVE  /\ Cardinality(Owed) \in Nat /\ Cardinality(Counting) \in Nat
         /\ Uncounted \in {0, 1} /\ supply \in Int
BY FS_CardinalityType DEF SupplyInv, TypeInv, Types, Uncounted

\* A step that links no job, takes none and counts none.
LEMMA SupplyFrame ==
  ASSUME SupplyInv, UNCHANGED <<sent, printed, supply, exit_flag>>,
         \A p \in Printers : cpc'[p] = "count" <=> cpc[p] = "count",
         Uncounted' = Uncounted,
         exit_flag => ppc' \in {"drain", "returned"},
         exit_flag /\ ppc' = "returned" => ppc = "returned"
  PROVE  SupplyInv'
<1>1. \A g \in Groups : Waits(g)' = Waits(g)
  BY DEF Waits
<1>2. Owed' = Owed
  BY <1>1 DEF Owed
<1>3. Counting' = Counting
  BY DEF Counting
<1> QED BY <1>2, <1>3 DEF SupplyInv

\* EXIT is read when every job that was linked is counted.
LEMMA ReadKeepsSupplyInv ==
  ASSUME TypeInv, SupplyInv, ReadLine
  PROVE  SupplyInv'
<1>1. /\ UNCHANGED <<sent, printed, supply, cpc>>
      /\ ppc = "read" /\ ppc' \in {"read", "lock", "drain", "returned"}
      /\ ~ exit_flag /\ (exit_flag' => ppc' = "drain")
  BY DEF SupplyInv, ReadLine, ReadNew, ReadPrinter, ReadPrint, ReadExit, EndOfInput, lists,
         consumervars
<1>2. \A g \in Groups : Waits(g)' = Waits(g)
  BY <1>1 DEF Waits
<1>3. Owed' = Owed /\ Counting' = Counting /\ Uncounted' = Uncounted
  BY <1>1, <1>2 DEF Owed, Counting, Uncounted
<1> QED BY <1>1, <1>3 DEF SupplyInv

\* A job that is linked is owed at once and counted later.
LEMMA LinkKeepsSupplyInv ==
  ASSUME TypeInv, ListInv, SupplyInv, Link
  PROVE  SupplyInv'
<1>1. /\ Cardinality(Owed) \in Nat /\ Cardinality(Counting) \in Nat /\ supply \in Int
      /\ Uncounted = 0 /\ Uncounted' = 1
      /\ Cardinality(Owed) + Cardinality(Counting) =< supply + Uncounted
      /\ IsFiniteSet(Owed) /\ IsFiniteSet(Counting)
      /\ ~ exit_flag
  BY SupplyNumbers DEF SupplyInv, Uncounted, Link
<1>2. UNCHANGED <<printed, supply, exit_flag, cpc>>
  BY DEF Link, consumervars
<1>3. Counting' = Counting
  BY <1>2 DEF Counting
<1>4. IsFiniteSet(Owed') /\ Cardinality(Owed') =< Cardinality(Owed) + 1
  <2>1. CASE tail = job
    <3>1. \A g \in Groups : Waits(g)' = Waits(g)
      BY <1>2, <2>1 DEF Waits, Link
    <3>2. Owed' = Owed
      BY <3>1 DEF Owed
    <3> QED BY <3>2, <1>1
  <2>2. CASE tail # job
    <3> DEFINE m == Len(sent[group])
    <3>1. /\ m \in Nat /\ sent[group] \in Seq(Jobs) /\ Len(printed[group]) \in Nat
          /\ Len(printed[group]) =< m
          /\ group \in Groups /\ job \in Jobs /\ sent \in [Groups -> Seq(Jobs)]
      BY WaitsOf DEF ListInv, TypeInv, Types, Link, Busy, Holding, Walking
    <3>2. /\ \A g \in Groups : g # group => sent'[g] = sent[g]
          /\ Len(sent'[group]) = m + 1
      BY <2>2, <3>1, AppendProperties DEF Link
    <3>3. \A g \in Groups :
            Waits(g)' = IF g = group THEN Len(printed[group]) + 1 .. m + 1 ELSE Waits(g)
      BY <1>2, <3>2 DEF Waits
    <3>4. Len(printed[group]) + 1 .. m + 1 = Waits(group) \cup {m + 1}
      BY <3>1 DEF Waits
    <3>5. m + 1 \in Nat
      BY <3>1
    <3> HIDE DEF m
    <3>6. Owed' = Owed \cup {<<group, m + 1>>}
      BY <3>1, <3>3, <3>4, <3>5 DEF Owed
    <3>7. /\ IsFiniteSet(Owed \cup {<<group, m + 1>>})
          /\ \/ Cardinality(Owed \cup {<<group, m + 1>>}) = Cardinality(Owed)
             \/ Cardinality(Owed \cup {<<group, m + 1>>}) = Cardinality(Owed) + 1
      BY <1>1, FS_AddElement
    <3> QED BY <3>6, <3>7, <1>1
  <2> QED BY <2>1, <2>2
<1>5. Cardinality(Owed') \in Nat
  BY <1>4, FS_CardinalityType
<1>6. Cardinality(Owed') + Cardinality(Counting') =< supply' + Uncounted'
  BY <1>1, <1>2, <1>3, <1>4, <1>5
<1> QED BY <1>1, <1>2, <1>3, <1>4, <1>6 DEF SupplyInv

\* The producer counts up a job that it owed to supply.
LEMMA CountUpKeepsSupplyInv ==
  ASSUME TypeInv, SupplyInv, CountUp
  PROVE  SupplyInv'
<1>1. /\ Cardinality(Owed) \in Nat /\ Cardinality(Counting) \in Nat /\ supply \in Int
      /\ Uncounted = 1 /\ Uncounted' = 0 /\ supply' = supply + 1
      /\ Cardinality(Owed) + Cardinality(Counting) =< supply + Uncounted
      /\ IsFiniteSet(Owed) /\ IsFiniteSet(Counting)
      /\ ~ exit_flag
  BY SupplyNumbers DEF SupplyInv, Uncounted, CountUp
<1>2. UNCHANGED <<sent, printed, exit_flag, cpc>>
  BY DEF CountUp, lists, consumervars
<1>3. \A g \in Groups : Waits(g)' = Waits(g)
  BY <1>2 DEF Waits
<1>4. Owed' = Owed /\ Counting' = Counting
  BY <1>2, <1>3 DEF Owed, Counting
<1>5. Cardinality(Owed) + Cardinality(Counting) =< supply' + Uncounted'
  BY <1>1
<1> QED BY <1>1, <1>2, <1>4, <1>5 DEF SupplyInv

\* The producer leaves its loop when supply is down to zero: nothing is owed.
LEMMA DrainedKeepsSupplyInv ==
  ASSUME TypeInv, SupplyInv, Drained
  PROVE  SupplyInv'
<1>1. UNCHANGED <<sent, printed, supply, exit_flag, cpc>> /\ supply < 1
      /\ ppc = "drain" /\ ppc' = "returned"
  BY DEF Drained, lists, consumervars
<1>2. \A g \in Groups : Waits(g)' = Waits(g)
  BY <1>1 DEF Waits
<1>3. Owed' = Owed /\ Counting' = Counting /\ Uncounted' = Uncounted /\ Uncounted = 0
  BY <1>1, <1>2 DEF Owed, Counting, Uncounted
<1>4. Cardinality(Owed) = 0
  <2>1. /\ Cardinality(Owed) \in Nat /\ Cardinality(Counting) \in Nat /\ supply \in Int
        /\ Cardinality(Owed) + Cardinality(Counting) =< supply + 0
    BY <1>3, SupplyNumbers DEF SupplyInv
  <2> QED BY <2>1, <1>1
<1>5. Owed = {}
  BY <1>4, FS_EmptySet DEF SupplyInv
<1> QED BY <1>1, <1>3, <1>5 DEF SupplyInv

\* A job that is taken is no longer owed and not yet counted.
LEMMA UnlinkKeepsSupplyInv ==
  ASSUME TypeInv, ListInv, SupplyInv, NEW p \in Printers, Unlink(p)
  PROVE  SupplyInv'
<1> DEFINE g == GroupOf[p]
           n == Len(printed[g])
<1>1. /\ Cardinality(Owed) \in Nat /\ Cardinality(Counting) \in Nat /\ supply \in Int
      /\ Uncounted \in {0, 1}
      /\ Cardinality(Owed) + Cardinality(Counting) =< supply + Uncounted
      /\ IsFiniteSet(Owed) /\ IsFiniteSet(Counting)
  BY SupplyNumbers DEF SupplyInv
<1>2. /\ UNCHANGED <<sent, ppc, exit_flag, supply>>
      /\ printed' = [printed EXCEPT ![g] = Append(@, cjob[p])]
      /\ cpc' = [cpc EXCEPT ![p] = "count"]
      /\ cpc[p] = "unlink" /\ cjob[p] \in Jobs
      /\ g \in Groups
  BY ConfigAssumption DEF Unlink, Step, ofproducer, producervars, TypeInv
<1>3. /\ n \in Nat /\ Len(sent[g]) \in Nat /\ printed[g] \in Seq(Jobs)
      /\ printed \in [Groups -> Seq(Jobs)]
      /\ n + 1 \in Waits(g)
  BY <1>2, WaitsOf DEF ListInv, Fresh, TypeInv, Types
<1>4. /\ \A h \in Groups : h # g => printed'[h] = printed[h]
      /\ Len(printed'[g]) = n + 1
  BY <1>2, <1>3, AppendProperties
<1>5. \A h \in Groups : Waits(h)' = IF h = g THEN (n + 1) + 1 .. Len(sent[g]) ELSE Waits(h)
  BY <1>2, <1>4 DEF Waits
<1>6. (n + 1) + 1 .. Len(sent[g]) = Waits(g) \ {n + 1}
  BY <1>3 DEF Waits
<1>7. <<g, n + 1>> \in Owed
  BY <1>2, <1>3 DEF Owed
<1> HIDE DEF g, n
<1>8. Owed' = Owed \ {<<g, n + 1>>}
  <2>1. \A h \in Groups, i \in Nat :
          i \in Waits(h)' <=> i \in Waits(h) /\ <<h, i>> # <<g, n + 1>>
    BY <1>5, <1>6
  <2>2. Owed' = {w \in Groups \X Nat : w[2] \in Waits(w[1])'}
    BY DEF Owed
  <2> QED BY <2>1, <2>2 DEF Owed
<1>9. IsFiniteSet(Owed') /\ Cardinality(Owed') = Cardinality(Owed) - 1
  BY <1>1, <1>7, <1>8, FS_RemoveElement
<1>10. p \notin Counting /\ Counting' = Counting \cup {p}
  BY <1>2 DEF Counting, TypeInv, Types
<1>11. IsFiniteSet(Counting') /\ Cardinality(Counting') = Cardinality(Counting) + 1
  BY <1>1, <1>10, FS_AddElement
<1>12. Uncounted' = Uncounted
  BY <1>2 DEF Uncounted
<1>13. Cardinality(Owed') + Cardinality(Counting') =< supply + Uncounted
  BY <1>1, <1>9, <1>11
<1> QED BY <1>2, <1>8, <1>9, <1>11, <1>12, <1>13 DEF SupplyInv

\* A consumer counts down a job that it took.
LEMMA CountDownKeepsSupplyInv ==
  ASSUME TypeInv, SupplyInv, NEW p \in Printers, CountDown(p)
  PROVE  SupplyInv'
<1>1. /\ Cardinality(Owed) \in Nat /\ Cardinality(Counting) \in Nat /\ supply \in Int
      /\ Uncounted \in {0, 1} /\ supply' = supply - 1
      /\ Cardinality(Owed) + Cardinality(Counting) =< supply + Uncounted
      /\ IsFiniteSet(Owed) /\ IsFiniteSet(Counting)
  BY SupplyNumbers DEF SupplyInv, CountDown
<1>2. /\ UNCHANGED <<sent, printed, exit_flag, ppc>>
      /\ cpc[p] = "count" /\ cpc' = [cpc EXCEPT ![p] = "unlock"]
  BY DEF CountDown, Step, ofproducer, producervars
<1>3. \A g \in Groups : Waits(g)' = Waits(g)
  BY <1>2 DEF Waits
<1>4. Owed' = Owed /\ Uncounted' = Uncounted
  BY <1>2, <1>3 DEF Owed, Uncounted
<1>5. p \in Counting /\ Counting' = Counting \ {p}
  BY <1>2 DEF Counting, TypeInv, Types
<1>6. IsFiniteSet(Counting') /\ Cardinality(Counting') = Cardinality(Counting) - 1
  BY <1>1, <1>5, FS_RemoveElement
<1>7. Cardinality(Owed) + Cardinality(Counting') =< supply' + Uncounted
  BY <1>1, <1>6
<1> QED BY <1>1, <1>2, <1>4, <1>6, <1>7 DEF SupplyInv

\* supply counts the pending jobs, up to those on their way.
LEMMA SupplyInvHolds ==
  OnePrinterPerGroup /\ ~ Regroup =>
    (Spec => [](TypeInv /\ Exclusion /\ ListInv /\ SupplyInv))
<1> SUFFICES ASSUME OnePrinterPerGroup, ~ Regroup
             PROVE  Spec => [](TypeInv /\ Exclusion /\ ListInv /\ SupplyInv)
  OBVIOUS
<1>1. Init => SupplyInv
  <2> SUFFICES ASSUME Init PROVE SupplyInv
    OBVIOUS
  <2>1. \A g \in Groups : Waits(g) = {}
    <3>1. Len(<<>>) = 0 /\ 0 + 1 .. 0 = {}
      OBVIOUS
    <3> QED BY <3>1 DEF Init, Waits
  <2>2. Owed = {} /\ Counting = {}
    BY <2>1 DEF Owed, Counting, Init
  <2>3. Uncounted = 0 /\ supply = 0 /\ exit_flag = FALSE
    BY DEF Init, Uncounted
  <2> QED BY <2>2, <2>3, FS_EmptySet DEF SupplyInv
<1>2. TypeInv /\ ListInv /\ SupplyInv /\ [Next]_vars => SupplyInv'
  <2> SUFFICES ASSUME TypeInv, ListInv, SupplyInv, [Next]_vars PROVE SupplyInv'
    OBVIOUS
  <2>1. CASE ReadLine
    BY <2>1, ReadKeepsSupplyInv
  <2>2. CASE Lock \/ Walk \/ WalkOn \/ Terminate \/ UnlockList
    <3>1. UNCHANGED <<sent, printed, supply, exit_flag, cpc>>
      BY <2>2 DEF Lock, Walk, WalkOn, Terminate, UnlockList, lists, consumervars
    <3>2. ~ exit_flag
      BY <2>2 DEF SupplyInv, Lock, Walk, WalkOn, Terminate, UnlockList
    <3>3. Uncounted' = Uncounted
      BY <2>2 DEF Uncounted, Lock, Walk, WalkOn, Terminate, UnlockList
    <3> QED BY <3>1, <3>2, <3>3, SupplyFrame
  <2>3. CASE Signal
    <3>1. UNCHANGED <<sent, printed, supply, exit_flag>> /\ Uncounted' = Uncounted
      BY <2>3 DEF Signal, lists, Uncounted
    <3>2. ~ exit_flag
      BY <2>3 DEF SupplyInv, Signal
    <3>3. \A p \in Printers : cpc'[p] = "count" <=> cpc[p] = "count"
      BY <2>3 DEF Signal, WaitingIn, TypeInv, Types
    <3> QED BY <3>1, <3>2, <3>3, SupplyFrame
  <2>4. ASSUME NEW p \in Printers,
               Test(p) \/ EnterWait(p) \/ TimeOut(p) \/ Reacquire(p) \/ Look(p) \/ Take(p)
                 \/ Unlock(p)
        PROVE  SupplyInv'
    <3>1. UNCHANGED <<sent, printed, supply, exit_flag, ppc>>
      BY <2>4 DEF Test, EnterWait, TimeOut, Reacquire, Look, Take, Unlock, ofproducer,
                  producervars
    <3>2. \E next : next # "count" /\ cpc[p] # "count" /\ cpc' = [cpc EXCEPT ![p] = next]
      BY <2>4 DEF Test, EnterWait, TimeOut, Reacquire, Look, Take, Unlock, Step
    <3>3. \A q \in Printers : cpc'[q] = "count" <=> cpc[q] = "count"
      BY <3>2 DEF TypeInv, Types
    <3>4. Uncounted' = Uncounted
      BY <3>1 DEF Uncounted
    <3> QED BY <3>1, <3>3, <3>4, SupplyFrame DEF SupplyInv
  <2>5. CASE Main \/ UNCHANGED vars
    <3>1. UNCHANGED <<sent, printed, supply, exit_flag, ppc, cpc>>
      BY <2>5 DEF Main, JoinProducer, TearDown, vars, lists, producervars, consumervars
    <3>2. Uncounted' = Uncounted
      BY <3>1 DEF Uncounted
    <3> QED BY <3>1, <3>2, SupplyFrame DEF SupplyInv
  <2> QED BY <2>1, <2>2, <2>3, <2>4, <2>5, LinkKeepsSupplyInv, CountUpKeepsSupplyInv,
             DrainedKeepsSupplyInv, UnlinkKeepsSupplyInv, CountDownKeepsSupplyInv
          DEF Next, Work, Consumer
<1> QED BY <1>1, <1>2, ListInvHolds, PTL DEF Spec

\* After EXIT the producer returns only when every job that was ever linked has
\* been printed, although it reads nothing but the count.
THEOREM ExitIsLast ==
  OnePrinterPerGroup /\ ~ Regroup => (Spec => []ExitAfterLastJob)
<1> SUFFICES ASSUME OnePrinterPerGroup, ~ Regroup PROVE Spec => []ExitAfterLastJob
  OBVIOUS
<1>1. TypeInv /\ ListInv /\ SupplyInv => ExitAfterLastJob
  <2> SUFFICES ASSUME TypeInv, ListInv, SupplyInv, exit_flag /\ ppc = "returned",
                      NEW g \in Groups
               PROVE  Pending(g) = <<>>
    BY DEF ExitAfterLastJob
  <2>1. Waits(g) = {}
    <3>1. \A i \in Waits(g) : i \in Nat
      BY WaitsOf DEF ListInv
    <3>2. \A i \in Waits(g) : <<g, i>> \in Owed
      BY <3>1 DEF Owed
    <3> QED BY <3>2 DEF SupplyInv
  <2>2. /\ sent[g] \in Seq(Jobs) /\ Len(sent[g]) \in Nat
        /\ Len(printed[g]) = Len(sent[g])
    BY <2>1, WaitsOf DEF ListInv
  <2>3. Len(printed[g]) \in 0 .. Len(sent[g])
    BY <2>2
  <2> QED BY <2>2, <2>3, BehindEmpty DEF Pending, Behind
<1> QED BY <1>1, SupplyInvHolds, PTL

-----------------------------------------------------------------------------
(***************************************************************************)
(* The spool.                                                              *)
(***************************************************************************)

\* The threads implement a spool: linking a job submits it, the new head
\* delivers one, and no other step is visible.
THEOREM ThreadsImplementSpool ==
  OnePrinterPerGroup /\ ~ Regroup => (Spec => ImplementsSpool)
<1> SUFFICES ASSUME OnePrinterPerGroup, ~ Regroup PROVE Spec => Spool!Spec
  BY DEF ImplementsSpool
<1> DEFINE waiting == [g \in Groups |-> Pending(g)]
<1>1. Init => Spool!Init
  <2>1. SubSeq(<<>>, 1, 0) = <<>> /\ Len(<<>>) = 0 /\ 0 + 1 = 1
    BY SubSeqEmpty
  <2>2. Init => \A g \in Groups : Pending(g) = <<>>
    BY <2>1 DEF Init, Pending
  <2> QED BY <2>2 DEF Init, Spool!Init
<1>2. TypeInv /\ Exclusion /\ ListInv /\ [Next]_vars => [Spool!Next]_Spool!vars
  <2> SUFFICES ASSUME TypeInv, Exclusion, ListInv, [Next]_vars
               PROVE  Spool!Next \/ UNCHANGED <<waiting, printed>>
    BY DEF Spool!vars
  <2>1. \A g \in Groups : Pending(g) = Behind(sent[g], Len(printed[g]))
    BY DEF Pending, Behind
  <2>2. \A g \in Groups : Pending(g)' = Behind(sent'[g], Len(printed'[g]))
    BY DEF Pending, Behind
  <2>3. CASE Link /\ tail # job
    <3> DEFINE m == Len(sent[group])
    <3>1. /\ group \in Groups /\ job \in Jobs
          /\ sent[group] \in Seq(Jobs) /\ m \in Nat /\ Len(printed[group]) \in 0 .. m
      BY <2>3, WaitsOf DEF ListInv, TypeInv, Link, Busy, Holding, Walking
    <3>2. /\ sent' = [sent EXCEPT ![group] = Append(sent[group], job)]
          /\ sent \in [Groups -> Seq(Jobs)]
          /\ printed' = printed
      BY <2>3 DEF Link, TypeInv, Types, consumervars
    <3>3. Behind(Append(sent[group], job), Len(printed[group]))
            = Append(Behind(sent[group], Len(printed[group])), job)
      BY <3>1, BehindAppend
    <3>4. waiting' = [waiting EXCEPT ![group] = Append(@, job)]
      BY <2>1, <2>2, <3>1, <3>2, <3>3
    <3>5. Spool!Submit(group, job)
      BY <3>2, <3>4 DEF Spool!Submit
    <3> QED BY <3>1, <3>5 DEF Spool!Next
  <2>4. ASSUME NEW p \in Printers, Unlink(p) PROVE Spool!Next
    <3> DEFINE g == GroupOf[p]
               n == Len(printed[g])
    <3>1. /\ g \in Groups /\ cpc[p] = "unlink" /\ cjob[p] \in Jobs
          /\ printed' = [printed EXCEPT ![g] = Append(@, cjob[p])]
          /\ printed \in [Groups -> Seq(Jobs)] /\ sent' = sent
      BY <2>4, ConfigAssumption DEF Unlink, TypeInv, Types, ofproducer
    <3>2. /\ sent[g] \in Seq(Jobs) /\ Len(sent[g]) \in Nat /\ n \in 0 .. Len(sent[g])
          /\ n < Len(sent[g])
          /\ cjob[p] = sent[g][n + 1]
      BY <3>1, WaitsOf, SMTT(30) DEF ListInv, Linked, Fresh
    <3>3. /\ Len(Behind(sent[g], n)) > 0
          /\ Behind(sent[g], n)[1] = cjob[p]
          /\ Behind(sent[g], n + 1) = Tail(Behind(sent[g], n))
      BY <3>2, BehindNext
    <3>4. /\ Len(printed'[g]) = n + 1
          /\ \A h \in Groups : h # g => printed'[h] = printed[h]
      BY <3>1, AppendProperties
    <3>8. /\ Pending(g)' = Tail(Pending(g))
          /\ \A h \in Groups : h # g => Pending(h)' = Pending(h)
      BY <2>1, <2>2, <3>1, <3>3, <3>4
    <3>5. waiting' = [waiting EXCEPT ![g] = Tail(@)]
      BY <3>1, <3>8
    <3>6. waiting[g] = Behind(sent[g], n)
      BY <2>1, <3>1
    <3>7. Spool!Deliver(g)
      BY <3>1, <3>3, <3>5, <3>6 DEF Spool!Deliver
    <3> QED BY <3>1, <3>7 DEF Spool!Next
  <2>5. ASSUME UNCHANGED <<sent, printed>>
        PROVE  UNCHANGED <<waiting, printed>>
    BY <2>1, <2>2, <2>5
  <2>6. CASE ReadLine \/ Main \/ Lock \/ UNCHANGED vars
    <3>1. UNCHANGED <<sent, printed>>
      BY <2>6 DEF ReadLine, ReadNew, ReadPrinter, ReadPrint, ReadExit, EndOfInput, Main,
                  JoinProducer, TearDown, Lock, vars, lists, consumervars
    <3> QED BY <3>1, <2>5
  <2>7. CASE Work /\ ~ (Link /\ tail # job)
    <3>1. UNCHANGED <<sent, printed>>
      BY <2>7 DEF Work, Walk, WalkOn, Link, Terminate, UnlockList, CountUp, Signal, Drained,
                  lists, consumervars
    <3> QED BY <3>1, <2>5
  <2>8. ASSUME NEW p \in Printers, Reacquire(p) \/ (Consumer(p) /\ ~ Unlink(p))
        PROVE  UNCHANGED <<waiting, printed>>
    <3>1. UNCHANGED <<sent, printed>>
      BY <2>8 DEF Reacquire, Consumer, Test, EnterWait, TimeOut, Look, Take, CountDown,
                  Unlock, ofproducer
    <3> QED BY <3>1, <2>5
  <2> QED BY <2>3, <2>4, <2>6, <2>7, <2>8 DEF Next, Work
<1> QED BY <1>1, <1>2, ListInvHolds, PTL DEF Spec, Spool!Spec
=============================================================================
