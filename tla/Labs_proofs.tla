---------------------------- MODULE Labs_proofs ----------------------------
(***************************************************************************)
(* Proofs about ThreadLabs, Device and Shell, the programs of the labs     *)
(* whose processes take turns.                                             *)
(*                                                                         *)
(* For every number of rounds, consumers, items and slots, what the        *)
(* threads of an exercise share, they share in order.  Each exercise has   *)
(* an invariant of its own, that holds however its threads take turns and  *)
(* wake.                                                                   *)
(*                                                                         *)
(* For every set of files, every buffer and whatever is written, the       *)
(* device has one user at a time, and what that user reads is the message  *)
(* from its start.                                                         *)
(*                                                                         *)
(* For every set of pids and values, the shell's list of jobs is the       *)
(* background children it has not reported.                                *)
(***************************************************************************)
EXTENDS ThreadLabs, Device, Shell, PlaceTheorems

-----------------------------------------------------------------------------
(* The threads: the inductive invariants.                                  *)

Places == {"start", "store", "waiting", "woken", "place", "read", "clear", "post", "done"}

ThreadTypes ==
  /\ exercise \in Exercises
  /\ pc \in [Threads[exercise] -> Places]
  /\ turn \in [Threads[exercise] -> Nat]

\* t2 and cond_example: the flag counts the lines, and a line that is out has
\* its thread done.
Chain ==
  /\ pc["hello"] \in {"start", "done"}
  /\ \/ /\ flag = 0 /\ output = <<>>
        /\ pc["hello"] = "start" /\ pc["world"] # "done" /\ pc["again"] # "done"
     \/ /\ flag = 1 /\ output = <<"hello">>
        /\ pc["hello"] = "done" /\ pc["world"] # "done" /\ pc["again"] # "done"
     \/ /\ flag = 2 /\ output = <<"hello", "world">>
        /\ pc["hello"] = "done" /\ pc["world"] = "done" /\ pc["again"] # "done"
     \/ /\ flag = 2 /\ output = <<"hello", "world", "again">>
        /\ pc["hello"] = "done" /\ pc["world"] = "done" /\ pc["again"] = "done"

\* threaded_count: every round of a thread is in the counter.
Counted ==
  /\ v = turn["t1"] + turn["t2"]
  /\ \A t \in {"t1", "t2"} : pc[t] = "done" => turn[t] = Rounds

\* t3: what was produced is in supply, or a consumer has it.
Supplied ==
  /\ supply \in 0 .. NumItems /\ num_cons_remaining \in Int /\ produced \in Int
  /\ produced - supply = Cardinality(Consumers) - num_cons_remaining

\* sem_example: the semaphores count the elements that are placed and not yet
\* taken, and the slots that are neither filled nor about to be.
Ahead == IF pc["producer"] = "place" THEN 1 ELSE 0      \* a slot taken, not filled
Unposted == IF pc["producer"] = "post" THEN 1 ELSE 0    \* an element not yet posted
Taken == IF pc["consumer"] \in {"read", "clear"} THEN 1 ELSE 0
Unfreed == IF pc["consumer"] = "post" THEN 1 ELSE 0     \* a slot not yet posted
Seen == IF pc["consumer"] = "clear" THEN 1 ELSE 0
Ring ==
  /\ pc["producer"] \in {"start", "place", "post", "done"}
  /\ pc["consumer"] \in {"start", "read", "clear", "post", "done"}
  /\ buffer_items \in Nat /\ buffer_slots \in Nat
  /\ buffer_items = turn["producer"] - Unposted - turn["consumer"] - Taken
  /\ buffer_slots = Slots - turn["producer"] - Ahead + turn["consumer"] - Unfreed
  /\ buffer \in [0 .. Slots - 1 -> Nat \cup {Empty}]
  /\ \A i \in turn["consumer"] .. turn["producer"] - 1 : buffer[i % Slots] = i
  /\ output \in Seq(Nat \cup {Empty})
  /\ Len(output) = turn["consumer"] + Seen
  /\ \A i \in 1 .. Len(output) : output[i] = i - 1

ThreadInv ==
  /\ ThreadTypes
  /\ exercise \in {"t2", "cond"} => Chain
  /\ exercise = "count" => Counted
  /\ exercise = "t3" => Supplied
  /\ exercise = "sem" => Ring

-----------------------------------------------------------------------------
(* The threads of each exercise, and remainders.                           *)

\* The threads of the exercises, one exercise after the other.
LEMMA ThreadsAre ==
  /\ Threads["t2"] = {"hello", "world", "again"}
  /\ Threads["cond"] = {"hello", "world", "again"}
  /\ Threads["t3"] = {"producer"} \cup Consumers
  /\ Threads["count"] = {"t1", "t2"}
  /\ Threads["t1"] = {"inc", "dec"}
  /\ Threads["sem"] = {"producer", "consumer"}
BY DEF Threads

\* A place of the ring is a remainder.
LEMMA SlotOf ==
  ASSUME NEW i \in Nat
  PROVE  i % Slots \in 0 .. Slots - 1
BY DivMod, SizesAssumption

\* The invariant holds before the threads are started.
LEMMA ThreadInvInit ==
  ASSUME ThreadInit
  PROVE  ThreadInv
<1>1. ThreadTypes
  BY DEF ThreadInit, ThreadTypes, Places
<1>2. exercise \in {"t2", "cond"} => Chain
  BY ThreadsAre DEF ThreadInit, Chain
<1>3. exercise = "count" => Counted
  <2> SUFFICES ASSUME exercise = "count" PROVE Counted
    OBVIOUS
  <2>1. turn["t1"] = 0 /\ turn["t2"] = 0 /\ pc["t1"] = "start" /\ pc["t2"] = "start"
    BY ThreadsAre DEF ThreadInit
  <2> QED BY <2>1 DEF ThreadInit, Counted
<1>4. exercise = "t3" => Supplied
  BY FS_CardinalityType, SizesAssumption DEF ThreadInit, Supplied
<1>5. exercise = "sem" => Ring
  <2> SUFFICES ASSUME exercise = "sem" PROVE Ring
    OBVIOUS
  <2>1. /\ turn["producer"] = 0 /\ turn["consumer"] = 0
        /\ pc["producer"] = "start" /\ pc["consumer"] = "start"
    BY ThreadsAre DEF ThreadInit
  <2>2. /\ buffer_items = 0 /\ buffer_slots = Slots /\ output = <<>>
        /\ buffer \in [0 .. Slots - 1 -> Nat \cup {Empty}]
    BY DEF ThreadInit
  <2>3. Ahead = 0 /\ Unposted = 0 /\ Taken = 0 /\ Unfreed = 0 /\ Seen = 0
    BY <2>1 DEF Ahead, Unposted, Taken, Unfreed, Seen
  <2>4. /\ 0 = 0 - 0 - 0 - 0 /\ Slots = Slots - 0 - 0 + 0 - 0 /\ Slots \in Nat
        /\ \A i \in 0 .. 0 - 1 : FALSE
    BY SizesAssumption
  <2>5. Len(output) = 0 /\ output \in Seq(Nat \cup {Empty}) /\ 0 + 0 = 0
        /\ \A i \in 1 .. Len(output) : FALSE
    BY <2>2
  <2> QED BY <2>1, <2>2, <2>3, <2>4, <2>5 DEF Ring
<1> QED BY <1>1, <1>2, <1>3, <1>4, <1>5 DEF ThreadInv

-----------------------------------------------------------------------------
(* The threads: every step.                                                *)

\* A thread that goes on is somewhere in its program.
LEMMA Moves ==
  ASSUME ThreadTypes, NEW t, NEW to \in Places, Go(t, to)
  PROVE  pc' \in [Threads[exercise] -> Places]
BY DEF ThreadTypes, Go

\* The rounds of a thread are counted.
LEMMA Loops ==
  ASSUME ThreadTypes, NEW t \in DOMAIN pc, Looped(t)
  PROVE  turn' \in [Threads[exercise] -> Nat]
<1>1. DOMAIN pc = Threads[exercise] /\ turn \in [Threads[exercise] -> Nat]
  BY DEF ThreadTypes
<1>2. turn[t] + 1 \in Nat
  BY <1>1
<1> QED BY <1>1, <1>2 DEF Looped

\* The places of the programs.
LEMMA PlacesAre ==
  /\ "start" \in Places /\ "store" \in Places /\ "waiting" \in Places /\ "woken" \in Places
  /\ "place" \in Places /\ "read" \in Places /\ "clear" \in Places /\ "post" \in Places
  /\ "done" \in Places
BY DEF Places

\* What a step changes beside pc and turn, and who takes it.
LEMMA TypesStep ==
  ASSUME ThreadTypes, NEW t \in DOMAIN pc, Step(t) \/ Spurious(t)
  PROVE  ThreadTypes' /\ exercise' = exercise
<1>1. CASE Compute(t)
  <2>1. /\ exercise' = exercise /\ turn' = turn /\ Go(t, "store")
    BY <1>1 DEF Compute
  <2> QED BY <2>1, Moves, PlacesAre DEF ThreadTypes
<1>2. CASE Store(t)
  <2>1. /\ exercise' = exercise /\ Looped(t) /\ (Go(t, "done") \/ Go(t, "start"))
    BY <1>2 DEF Store
  <2> QED BY <2>1, Moves, Loops, PlacesAre DEF ThreadTypes
<1>3. CASE Count(t)
  <2>1. /\ exercise' = exercise /\ Looped(t) /\ (Go(t, "done") \/ Go(t, "start"))
    BY <1>3 DEF Count
  <2> QED BY <2>1, Moves, Loops, PlacesAre DEF ThreadTypes
<1>4. CASE Consume(t)
  <2>1. exercise' = exercise /\ turn' = turn
    BY <1>4 DEF Consume
  <2>2. pc' \in [Threads[exercise] -> Places]
    BY <1>4, Moves, PlacesAre DEF Consume, Broadcast, ThreadTypes
  <2> QED BY <2>1, <2>2 DEF ThreadTypes
<1>5. CASE Hello \/ PrintHello \/ World \/ PrintCanYouHearMe \/ Again \/ PrintIWasWondering
  <2>1. exercise' = exercise /\ turn' = turn
    BY <1>5 DEF Hello, PrintHello, World, PrintCanYouHearMe, Again, PrintIWasWondering
  <2>2. \E p : Go(p, "waiting") \/ \E n : PrintLine(p, n)
    BY <1>5 DEF Hello, PrintHello, World, PrintCanYouHearMe, Again, PrintIWasWondering,
                WaitFor
  <2>3. pc' \in [Threads[exercise] -> Places]
    BY <2>2, Moves, PlacesAre DEF PrintLine, ThreadTypes
  <2> QED BY <2>1, <2>3 DEF ThreadTypes
<1>6. CASE Produce
  <2>1. exercise' = exercise /\ turn' = turn
    BY <1>6 DEF Produce
  <2>2. pc' \in [Threads[exercise] -> Places]
    BY <1>6, Moves, PlacesAre DEF Produce, Broadcast, ThreadTypes
  <2> QED BY <2>1, <2>2 DEF ThreadTypes
<1>7. CASE PlaceInTail
  <2>1. exercise' = exercise /\ (turn' = turn \/ Looped("producer")) /\ "producer" \in DOMAIN pc
    BY <1>7 DEF PlaceInTail, Runs
  <2>2. \/ Go("producer", "place") \/ Go("producer", "post") \/ Go("producer", "done")
        \/ Go("producer", "start")
    BY <1>7 DEF PlaceInTail
  <2> QED BY <2>1, <2>2, Moves, Loops, PlacesAre DEF ThreadTypes
<1>8. CASE ReadFromHead
  <2>1. exercise' = exercise /\ (turn' = turn \/ Looped("consumer")) /\ "consumer" \in DOMAIN pc
    BY <1>8 DEF ReadFromHead, Runs
  <2>2. \/ Go("consumer", "read") \/ Go("consumer", "clear") \/ Go("consumer", "post")
        \/ Go("consumer", "done") \/ Go("consumer", "start")
    BY <1>8 DEF ReadFromHead
  <2> QED BY <2>1, <2>2, Moves, Loops, PlacesAre DEF ThreadTypes
<1>9. CASE Spurious(t)
  <2>1. exercise' = exercise /\ turn' = turn /\ Go(t, "woken")
    BY <1>9 DEF Spurious
  <2> QED BY <2>1, Moves, PlacesAre DEF ThreadTypes
<1> QED BY <1>1, <1>2, <1>3, <1>4, <1>5, <1>6, <1>7, <1>8, <1>9 DEF Step

\* Which exercise an action belongs to.
LEMMA Belongs ==
  ASSUME NEW t \in DOMAIN pc, Step(t) \/ Spurious(t)
  PROVE  /\ exercise = "t2" => Hello \/ World \/ Again \/ Spurious(t)
         /\ exercise = "cond" => \/ PrintHello \/ PrintCanYouHearMe \/ PrintIWasWondering
                                 \/ Spurious(t)
         /\ exercise = "t3" => Consume(t) \/ Produce \/ Spurious(t)
         /\ exercise = "count" => Count(t)
         /\ exercise = "sem" => PlaceInTail \/ ReadFromHead
BY DEF Step, Compute, Store, Count, Consume, Hello, PrintHello, World, PrintCanYouHearMe,
       Again, PrintIWasWondering, Produce, PlaceInTail, ReadFromHead, Spurious, Runs

\* A sequence with one element more is the one with it appended.
LEMMA AppendOne ==
  ASSUME NEW S, NEW r \in Seq(S), NEW y \in S, NEW u \in Seq(S),
         Len(u) = Len(r) + 1, u[Len(r) + 1] = y, \A i \in 1 .. Len(r) : u[i] = r[i]
  PROVE  Append(r, y) = u
<1> DEFINE s == Append(r, y)
<1>0. PICK m \in Nat : m = Len(r)
  BY LenProperties
<1>1. /\ s \in Seq(S) /\ Len(s) = m + 1 /\ s[m + 1] = y
      /\ \A i \in 1 .. m : s[i] = r[i]
  BY <1>0, AppendProperties
<1> HIDE DEF s
<1>2. \A i \in 1 .. m + 1 : i \in 1 .. m \/ i = m + 1
  OBVIOUS
<1>3. Len(s) = Len(u) /\ \A i \in 1 .. Len(s) : s[i] = u[i]
  BY <1>0, <1>1, <1>2
<1>4. s = u
  BY <1>1, <1>3, SeqEqual
<1> QED BY <1>4 DEF s

\* Appending to short sequences.
LEMMA TwoAndThree ==
  ASSUME NEW S, NEW x \in S, NEW y \in S, NEW z \in S
  PROVE  /\ Append(<<x>>, y) = <<x, y>>
         /\ Append(<<x, y>>, z) = <<x, y, z>>
<1>1. Append(<<x>>, y) = <<x, y>>
  <2> DEFINE r == <<x>>
             u == <<x, y>>
  <2>1. /\ r \in Seq(S) /\ Len(r) = 1 /\ u \in Seq(S)
        /\ Len(u) = Len(r) + 1 /\ u[Len(r) + 1] = y
        /\ \A i \in 1 .. Len(r) : u[i] = r[i]
    OBVIOUS
  <2> HIDE DEF r, u
  <2>2. Append(r, y) = u
    BY <2>1, AppendOne
  <2> QED BY <2>2 DEF r, u
<1>2. Append(<<x, y>>, z) = <<x, y, z>>
  <2> DEFINE r == <<x, y>>
             u == <<x, y, z>>
  <2>1. /\ r \in Seq(S) /\ Len(r) = 2 /\ u \in Seq(S)
        /\ Len(u) = Len(r) + 1 /\ u[Len(r) + 1] = z
        /\ \A i \in 1 .. Len(r) : u[i] = r[i]
    OBVIOUS
  <2> HIDE DEF r, u
  <2>2. Append(r, z) = u
    BY <2>1, AppendOne
  <2> QED BY <2>2 DEF r, u
<1> QED BY <1>1, <1>2

\* The lines of t2 and cond_example, one after the other.
LEMMA LinesFollow ==
  /\ Append(<<"hello">>, "world") = <<"hello", "world">>
  /\ Append(<<"hello", "world">>, "again") = <<"hello", "world", "again">>
<1> DEFINE S == {"hello", "world", "again"}
<1>1. "hello" \in S /\ "world" \in S /\ "again" \in S
  OBVIOUS
<1> HIDE DEF S
<1> QED BY <1>1, TwoAndThree, Zenon

\* hello, world and again have nothing but the flag to tell them apart, and
\* whoever wakes early waits again.
LEMMA ChainStep ==
  ASSUME ThreadTypes, Chain, exercise \in {"t2", "cond"}, NEW t \in DOMAIN pc,
         Step(t) \/ Spurious(t)
  PROVE  Chain'
<1>1. /\ pc \in [{"hello", "world", "again"} -> Places]
      /\ DOMAIN pc = {"hello", "world", "again"}
  BY ThreadsAre DEF ThreadTypes
<1>2. CASE Spurious(t)
  <2>1. pc[t] = "waiting" /\ pc' = [pc EXCEPT ![t] = "woken"] /\ flag' = flag /\ output' = output
    BY <1>2 DEF Spurious, Go
  <2> QED BY <1>1, <2>1 DEF Chain
<1>3. CASE Hello \/ PrintHello
  <2>1. pc["hello"] \in {"start", "woken"} /\ PrintLine("hello", 1)
    BY <1>3 DEF Hello, PrintHello, Ready
  <2>2. /\ pc'["hello"] = "done" /\ pc'["world"] \in {pc["world"], "woken"}
        /\ pc'["again"] = pc["again"]
        /\ flag' = 1 /\ output' = Append(output, "hello")
    BY <1>1, <2>1 DEF PrintLine
  <2>3. output = <<>> /\ pc["world"] # "done" /\ pc["again"] # "done"
    BY <2>1 DEF Chain
  <2>4. output' = <<"hello">>
    BY <2>2, <2>3
  <2> QED BY <2>2, <2>3, <2>4 DEF Chain
<1>4. CASE World \/ PrintCanYouHearMe
  <2>1. pc["world"] \in {"start", "woken"}
        /\ (WaitFor("world", 1) \/ (flag >= 1 /\ PrintLine("world", 2)))
    BY <1>4 DEF World, PrintCanYouHearMe, Ready
  <2>2. CASE WaitFor("world", 1)
    <3>1. /\ pc' = [pc EXCEPT !["world"] = "waiting"] /\ flag' = flag /\ output' = output
      BY <2>2 DEF WaitFor, Go
    <3> QED BY <1>1, <2>1, <3>1 DEF Chain
  <2>3. CASE flag >= 1 /\ PrintLine("world", 2)
    <3>1. /\ pc'["world"] = "done" /\ pc'["again"] \in {pc["again"], "woken"}
          /\ pc'["hello"] = pc["hello"]
          /\ flag' = 2 /\ output' = Append(output, "world")
      BY <1>1, <2>3 DEF PrintLine
    <3>2. output = <<"hello">> /\ pc["hello"] = "done" /\ pc["again"] # "done"
      BY <2>1, <2>3 DEF Chain
    <3>3. output' = <<"hello", "world">>
      BY <3>1, <3>2, LinesFollow
    <3> QED BY <3>1, <3>2, <3>3 DEF Chain
  <2> QED BY <2>1, <2>2, <2>3
<1>5. CASE Again \/ PrintIWasWondering
  <2>1. pc["again"] \in {"start", "woken"}
        /\ (WaitFor("again", 2) \/ (flag >= 2 /\ PrintLine("again", 2)))
    BY <1>5 DEF Again, PrintIWasWondering, Ready
  <2>2. CASE WaitFor("again", 2)
    <3>1. /\ pc' = [pc EXCEPT !["again"] = "waiting"] /\ flag' = flag /\ output' = output
      BY <2>2 DEF WaitFor, Go
    <3> QED BY <1>1, <2>1, <3>1 DEF Chain
  <2>3. CASE flag >= 2 /\ PrintLine("again", 2)
    <3>1. /\ pc'["again"] = "done" /\ pc'["world"] = pc["world"]
          /\ pc'["hello"] = pc["hello"]
          /\ flag' = 2 /\ output' = Append(output, "again")
      BY <1>1, <2>3 DEF PrintLine
    <3>2. output = <<"hello", "world">> /\ pc["hello"] = "done" /\ pc["world"] = "done"
      BY <2>1, <2>3 DEF Chain
    <3>3. output' = <<"hello", "world", "again">>
      BY <3>1, <3>2, LinesFollow
    <3> QED BY <3>1, <3>2, <3>3 DEF Chain
  <2> QED BY <2>1, <2>2, <2>3
<1> QED BY <1>2, <1>3, <1>4, <1>5, Belongs

\* Each round counts once, and a thread ends with its last.
LEMMA CountedStep ==
  ASSUME ThreadTypes, Counted, exercise = "count", NEW t \in DOMAIN pc,
         Step(t) \/ Spurious(t)
  PROVE  Counted'
<1>1. /\ pc \in [{"t1", "t2"} -> Places] /\ turn \in [{"t1", "t2"} -> Nat] /\ t \in {"t1", "t2"}
  BY ThreadsAre DEF ThreadTypes
<1>2. /\ v' = v + 1 /\ turn' = [turn EXCEPT ![t] = turn[t] + 1]
      /\ pc' = [pc EXCEPT ![t] = IF turn[t] + 1 = Rounds THEN "done" ELSE "start"]
  BY Belongs DEF Count, Looped, Go
<1>3. v' = turn'["t1"] + turn'["t2"]
  <2>1. PICK x \in Nat, y \in Nat : turn["t1"] = x /\ turn["t2"] = y
    BY <1>1
  <2>2. \/ turn'["t1"] = x + 1 /\ turn'["t2"] = y
        \/ turn'["t1"] = x /\ turn'["t2"] = y + 1
    BY <1>1, <1>2, <2>1
  <2>3. v = x + y
    BY <2>1 DEF Counted
  <2> QED BY <1>2, <2>2, <2>3
<1>4. ASSUME NEW s \in {"t1", "t2"}, pc'[s] = "done" PROVE turn'[s] = Rounds
  BY <1>1, <1>2, <1>4 DEF Counted
<1> QED BY <1>3, <1>4 DEF Counted

\* A production and a consumption keep the balance; nothing is produced while
\* there is a supply, and nothing consumed when there is none.
LEMMA SuppliedStep ==
  ASSUME ThreadTypes, Supplied, exercise = "t3", NEW t \in DOMAIN pc,
         Step(t) \/ Spurious(t)
  PROVE  Supplied'
<1>1. \/ UNCHANGED <<supply, produced, num_cons_remaining>>
      \/ /\ supply = 0 /\ supply' = supply + NumItems /\ produced' = produced + NumItems
         /\ num_cons_remaining' = num_cons_remaining
      \/ /\ supply # 0 /\ supply' = supply - 1 /\ produced' = produced
         /\ num_cons_remaining' = num_cons_remaining - 1
  BY Belongs DEF Produce, Consume, Spurious, t3vars
<1>2. NumItems \in Nat /\ Cardinality(Consumers) \in Nat
  BY FS_CardinalityType, SizesAssumption
<1> QED BY <1>1, <1>2 DEF Supplied

-----------------------------------------------------------------------------
(* The ring buffer between the two semaphores.                             *)

\* The semaphores keep the two threads on different slots.
LEMMA RingCounts ==
  ASSUME ThreadTypes, Ring, exercise = "sem"
  PROVE  /\ turn["producer"] \in Nat /\ turn["consumer"] \in Nat
         /\ turn["consumer"] <= turn["producer"]
         /\ turn["producer"] - turn["consumer"] <= Slots
         /\ pc["producer"] = "place" => turn["producer"] - turn["consumer"] < Slots
         /\ pc["consumer"] \in {"read", "clear"} => turn["consumer"] < turn["producer"]
<1>1. turn["producer"] \in Nat /\ turn["consumer"] \in Nat /\ Slots \in Nat
  BY ThreadsAre, SizesAssumption DEF ThreadTypes
<1>2. PICK x \in Nat, y \in Nat : x = turn["producer"] /\ y = turn["consumer"]
  BY <1>1
<1>3. /\ Ahead \in Nat /\ Unposted \in Nat /\ Taken \in Nat /\ Unfreed \in Nat
      /\ pc["producer"] = "place" => Ahead = 1
      /\ pc["consumer"] \in {"read", "clear"} => Taken = 1
  BY DEF Ahead, Unposted, Taken, Unfreed
<1>4. PICK d \in Nat, u \in Nat, k \in Nat, f \in Nat :
        d = Ahead /\ u = Unposted /\ k = Taken /\ f = Unfreed
  BY <1>3
<1>5. x - u - y - k >= 0 /\ Slots - x - d + y - f >= 0
  <2>1. /\ buffer_items = x - u - y - k /\ buffer_slots = Slots - x - d + y - f
        /\ buffer_items \in Nat /\ buffer_slots \in Nat
    BY <1>2, <1>4 DEF Ring
  <2>2. \A i \in Nat : i >= 0
    OBVIOUS
  <2> QED BY <2>1, <2>2
<1>6. y <= x /\ x - y <= Slots /\ (d = 1 => x - y < Slots) /\ (k = 1 => y < x)
  BY <1>1, <1>5
<1> QED BY <1>1, <1>2, <1>3, <1>4, <1>6

\* Placing an element in its slot keeps the ring in order.
LEMMA PlaceStep ==
  ASSUME ThreadTypes, Ring, exercise = "sem", PlaceInTail
  PROVE  Ring'
<1>1. /\ pc \in [{"producer", "consumer"} -> Places]
      /\ turn \in [{"producer", "consumer"} -> Nat]
  BY ThreadsAre DEF ThreadTypes
<1>2. output' = output
  BY DEF PlaceInTail
<1>3. PICK x \in Nat, y \in Nat : x = turn["producer"] /\ y = turn["consumer"]
  BY <1>1
<1>4. /\ y <= x /\ x - y <= Slots /\ (pc["producer"] = "place" => x - y < Slots)
      /\ Slots \in Nat \ {0}
  BY <1>3, RingCounts, SizesAssumption
<1>5. /\ pc'["consumer"] = pc["consumer"] /\ turn'["consumer"] = turn["consumer"]
  BY <1>1 DEF PlaceInTail, Go, Looped
<1>6. Taken' = Taken /\ Unfreed' = Unfreed /\ Seen' = Seen
  BY <1>5 DEF Taken, Unfreed, Seen
<1>7. PICK k \in Nat, f \in Nat : k = Taken /\ f = Unfreed
  BY DEF Taken, Unfreed
<1>8. CASE pc["producer"] = "start"
  <2>1. /\ buffer_slots > 0 /\ buffer_slots' = buffer_slots - 1
        /\ pc'["producer"] = "place" /\ turn' = turn /\ buffer' = buffer
        /\ buffer_items' = buffer_items
    BY <1>1, <1>8 DEF PlaceInTail, Go
  <2>2. Ahead = 0 /\ Ahead' = 1 /\ Unposted = 0 /\ Unposted' = 0
    BY <1>8, <2>1 DEF Ahead, Unposted
  <2>3. /\ buffer_items = x - 0 - y - k /\ buffer_slots = Slots - x - 0 + y - f
        /\ buffer_slots \in Nat
    BY <1>3, <1>7, <2>2 DEF Ring
  <2>4. buffer_slots' \in Nat /\ buffer_slots' = Slots - x - 1 + y - f
    BY <1>4, <2>1, <2>3
  <2>5. /\ buffer_slots' = Slots - turn'["producer"] - Ahead' + turn'["consumer"] - Unfreed'
        /\ buffer_items' = turn'["producer"] - Unposted' - turn'["consumer"] - Taken'
    BY <1>3, <1>6, <1>7, <2>1, <2>2, <2>3, <2>4
  <2> QED BY <1>2, <1>5, <1>6, <2>1, <2>4, <2>5 DEF Ring
<1>9. CASE pc["producer"] = "place"
  <2>1. /\ buffer' = [buffer EXCEPT ![x % Slots] = x]
        /\ turn'["producer"] = x + 1 /\ pc'["producer"] = "post"
        /\ buffer_items' = buffer_items /\ buffer_slots' = buffer_slots
    BY <1>1, <1>3, <1>9 DEF PlaceInTail, Go, Looped
  <2>2. Ahead = 1 /\ Ahead' = 0 /\ Unposted = 0 /\ Unposted' = 1
    BY <1>9, <2>1 DEF Ahead, Unposted
  <2>3. /\ buffer_items = x - 0 - y - k /\ buffer_slots = Slots - x - 1 + y - f
    BY <1>3, <1>7, <2>2 DEF Ring
  <2>4. /\ buffer_items = (x + 1) - 1 - y - k /\ buffer_slots = Slots - (x + 1) - 0 + y - f
    BY <1>4, <2>3
  <2>5. /\ buffer_slots' = Slots - turn'["producer"] - Ahead' + turn'["consumer"] - Unfreed'
        /\ buffer_items' = turn'["producer"] - Unposted' - turn'["consumer"] - Taken'
    BY <1>3, <1>5, <1>6, <1>7, <2>1, <2>2, <2>4
  <2>6. buffer \in [0 .. Slots - 1 -> Nat \cup {Empty}] /\ x % Slots \in 0 .. Slots - 1
    BY SlotOf DEF Ring
  <2>7. buffer' \in [0 .. Slots - 1 -> Nat \cup {Empty}]
    BY <2>1, <2>6
  <2>8. ASSUME NEW i \in y .. (x + 1) - 1 PROVE buffer'[i % Slots] = i
    <3>1. i \in Nat /\ (i = x \/ i \in y .. x - 1)
      OBVIOUS
    <3>2. CASE i = x
      BY <2>1, <2>6, <3>2
    <3>3. CASE i \in y .. x - 1
      <4>1. i < x /\ x - i < Slots
        BY <1>4, <1>9, <3>3
      <4>2. i % Slots # x % Slots
        BY <1>4, <3>1, <4>1, RemaindersApart
      <4>3. i % Slots \in 0 .. Slots - 1
        BY <3>1, SlotOf
      <4>4. buffer[i % Slots] = i
        BY <1>3, <3>3 DEF Ring
      <4> QED BY <2>1, <2>6, <4>2, <4>3, <4>4
    <3> QED BY <3>1, <3>2, <3>3
  <2>9. \A i \in turn'["consumer"] .. turn'["producer"] - 1 : buffer'[i % Slots] = i
    BY <1>3, <1>5, <2>1, <2>8
  <2>10. /\ pc'["consumer"] = pc["consumer"]
         /\ output' \in Seq(Nat \cup {Empty})
         /\ Len(output') = turn'["consumer"] + Seen'
         /\ \A i \in 1 .. Len(output') : output'[i] = i - 1
    BY <1>2, <1>5, <1>6 DEF Ring
  <2>11. /\ pc["consumer"] \in {"start", "read", "clear", "post", "done"}
         /\ buffer_items' \in Nat /\ buffer_slots' \in Nat
    BY <2>1 DEF Ring
  <2>12. pc'["producer"] \in {"start", "place", "post", "done"}
    BY <2>1
  <2> QED BY <2>5, <2>7, <2>9, <2>10, <2>11, <2>12, Zenon DEF Ring
<1>10. CASE pc["producer"] = "post"
  <2>1. /\ buffer_items' = buffer_items + 1 /\ buffer_slots' = buffer_slots
        /\ pc'["producer"] \in {"done", "start"} /\ turn' = turn /\ buffer' = buffer
    BY <1>1, <1>10 DEF PlaceInTail, Go
  <2>2. Ahead = 0 /\ Ahead' = 0 /\ Unposted = 1 /\ Unposted' = 0
    BY <1>10, <2>1 DEF Ahead, Unposted
  <2>3. /\ buffer_items = x - 1 - y - k /\ buffer_slots = Slots - x - 0 + y - f
        /\ buffer_items \in Nat
    BY <1>3, <1>7, <2>2 DEF Ring
  <2>4. buffer_items' \in Nat /\ buffer_items' = x - 0 - y - k
    BY <1>4, <2>1, <2>3
  <2>5. /\ buffer_slots' = Slots - turn'["producer"] - Ahead' + turn'["consumer"] - Unfreed'
        /\ buffer_items' = turn'["producer"] - Unposted' - turn'["consumer"] - Taken'
    BY <1>3, <1>6, <1>7, <2>1, <2>2, <2>3, <2>4
  <2> QED BY <1>2, <1>5, <1>6, <2>1, <2>4, <2>5 DEF Ring
<1> QED BY <1>8, <1>9, <1>10 DEF PlaceInTail

\* Reading an element from its slot keeps the ring in order.
LEMMA ReadStep ==
  ASSUME ThreadTypes, Ring, exercise = "sem", ReadFromHead
  PROVE  Ring'
<1>1. /\ pc \in [{"producer", "consumer"} -> Places]
      /\ turn \in [{"producer", "consumer"} -> Nat]
  BY ThreadsAre DEF ThreadTypes
<1>2. PICK x \in Nat, y \in Nat : x = turn["producer"] /\ y = turn["consumer"]
  BY <1>1
<1>3. /\ y <= x /\ x - y <= Slots /\ (pc["consumer"] \in {"read", "clear"} => y < x)
      /\ Slots \in Nat \ {0}
  BY <1>2, RingCounts, SizesAssumption
<1>4. /\ pc'["producer"] = pc["producer"] /\ turn'["producer"] = turn["producer"]
  BY <1>1 DEF ReadFromHead, Go, Looped
<1>5. Ahead' = Ahead /\ Unposted' = Unposted
  BY <1>4 DEF Ahead, Unposted
<1>6. PICK d \in Nat, u \in Nat : d = Ahead /\ u = Unposted
  BY DEF Ahead, Unposted
<1>7. CASE pc["consumer"] = "start"
  <2>1. /\ buffer_items > 0 /\ buffer_items' = buffer_items - 1
        /\ pc'["consumer"] = "read" /\ turn' = turn /\ buffer' = buffer
        /\ buffer_slots' = buffer_slots /\ output' = output
    BY <1>1, <1>7 DEF ReadFromHead, Go
  <2>2. Taken = 0 /\ Taken' = 1 /\ Unfreed = 0 /\ Unfreed' = 0 /\ Seen = 0 /\ Seen' = 0
    BY <1>7, <2>1 DEF Taken, Unfreed, Seen
  <2>3. /\ buffer_items = x - u - y - 0 /\ buffer_slots = Slots - x - d + y - 0
        /\ buffer_items \in Nat
    BY <1>2, <1>6, <2>2 DEF Ring
  <2>4. buffer_items' \in Nat /\ buffer_items' = x - u - y - 1
    BY <1>3, <2>1, <2>3
  <2>5. /\ buffer_slots' = Slots - turn'["producer"] - Ahead' + turn'["consumer"] - Unfreed'
        /\ buffer_items' = turn'["producer"] - Unposted' - turn'["consumer"] - Taken'
    BY <1>2, <1>5, <1>6, <2>1, <2>2, <2>3, <2>4
  <2> QED BY <1>4, <2>1, <2>2, <2>4, <2>5 DEF Ring
<1>8. CASE pc["consumer"] = "read"
  <2>1. /\ output' = Append(output, buffer[y % Slots])
        /\ pc'["consumer"] = "clear" /\ turn' = turn /\ buffer' = buffer
        /\ buffer_slots' = buffer_slots /\ buffer_items' = buffer_items
    BY <1>1, <1>2, <1>8 DEF ReadFromHead, Go
  <2>2. Taken = 1 /\ Taken' = 1 /\ Unfreed = 0 /\ Unfreed' = 0 /\ Seen = 0 /\ Seen' = 1
    BY <1>8, <2>1 DEF Taken, Unfreed, Seen
  <2>3. buffer[y % Slots] = y
    <3>1. y \in y .. x - 1
      BY <1>3, <1>8
    <3> QED BY <1>2, <3>1 DEF Ring
  <2>4. Len(output) = y /\ output \in Seq(Nat \cup {Empty})
    <3>1. y + 0 = y
      OBVIOUS
    <3> QED BY <1>2, <2>2, <3>1 DEF Ring
  <2>5. /\ output' \in Seq(Nat \cup {Empty}) /\ Len(output') = y + 1
        /\ output'[y + 1] = y /\ \A i \in 1 .. y : output'[i] = output[i]
    BY <2>1, <2>3, <2>4, AppendProperties
  <2>6. \A i \in 1 .. Len(output') : output'[i] = i - 1
    <3>1. \A i \in 1 .. y + 1 : i \in 1 .. y \/ i = y + 1
      OBVIOUS
    <3>2. (y + 1) - 1 = y
      OBVIOUS
    <3>3. \A i \in 1 .. y : output[i] = i - 1
      BY <2>4 DEF Ring
    <3> QED BY <2>5, <3>1, <3>2, <3>3
  <2>7. Len(output') = turn'["consumer"] + Seen'
    BY <1>2, <2>1, <2>2, <2>5
  <2>8. /\ buffer_slots' = Slots - turn'["producer"] - Ahead' + turn'["consumer"] - Unfreed'
        /\ buffer_items' = turn'["producer"] - Unposted' - turn'["consumer"] - Taken'
        /\ buffer_slots' \in Nat /\ buffer_items' \in Nat
    BY <1>5, <2>1, <2>2 DEF Ring
  <2>9. /\ pc'["producer"] \in {"start", "place", "post", "done"}
        /\ pc'["consumer"] \in {"start", "read", "clear", "post", "done"}
        /\ buffer' \in [0 .. Slots - 1 -> Nat \cup {Empty}]
        /\ \A i \in turn'["consumer"] .. turn'["producer"] - 1 : buffer'[i % Slots] = i
    BY <1>4, <2>1 DEF Ring
  <2> QED BY <2>5, <2>6, <2>7, <2>8, <2>9, Zenon DEF Ring
<1>9. CASE pc["consumer"] = "clear"
  <2>1. /\ buffer' = [buffer EXCEPT ![y % Slots] = Empty]
        /\ pc'["consumer"] = "post" /\ turn'["consumer"] = y + 1 /\ output' = output
        /\ buffer_slots' = buffer_slots /\ buffer_items' = buffer_items
    BY <1>1, <1>2, <1>9 DEF ReadFromHead, Go, Looped
  <2>2. Taken = 1 /\ Taken' = 0 /\ Unfreed = 0 /\ Unfreed' = 1 /\ Seen = 1 /\ Seen' = 0
    BY <1>9, <2>1 DEF Taken, Unfreed, Seen
  <2>3. /\ buffer_items = x - u - y - 1 /\ buffer_slots = Slots - x - d + y - 0
    BY <1>2, <1>6, <2>2 DEF Ring
  <2>4. /\ buffer_items = x - u - (y + 1) - 0 /\ buffer_slots = Slots - x - d + (y + 1) - 1
    BY <1>3, <2>3
  <2>5. /\ buffer_slots' = Slots - turn'["producer"] - Ahead' + turn'["consumer"] - Unfreed'
        /\ buffer_items' = turn'["producer"] - Unposted' - turn'["consumer"] - Taken'
        /\ buffer_slots' \in Nat /\ buffer_items' \in Nat
    <3>1. buffer_slots \in Nat /\ buffer_items \in Nat
      BY DEF Ring
    <3> QED BY <1>2, <1>4, <1>5, <1>6, <2>1, <2>2, <2>4, <3>1
  <2>6. buffer \in [0 .. Slots - 1 -> Nat \cup {Empty}] /\ y % Slots \in 0 .. Slots - 1
    BY SlotOf DEF Ring
  <2>7. buffer' \in [0 .. Slots - 1 -> Nat \cup {Empty}]
    BY <2>1, <2>6
  <2>8. ASSUME NEW i \in y + 1 .. x - 1 PROVE buffer'[i % Slots] = i
    <3>1. i \in Nat /\ i \in y .. x - 1 /\ y < i /\ i - y < Slots
      BY <1>3
    <3>2. i % Slots # y % Slots
      BY <1>3, <3>1, RemaindersApart
    <3>3. i % Slots \in 0 .. Slots - 1
      BY <3>1, SlotOf
    <3>4. buffer[i % Slots] = i
      BY <1>2, <3>1 DEF Ring
    <3> QED BY <2>1, <2>6, <3>2, <3>3, <3>4
  <2>9. \A i \in turn'["consumer"] .. turn'["producer"] - 1 : buffer'[i % Slots] = i
    BY <1>2, <1>4, <2>1, <2>8
  <2>10. Len(output') = turn'["consumer"] + Seen'
    <3>1. Len(output) = y + 1 /\ y + 1 = (y + 1) + 0
      BY <1>2, <2>2 DEF Ring
    <3> QED BY <2>1, <2>2, <3>1
  <2>11. /\ pc'["producer"] \in {"start", "place", "post", "done"}
         /\ pc'["consumer"] \in {"start", "read", "clear", "post", "done"}
         /\ output' \in Seq(Nat \cup {Empty})
         /\ \A i \in 1 .. Len(output') : output'[i] = i - 1
    BY <1>4, <2>1 DEF Ring
  <2> QED BY <2>5, <2>7, <2>9, <2>10, <2>11, Zenon DEF Ring
<1>10. CASE pc["consumer"] = "post"
  <2>1. /\ buffer_slots' = buffer_slots + 1 /\ buffer_items' = buffer_items
        /\ pc'["consumer"] \in {"done", "start"} /\ turn' = turn /\ buffer' = buffer
        /\ output' = output
    BY <1>1, <1>10 DEF ReadFromHead, Go
  <2>2. Taken = 0 /\ Taken' = 0 /\ Unfreed = 1 /\ Unfreed' = 0 /\ Seen = 0 /\ Seen' = 0
    BY <1>10, <2>1 DEF Taken, Unfreed, Seen
  <2>3. /\ buffer_items = x - u - y - 0 /\ buffer_slots = Slots - x - d + y - 1
        /\ buffer_slots \in Nat
    BY <1>2, <1>6, <2>2 DEF Ring
  <2>4. buffer_slots' \in Nat /\ buffer_slots' = Slots - x - d + y - 0
    BY <1>3, <2>1, <2>3
  <2>5. /\ buffer_slots' = Slots - turn'["producer"] - Ahead' + turn'["consumer"] - Unfreed'
        /\ buffer_items' = turn'["producer"] - Unposted' - turn'["consumer"] - Taken'
    BY <1>2, <1>5, <1>6, <2>1, <2>2, <2>3, <2>4
  <2> QED BY <1>4, <2>1, <2>2, <2>4, <2>5 DEF Ring
<1> QED BY <1>7, <1>8, <1>9, <1>10 DEF ReadFromHead

-----------------------------------------------------------------------------
(* The threads: the theorems.                                              *)

\* Every step of every exercise keeps the invariant.
LEMMA ThreadInvStep ==
  ASSUME ThreadInv, [ThreadNext]_threadVars
  PROVE  ThreadInv'
<1>1. ASSUME NEW t \in DOMAIN pc, Step(t) \/ Spurious(t)
      PROVE  ThreadInv'
  <2>1. ThreadTypes' /\ exercise' = exercise
    BY <1>1, TypesStep DEF ThreadInv
  <2>2. exercise \in {"t2", "cond"} => Chain'
    BY <1>1, ChainStep DEF ThreadInv
  <2>3. exercise = "count" => Counted'
    BY <1>1, CountedStep DEF ThreadInv
  <2>4. exercise = "t3" => Supplied'
    BY <1>1, SuppliedStep DEF ThreadInv
  <2>5. exercise = "sem" => Ring'
    BY <1>1, Belongs, PlaceStep, ReadStep DEF ThreadInv
  <2> QED BY <2>1, <2>2, <2>3, <2>4, <2>5 DEF ThreadInv
<1>2. CASE UNCHANGED threadVars
  <2>1. /\ exercise' = exercise /\ pc' = pc /\ turn' = turn /\ v' = v /\ flag' = flag
        /\ output' = output /\ supply' = supply /\ produced' = produced
        /\ num_cons_remaining' = num_cons_remaining /\ buffer' = buffer
        /\ buffer_items' = buffer_items /\ buffer_slots' = buffer_slots
    BY <1>2 DEF threadVars, counters, t3vars, semvars
  <2>2. /\ Ahead' = Ahead /\ Unposted' = Unposted /\ Taken' = Taken
        /\ Unfreed' = Unfreed /\ Seen' = Seen
    BY <2>1 DEF Ahead, Unposted, Taken, Unfreed, Seen
  <2>3. ThreadTypes'
    BY <2>1 DEF ThreadInv, ThreadTypes
  <2>4. exercise \in {"t2", "cond"} => Chain'
    BY <2>1 DEF ThreadInv, Chain
  <2>5. exercise = "count" => Counted'
    BY <2>1 DEF ThreadInv, Counted
  <2>6. exercise = "t3" => Supplied'
    BY <2>1 DEF ThreadInv, Supplied
  <2>7. exercise = "sem" => Ring'
    BY <2>1, <2>2 DEF ThreadInv, Ring
  <2> QED BY <2>1, <2>3, <2>4, <2>5, <2>6, <2>7 DEF ThreadInv
<1> QED BY <1>1, <1>2 DEF ThreadNext

\* A prefix is a subsequence from the first place on.
LEMMA FirstPart ==
  ASSUME NEW S, NEW s \in Seq(S), NEW u \in Seq(S), Len(u) <= Len(s),
         \A i \in 1 .. Len(u) : u[i] = s[i]
  PROVE  u = SubSeq(s, 1, Len(u))
<1> DEFINE r == SubSeq(s, 1, Len(u))
<1>1. PICK m \in Nat : m = Len(u)
  BY LenProperties
<1>2. PICK n \in Nat : n = Len(s) /\ m <= n
  BY <1>1, LenProperties
<1>3. \A i \in 1 .. m : 1 + i - 1 = i /\ s[i] \in S
  <2>1. \A i \in 1 .. m : i \in 1 .. n /\ 1 + i - 1 = i
    BY <1>2
  <2> QED BY <1>2, <2>1, ElementOfSeq
<1>4. m - 1 + 1 = m /\ (1 <= m \/ m = 0)
  OBVIOUS
<1>5. r \in Seq(S) /\ Len(r) = m /\ \A i \in 1 .. m : r[i] = s[i]
  BY <1>1, <1>3, <1>4, SubSeqProperties
<1> HIDE DEF r
<1>6. u = r
  <2>1. Len(u) = Len(r) /\ \A i \in 1 .. Len(u) : u[i] = r[i]
    BY <1>1, <1>5
  <2> QED BY <1>5, <2>1, SeqEqual
<1> QED BY <1>6 DEF r

\* The threads of an exercise take turns on what its invariant says.
THEOREM ThreadsInvariance == ThreadInit /\ [][ThreadNext]_threadVars => []ThreadInv
<1>1. ThreadInit => ThreadInv
  BY ThreadInvInit
<1>2. ThreadInv /\ [ThreadNext]_threadVars => ThreadInv'
  BY ThreadInvStep
<1> QED BY <1>1, <1>2, PTL

\* The lines of t2 and cond_example come in their order, spurious wakeups and
\* all; sem_example reads the elements in the order they were placed, none from
\* a slot that was used again; no round of threaded_count is lost; and t3 has
\* between nothing and one production in supply.
THEOREM SharingIsInOrder ==
  ThreadInit /\ [][ThreadNext]_threadVars => []SharedInOrder
<1>1. ThreadInv => SharedInOrder
  <2> SUFFICES ASSUME ThreadInv PROVE SharedInOrder
    OBVIOUS
  <2>1. ASSUME exercise \in {"t2", "cond"}
        PROVE  output = SubSeq(<<"hello", "world", "again">>, 1, Len(output))
    <3> DEFINE S == {"hello", "world", "again"}
               s == <<"hello", "world", "again">>
    <3>1. s \in Seq(S) /\ Len(s) = 3 /\ s[1] = "hello" /\ s[2] = "world" /\ s[3] = "again"
      OBVIOUS
    <3>2. /\ output \in Seq(S) /\ Len(output) \in 0 .. 3
          /\ 1 <= Len(output) => output[1] = "hello"
          /\ 2 <= Len(output) => output[2] = "world"
          /\ 3 <= Len(output) => output[3] = "again"
      <4>1. \/ output = <<>> \/ output = <<"hello">> \/ output = <<"hello", "world">>
            \/ output = s
        BY <2>1 DEF ThreadInv, Chain
      <4>2. CASE output = <<>>
        BY <4>2
      <4>3. CASE output = <<"hello">>
        BY <4>3
      <4>4. CASE output = <<"hello", "world">>
        BY <4>4
      <4>5. CASE output = s
        BY <4>5
      <4> QED BY <4>1, <4>2, <4>3, <4>4, <4>5
    <3> HIDE DEF s, S
    <3>3. \A i \in 1 .. Len(output) : output[i] = s[i]
      <4>1. \A n \in 0 .. 3 : \A i \in 1 .. n :
              (i = 1 /\ 1 <= n) \/ (i = 2 /\ 2 <= n) \/ (i = 3 /\ 3 <= n)
        OBVIOUS
      <4> QED BY <3>1, <3>2, <4>1
    <3>4. Len(output) <= Len(s)
      <4>1. \A n \in 0 .. 3 : n <= 3
        OBVIOUS
      <4>2. Len(output) \in 0 .. 3 /\ Len(s) = 3
        BY <3>1, <3>2
      <4> QED BY <4>1, <4>2, Zenon
    <3>5. output = SubSeq(s, 1, Len(output))
      BY <3>1, <3>2, <3>3, <3>4, FirstPart
    <3> QED BY <3>5 DEF s
  <2>2. ASSUME exercise = "sem" PROVE \A i \in DOMAIN output : output[i] = i - 1
    <3>1. output \in Seq(Nat \cup {Empty}) /\ \A i \in 1 .. Len(output) : output[i] = i - 1
      BY <2>2 DEF ThreadInv, Ring
    <3> QED BY <3>1, LenProperties
  <2>3. ASSUME exercise = "count", Joined PROVE v = 2 * Rounds
    <3>1. DOMAIN pc = {"t1", "t2"}
      BY <2>3, ThreadsAre DEF ThreadInv, ThreadTypes
    <3>2. v = Rounds + Rounds
      BY <2>3, <3>1 DEF ThreadInv, Counted, Joined
    <3>3. \A n \in Nat : n + n = 2 * n
      OBVIOUS
    <3> QED BY <3>2, <3>3, SizesAssumption
  <2> QED BY <2>1, <2>2, <2>3 DEF SharedInOrder, ThreadInv, Supplied
<1>2. []ThreadInv => []SharedInOrder
  BY <1>1, PTL
<1> QED BY <1>2, ThreadsInvariance

-----------------------------------------------------------------------------
(* The device: the inductive invariant.                                    *)

Char == Nat \cup Data

DeviceTypes ==
  /\ msg \in [1 .. BUF_LEN -> Char]
  /\ msg_ptr \in Nat \ {0}
  /\ counter \in Nat
  /\ got \in [Files -> Seq(Char)]

\* The device is closed, or has one user and one position in the message.
OneUser ==
  \/ isOpen = {} /\ Device_Open = 0
  \/ \E f \in Files :
       /\ isOpen = {f} /\ Device_Open = 1
       /\ Len(got[f]) = msg_ptr - 1
       /\ \A k \in 1 .. Len(got[f]) : k <= BUF_LEN => got[f][k] = msg[k] /\ msg[k] # NUL
       /\ driver = "hello" => msg[2] = NUL

DeviceInv == DeviceTypes /\ OneUser

\* What lies ahead of the position is the message, none of it NUL, as far as
\* msg goes.
LEMMA UnreadIsMessage ==
  ASSUME DeviceTypes, NEW rest \in Beyond
  PROVE  /\ Unread(rest) \in Seq(Char)
         /\ \A k \in 1 .. Len(Unread(rest)) :
              msg_ptr + k - 1 <= BUF_LEN => /\ Unread(rest)[k] = msg[msg_ptr + k - 1]
                                            /\ msg[msg_ptr + k - 1] # NUL
<1> DEFINE ends == {i \in msg_ptr .. BUF_LEN : msg[i] = NUL}
<1>1. /\ BUF_LEN \in Nat /\ msg \in [1 .. BUF_LEN -> Char]
      /\ msg_ptr \in Nat /\ 1 <= msg_ptr
  BY BufferAssumption DEF DeviceTypes
<1>2. rest \in Seq(Char)
  <2>1. rest \in Seq(Nat \ {0})
    BY BufferAssumption
  <2>2. Nat \ {0} \subseteq Char
    BY DEF Char
  <2>3. Len(rest) \in Nat /\ rest \in [1 .. Len(rest) -> Nat \ {0}]
    BY <2>1, LenProperties
  <2>4. rest \in [1 .. Len(rest) -> Char]
    BY <2>2, <2>3
  <2> QED BY <2>3, <2>4, IsASeq
<1>3. ASSUME NEW m \in msg_ptr - 1 .. BUF_LEN
      PROVE  /\ SubSeq(msg, msg_ptr, m) \in Seq(Char)
             /\ Len(SubSeq(msg, msg_ptr, m)) = m - msg_ptr + 1
             /\ \A k \in 1 .. m - msg_ptr + 1 :
                  SubSeq(msg, msg_ptr, m)[k] = msg[msg_ptr + k - 1]
  <2>1. \A i \in msg_ptr .. m : i \in 1 .. BUF_LEN
    BY <1>1
  <2>2. \A i \in msg_ptr .. m : msg[i] \in Char
    BY <1>1, <2>1
  <2>3. m \in Int /\ msg_ptr \in Int /\ (msg_ptr <= m \/ m - msg_ptr + 1 = 0)
    BY <1>1
  <2> QED BY <2>2, <2>3, SubSeqProperties
<1>4. CASE ends # {}
  <2> DEFINE first == CHOOSE i \in ends : \A j \in ends : i <= j
  <2>1. Unread(rest) = SubSeq(msg, msg_ptr, first - 1)
    BY <1>4 DEF Unread
  <2>2. \E i \in ends : \A j \in ends : i <= j
    <3>1. ends \in SUBSET (1 .. BUF_LEN)
      BY <1>1
    <3> HIDE DEF ends
    <3> QED BY <1>1, <1>4, <3>1, Least
  <2>3. first \in ends /\ \A j \in ends : first <= j
    <3> HIDE DEF ends
    <3> QED BY <2>2
  <2> HIDE DEF first
  <2>4. /\ first \in msg_ptr .. BUF_LEN /\ first - 1 \in msg_ptr - 1 .. BUF_LEN
        /\ first - 1 \in Int
    BY <1>1, <2>3
  <2>5. ASSUME NEW i \in msg_ptr .. first - 1 PROVE msg[i] # NUL
    <3>1. i \in msg_ptr .. BUF_LEN /\ ~(first <= i)
      BY <1>1, <2>4
    <3> QED BY <2>3, <3>1
  <2> DEFINE m == first - 1
  <2>6. m \in msg_ptr - 1 .. BUF_LEN
    BY <2>4
  <2>7. Unread(rest) = SubSeq(msg, msg_ptr, m)
    BY <2>1
  <2>8. \A i \in msg_ptr .. m : msg[i] # NUL
    BY <2>5
  <2> HIDE DEF m
  <2>9. \A k \in 1 .. m - msg_ptr + 1 : msg_ptr + k - 1 \in msg_ptr .. m
    BY <1>1, <2>6
  <2>10. \A k \in 1 .. m - msg_ptr + 1 : msg[msg_ptr + k - 1] # NUL
    BY <2>8, <2>9
  <2> QED BY <1>3, <2>6, <2>7, <2>10
<1>5. CASE ends = {}
  <2>1. Unread(rest) = SubSeq(msg, msg_ptr, BUF_LEN) \o rest
    BY <1>5 DEF Unread
  <2>2. \A i \in msg_ptr .. BUF_LEN : msg[i] # NUL
    BY <1>5
  <2>3. CASE msg_ptr <= BUF_LEN
    <3> DEFINE s == SubSeq(msg, msg_ptr, BUF_LEN)
               n == BUF_LEN - msg_ptr + 1
    <3>1. BUF_LEN \in msg_ptr - 1 .. BUF_LEN
      BY <1>1, <2>3
    <3>2. s \in Seq(Char) /\ Len(s) = n /\ \A k \in 1 .. n : s[k] = msg[msg_ptr + k - 1]
      BY <1>3, <3>1
    <3> HIDE DEF s
    <3>3. /\ s \o rest \in Seq(Char)
          /\ \A k \in 1 .. Len(s) : (s \o rest)[k] = s[k]
      <4>1. s \o rest \in Seq(Char) /\ Len(s \o rest) = Len(s) + Len(rest)
        BY <1>2, <3>2, ConcatProperties
      <4>2. Len(rest) \in Nat /\ Len(s) \in Nat
        BY <1>2, <3>2, LenProperties
      <4>3. \A k \in 1 .. Len(s) : k \in 1 .. Len(s) + Len(rest) /\ k <= Len(s)
        BY <4>2
      <4> QED BY <1>2, <3>2, <4>1, <4>3, ConcatProperties
    <3>4. Len(s \o rest) \in Nat
      BY <3>3, LenProperties
    <3>5. PICK l \in Nat : l = Len(s \o rest)
      BY <3>4
    <3>6. \A k \in 1 .. l : msg_ptr + k - 1 <= BUF_LEN =>
            k \in 1 .. n /\ msg_ptr + k - 1 \in msg_ptr .. BUF_LEN
      BY <1>1, <2>3
    <3>7. \A k \in 1 .. l : msg_ptr + k - 1 <= BUF_LEN =>
            (s \o rest)[k] = msg[msg_ptr + k - 1] /\ msg[msg_ptr + k - 1] # NUL
      BY <2>2, <3>2, <3>3, <3>6
    <3> QED BY <2>1, <3>3, <3>5, <3>7 DEF s
  <2>4. CASE ~(msg_ptr <= BUF_LEN)
    <3>1. BUF_LEN < msg_ptr /\ BUF_LEN \in Int /\ msg_ptr \in Int
      BY <1>1, <2>4
    <3>2. SubSeq(msg, msg_ptr, BUF_LEN) = <<>>
      BY <3>1, SubSeqEmpty
    <3>3. <<>> \o rest = rest
      BY <1>2, ConcatEmptySeq
    <3>4. Unread(rest) = rest
      BY <2>1, <3>2, <3>3
    <3>5. Len(rest) \in Nat
      BY <1>2, LenProperties
    <3>6. PICK l \in Nat : l = Len(rest)
      BY <3>5
    <3>7. \A k \in 1 .. l : ~(msg_ptr + k - 1 <= BUF_LEN)
      BY <1>1, <3>1
    <3> QED BY <1>2, <3>4, <3>6, <3>7
  <2> QED BY <2>3, <2>4
<1> QED BY <1>4, <1>5

-----------------------------------------------------------------------------
(* The device: every handler.                                              *)

\* Who has the device open is its only user.
LEMMA TheUser ==
  ASSUME DeviceInv, NEW f \in isOpen
  PROVE  isOpen = {f} /\ Device_Open = 1
  BY DEF DeviceInv, OneUser

\* Where the position starts again nothing has been read.
LEMMA NothingRead ==
  ASSUME DeviceInv, NEW f \in Files, isOpen' = {f}, Device_Open' = 1, msg_ptr' = 1,
         got' = [got EXCEPT ![f] = <<>>], driver' = "hello" => msg'[2] = NUL
  PROVE  OneUser'
<1>1. got'[f] = <<>>
  BY DEF DeviceInv, DeviceTypes
<1>2. Len(got'[f]) = 0
  BY <1>1
<1>3. Len(got'[f]) = msg_ptr' - 1
  BY <1>2
<1>4. \A k \in 1 .. Len(got'[f]) : FALSE
  BY <1>2
<1> QED BY <1>3, <1>4 DEF OneUser

\* device_open keeps the invariant: it fails while the device is open.
LEMMA OpenKeeps ==
  ASSUME DeviceInv, NEW f \in Files, device_open(f)
  PROVE  DeviceInv'
<1>1. /\ Device_Open = 0 /\ Device_Open' = Device_Open + 1 /\ isOpen' = isOpen \cup {f}
      /\ msg_ptr' = 1 /\ got' = [got EXCEPT ![f] = <<>>]
      /\ \/ counter' = counter + 1 /\ msg' = Greeting(counter)
         \/ UNCHANGED <<counter, msg>>
  BY DEF device_open
<1>2. isOpen = {}
  BY <1>1 DEF DeviceInv, OneUser
<1>3. DeviceTypes'
  <2>1. counter + 1 \in Nat /\ counter + 1 \in Char /\ NUL \in Char /\ counter \in Nat
    BY DEF DeviceInv, DeviceTypes, Char, NUL
  <2>2. msg' \in [1 .. BUF_LEN -> Char]
    BY <1>1, <2>1 DEF DeviceInv, DeviceTypes, Greeting
  <2>3. got' \in [Files -> Seq(Char)]
    BY <1>1 DEF DeviceInv, DeviceTypes
  <2>4. msg_ptr' \in Nat \ {0} /\ counter' \in Nat
    BY <1>1, <2>1
  <2> QED BY <2>2, <2>3, <2>4 DEF DeviceTypes
<1>4. driver' = "hello" => msg'[2] = NUL
  <2>1. driver' = driver /\ (driver = "hello" => msg' = Greeting(counter))
    BY DEF device_open
  <2>2. 2 \in 1 .. BUF_LEN
    BY BufferAssumption
  <2>3. msg' = Greeting(counter) => msg'[2] = NUL
    BY <2>2 DEF Greeting, DeviceInv, DeviceTypes
  <2> QED BY <2>1, <2>3
<1>5. OneUser'
  <2>1. isOpen' = {f} /\ Device_Open' = 1
    BY <1>1, <1>2
  <2> QED BY <1>1, <1>4, <2>1, NothingRead
<1> QED BY <1>3, <1>5 DEF DeviceInv

\* device_release keeps the invariant.
LEMMA ReleaseKeeps ==
  ASSUME DeviceInv, NEW f \in Files, device_release(f)
  PROVE  DeviceInv'
<1>1. /\ f \in isOpen /\ isOpen' = isOpen \ {f} /\ Device_Open' = Device_Open - 1
      /\ UNCHANGED <<driver, msg, msg_ptr, counter, got>>
  BY DEF device_release
<1>2. isOpen = {f} /\ Device_Open = 1
  BY <1>1 DEF DeviceInv, OneUser
<1>3. isOpen' = {} /\ Device_Open' = 0
  BY <1>1, <1>2
<1>4. DeviceTypes'
  BY <1>1 DEF DeviceInv, DeviceTypes
<1> QED BY <1>3, <1>4 DEF DeviceInv, OneUser

\* device_read keeps the invariant: it goes on where the last read stopped.
LEMMA ReadKeeps ==
  ASSUME DeviceInv, NEW f \in Files, device_read(f)
  PROVE  DeviceInv'
<1>1. /\ f \in isOpen /\ UNCHANGED <<driver, Device_Open, msg, counter, isOpen>>
  BY DEF device_read
<1>2. PICK length \in 1 .. MaxLength, rest \in Beyond :
        LET left == Len(Unread(rest))
            n == IF length < left THEN length ELSE left
        IN  /\ msg_ptr' = msg_ptr + n
            /\ got' = [got EXCEPT ![f] = @ \o SubSeq(Unread(rest), 1, n)]
  BY DEF device_read
<1>3. PICK s \in Seq(Char) :
        /\ s = Unread(rest)
        /\ \A k \in 1 .. Len(s) : msg_ptr + k - 1 <= BUF_LEN =>
             s[k] = msg[msg_ptr + k - 1] /\ msg[msg_ptr + k - 1] # NUL
  BY UnreadIsMessage DEF DeviceInv
<1>4. PICK left \in Nat : left = Len(s)
  BY LenProperties
<1>5. PICK n \in 0 .. left : /\ msg_ptr' = msg_ptr + n
                             /\ got' = [got EXCEPT ![f] = @ \o SubSeq(s, 1, n)]
  <2> DEFINE n == IF length < left THEN length ELSE left
  <2>1. n \in 0 .. left
    BY <1>4
  <2>2. msg_ptr' = msg_ptr + n /\ got' = [got EXCEPT ![f] = @ \o SubSeq(s, 1, n)]
    BY <1>2, <1>3, <1>4
  <2> HIDE DEF n
  <2> QED BY <2>1, <2>2
<1>6. /\ isOpen = {f} /\ Device_Open = 1
      /\ driver = "hello" => msg[2] = NUL
      /\ Len(got[f]) = msg_ptr - 1
      /\ \A k \in 1 .. Len(got[f]) : k <= BUF_LEN => got[f][k] = msg[k] /\ msg[k] # NUL
  BY <1>1 DEF DeviceInv, OneUser
<1>7. /\ got \in [Files -> Seq(Char)] /\ got[f] \in Seq(Char)
      /\ msg_ptr \in Nat \ {0} /\ BUF_LEN \in Nat
  BY BufferAssumption DEF DeviceInv, DeviceTypes
<1> DEFINE new == SubSeq(s, 1, n)
           p == msg_ptr - 1
<1>8. /\ new \in Seq(Char) /\ Len(new) = n
      /\ \A k \in 1 .. n : new[k] = s[k]
  <2>1. \A k \in 1 .. n : k \in 1 .. left /\ 1 + k - 1 = k
    BY <1>4
  <2>2. \A k \in 1 .. n : s[k] \in Char
    BY <1>3, <1>4, <2>1, ElementOfSeq
  <2>3. 1 \in Int /\ n \in Int /\ (1 <= n \/ n = 0) /\ n - 1 + 1 = n
    BY <1>4
  <2> QED BY <2>1, <2>2, <2>3, SubSeqProperties
<1> HIDE DEF new
<1>9. got'[f] = got[f] \o new /\ got'[f] \in Seq(Char) /\ Len(got'[f]) = p + n
  <2>1. got'[f] = got[f] \o new
    BY <1>5, <1>7 DEF new
  <2>2. got[f] \o new \in Seq(Char) /\ Len(got[f] \o new) = Len(got[f]) + Len(new)
    BY <1>7, <1>8, ConcatProperties
  <2>3. Len(got[f]) = p /\ Len(new) = n
    BY <1>6, <1>8
  <2> HIDE DEF p
  <2> QED BY <2>1, <2>2, <2>3
<1>10. ASSUME NEW k \in 1 .. p + n, k <= BUF_LEN
       PROVE  got'[f][k] = msg[k] /\ msg[k] # NUL
  <2>1. p \in Nat /\ n \in Nat
    BY <1>4, <1>7
  <2>2. got'[f][k] = IF k <= p THEN got[f][k] ELSE new[k - p]
    <3>1. k \in 1 .. Len(got[f]) + Len(new)
      BY <1>6, <1>8
    <3> QED BY <1>6, <1>7, <1>8, <1>9, <3>1, ConcatProperties
  <2>3. CASE k <= p
    <3>1. k \in 1 .. Len(got[f])
      BY <1>6, <2>1, <2>3
    <3> QED BY <1>6, <1>10, <2>2, <2>3, <3>1
  <2>4. CASE ~(k <= p)
    <3>1. k - p \in 1 .. n /\ k - p \in 1 .. left /\ msg_ptr + (k - p) - 1 = k
      BY <1>7, <2>1, <2>4
    <3>2. new[k - p] = s[k - p]
      BY <1>8, <3>1
    <3>3. s[k - p] = msg[k] /\ msg[k] # NUL
      BY <1>3, <1>4, <1>10, <3>1
    <3> QED BY <2>2, <2>4, <3>2, <3>3
  <2> QED BY <2>3, <2>4
<1>11. DeviceTypes'
  <2>1. got' \in [Files -> Seq(Char)]
    BY <1>5, <1>7, <1>9
  <2>2. msg_ptr' \in Nat \ {0}
    BY <1>4, <1>5, <1>7
  <2> QED BY <1>1, <2>1, <2>2 DEF DeviceInv, DeviceTypes
<1>12. p + n = msg_ptr' - 1
  BY <1>4, <1>5, <1>7
<1>13. OneUser'
  BY <1>1, <1>6, <1>9, <1>10, <1>12 DEF OneUser
<1> QED BY <1>11, <1>13 DEF DeviceInv

\* device_write keeps the invariant: the message and its pointer start again.
LEMMA WriteKeeps ==
  ASSUME DeviceInv, NEW f \in Files, device_write(f)
  PROVE  DeviceInv'
<1>1. /\ f \in isOpen /\ msg_ptr' = 1 /\ got' = [got EXCEPT ![f] = <<>>]
      /\ UNCHANGED <<driver, Device_Open, counter, isOpen>>
  BY DEF device_write
<1>2. isOpen = {f} /\ Device_Open = 1
  BY <1>1, TheUser
<1>3. PICK len \in 1 .. MaxLength : \E text \in [1 .. len -> Data] :
        msg' = [i \in 1 .. BUF_LEN |-> IF i <= Len(text) THEN Reverse(text)[i] ELSE msg[i]]
  BY DEF device_write
<1>. PICK text \in [1 .. len -> Data] :
        msg' = [i \in 1 .. BUF_LEN |-> IF i <= Len(text) THEN Reverse(text)[i] ELSE msg[i]]
  BY <1>3
<1>4. len \in Nat
  BY <1>3
<1>5. Len(text) = len
  BY <1>4, IsASeq, LenProperties
<1>6. \A i \in 1 .. len : Reverse(text)[i] \in Data
  <2>1. \A i \in 1 .. len : (len - i) + 1 \in 1 .. len
    BY <1>4
  <2>2. \A i \in 1 .. len : Reverse(text)[i] = text[(len - i) + 1]
    BY <1>5 DEF Reverse
  <2> QED BY <2>1, <2>2
<1>7. \A i \in 1 .. BUF_LEN : i <= len => i \in 1 .. len
  BY <1>4, BufferAssumption
<1>8. msg' \in [1 .. BUF_LEN -> Char]
  BY <1>3, <1>5, <1>6, <1>7 DEF DeviceInv, DeviceTypes, Char
<1>9. DeviceTypes'
  <2>1. got' \in [Files -> Seq(Char)]
    BY <1>1 DEF DeviceInv, DeviceTypes
  <2> QED BY <1>1, <1>8, <2>1 DEF DeviceInv, DeviceTypes
<1>10. driver' # "hello"
  BY DEF device_write
<1>11. OneUser'
  <2>1. isOpen' = {f} /\ Device_Open' = 1
    BY <1>1, <1>2
  <2> QED BY <1>1, <1>10, <2>1, NothingRead
<1> QED BY <1>9, <1>11 DEF DeviceInv

-----------------------------------------------------------------------------
(* The device: the theorem.                                                *)

\* The invariant holds when the module has been loaded.
LEMMA DeviceInvInit ==
  ASSUME DeviceInit
  PROVE  DeviceInv
<1>1. DeviceTypes
  BY DEF DeviceInit, DeviceTypes, Char, NUL
<1> QED BY <1>1 DEF DeviceInit, DeviceInv, OneUser

\* device_open turns every other user away until device_release, so that what a
\* file reads is the message from its start up to the position of the driver,
\* and a device that nobody has open can be opened.
THEOREM DeviceHasOneReader ==
  DeviceInit /\ [][DeviceNext]_deviceVars => []OneReaderAtATime
<1>1. DeviceInit => DeviceInv
  BY DeviceInvInit
<1>2. DeviceInv /\ [DeviceNext]_deviceVars => DeviceInv'
  <2> SUFFICES ASSUME DeviceInv, [DeviceNext]_deviceVars PROVE DeviceInv'
    OBVIOUS
  <2>1. ASSUME NEW f \in Files,
               device_open(f) \/ device_release(f) \/ device_read(f) \/ device_write(f)
        PROVE  DeviceInv'
    BY <2>1, OpenKeeps, ReleaseKeeps, ReadKeeps, WriteKeeps
  <2>2. CASE UNCHANGED deviceVars
    BY <2>2 DEF deviceVars, DeviceInv, DeviceTypes, OneUser
  <2> QED BY <2>1, <2>2 DEF DeviceNext
<1>3. DeviceInv => OneReaderAtATime
  <2> SUFFICES ASSUME DeviceInv PROVE OneReaderAtATime
    OBVIOUS
  <2>1. isOpen = {} => Device_Open = 0
    BY DEF DeviceInv, OneUser
  <2>2. ASSUME NEW f \in isOpen
        PROVE  /\ Len(got[f]) = msg_ptr - 1
               /\ \A k \in DOMAIN got[f] : k <= BUF_LEN => got[f][k] = msg[k] /\ msg[k] # NUL
               /\ driver = "hello" => Len(got[f]) < BUF_LEN
    <3>1. /\ f \in Files /\ Len(got[f]) = msg_ptr - 1
          /\ \A k \in 1 .. Len(got[f]) : k <= BUF_LEN => got[f][k] = msg[k] /\ msg[k] # NUL
          /\ driver = "hello" => msg[2] = NUL
      BY DEF DeviceInv, OneUser
    <3>2. got[f] \in Seq(Char) /\ BUF_LEN \in Nat \ {0, 1}
      BY <3>1, BufferAssumption DEF DeviceInv, DeviceTypes
    <3>3. PICK l \in Nat : l = Len(got[f])
      BY <3>2, LenProperties
    <3>4. DOMAIN got[f] = 1 .. l
      BY <3>2, <3>3, LenProperties
    <3>5. ASSUME driver = "hello" PROVE l < BUF_LEN
      <4>1. ~(2 \in 1 .. l)
        BY <3>1, <3>2, <3>3, <3>5
      <4> QED BY <3>2, <3>3, <4>1
    <3> QED BY <3>1, <3>3, <3>4, <3>5
  <2> QED BY <2>1, <2>2 DEF OneReaderAtATime
<1> QED BY <1>1, <1>2, <1>3, PTL

-----------------------------------------------------------------------------
(* The shell: the inductive invariant.                                     *)

\* No number is twice in a list of children that still count.
AllApart(s) == \A i, k \in 1 .. Len(s) : s[i] = s[k] => i = k

ShellTypes ==
  /\ place \in {"top", "read", "run", "wait", "ended"}
  /\ line \in Lines
  /\ jobs \in Seq(Pids) /\ children \in Seq(Pids) /\ AllApart(children)
  /\ \A p \in zombies : \E i \in 1 .. Len(children) : children[i] = p

\* The child the shell waits for is the last it started; the others are its jobs.
JobsAndForeground ==
  IF place = "wait" THEN foreground \in Pids /\ children = Append(jobs, foreground)
                    ELSE foreground = NoPid /\ jobs = children

\* Where the output goes, and what is in the environment.
OutputIs ==
  /\ place = "read" => stdout = "terminal"
  /\ place = "run" => stdout = IF line.redir = "file" THEN "file" ELSE "terminal"
EnvironmentIs ==
  \/ env = Unset /\ lastSet = Unset
  \/ lastSet \in Values /\ env = <<Prefix>> \o lastSet

ShellInv == ShellTypes /\ JobsAndForeground /\ OutputIs /\ EnvironmentIs

\* ldel and the kernel take out the first of a number.
LEMMA RemoveFirstIs ==
  ASSUME NEW S, NEW s \in Seq(S), NEW i \in 1 .. Len(s), AllApart(s)
  PROVE  /\ RemoveFirst(s, s[i]) = RemoveAt(s, i)
         /\ Ldel(s, s[i]) = RemoveAt(s, i)
<1>1. PICK e : e = s[i]
  OBVIOUS
<1>2. {k \in 1 .. Len(s) : s[k] = e} = {i}
  BY <1>1 DEF AllApart
<1>3. i <= i /\ DOMAIN s = 1 .. Len(s)
  BY LenProperties
<1>4. RemoveFirst(s, e) = RemoveAt(s, i)
  <2>1. \E k \in 1 .. Len(s) : s[k] = e
    BY <1>1
  <2>2. SelectInSeq(s, LAMBDA x : x = e) = i
    BY <1>2, <1>3 DEF SelectInSeq, Min
  <2> QED BY <2>1, <2>2 DEF RemoveFirst
<1>5. Ldel(s, e) = RemoveAt(s, i)
  BY <1>2, <1>3 DEF Ldel
<1> QED BY <1>1, <1>4, <1>5

\* What is left is apart, and has the others.
LEMMA Erased ==
  ASSUME NEW S, NEW s \in Seq(S), NEW i \in 1 .. Len(s), AllApart(s)
  PROVE  /\ RemoveAt(s, i) \in Seq(S) /\ AllApart(RemoveAt(s, i))
         /\ \A k \in 1 .. Len(s) :
              k # i => \E j \in 1 .. Len(RemoveAt(s, i)) : RemoveAt(s, i)[j] = s[k]
<1>1. PICK n, t : n \in Nat /\ n = Len(s) /\ t = RemoveAt(s, i)
  BY LenProperties
<1>2. /\ t \in Seq(S) /\ Len(t) = n - 1
      /\ \A j \in 1 .. n - 1 : t[j] = IF j < i THEN s[j] ELSE s[j + 1]
  <2>1. t = SubSeq(s, 1, i - 1) \o SubSeq(s, i + 1, Len(s))
    BY <1>1 DEF RemoveAt
  <2> QED BY <1>1, <2>1, ErasePlaces
<1>3. AllApart(t)
  BY <1>1, <1>2 DEF AllApart
<1>4. ASSUME NEW k \in 1 .. n, k # i PROVE \E j \in 1 .. n - 1 : t[j] = s[k]
  <2>1. CASE k < i
    <3>1. k \in 1 .. n - 1
      BY <1>1, <2>1
    <3> QED BY <1>2, <2>1, <3>1
  <2>2. CASE k > i
    <3>1. k - 1 \in 1 .. n - 1 /\ ~ (k - 1 < i) /\ (k - 1) + 1 = k
      BY <1>1, <2>2
    <3> QED BY <1>2, <3>1
  <2> QED BY <1>1, <1>4, <2>1, <2>2
<1> QED BY <1>1, <1>2, <1>3, <1>4

\* A list without its last element.
LEMMA ErasedLast ==
  ASSUME NEW S, NEW s \in Seq(S), NEW e \in S, AllApart(Append(s, e))
  PROVE  RemoveFirst(Append(s, e), e) = s
<1>1. PICK t, n : t = Append(s, e) /\ n \in Nat /\ n = Len(s)
  BY LenProperties
<1>2. t \in Seq(S) /\ Len(t) = n + 1 /\ t[n + 1] = e /\ \A j \in 1 .. n : t[j] = s[j]
  BY <1>1, AppendProperties
<1>3. PICK m : m = n + 1 /\ m \in 1 .. Len(t)
  BY <1>1, <1>2
<1>4. RemoveFirst(t, e) = RemoveAt(t, m)
  BY <1>1, <1>2, <1>3, RemoveFirstIs
<1>5. PICK u : u = RemoveAt(t, m)
  OBVIOUS
<1>6. /\ u \in Seq(S) /\ Len(u) = Len(t) - 1
      /\ \A j \in 1 .. Len(t) - 1 : u[j] = IF j < m THEN t[j] ELSE t[j + 1]
  <2>1. u = SubSeq(t, 1, m - 1) \o SubSeq(t, m + 1, Len(t))
    BY <1>5 DEF RemoveAt
  <2> QED BY <1>2, <1>3, <2>1, ErasePlaces
<1>7. Len(u) = n /\ \A j \in 1 .. n : u[j] = s[j]
  <2>1. (n + 1) - 1 = n /\ \A j \in 1 .. n : j < m
    BY <1>1, <1>3
  <2> QED BY <1>2, <1>6, <2>1
<1>8. u = s
  BY <1>1, <1>6, <1>7, SeqEqual
<1> QED BY <1>1, <1>4, <1>5, <1>8

\* What is behind the first element is the rest.
LEMMA PutBefore ==
  ASSUME NEW S, NEW x \in Seq(S), NEW p \in S
  PROVE  <<p>> \o x # <<>> /\ (<<p>> \o x)[1] = p /\ Tail(<<p>> \o x) = x
<1>1. PICK n \in Nat : n = Len(x)
  BY LenProperties
<1>2. PICK one : one = <<p>> /\ one \in Seq(S) /\ Len(one) = 1 /\ one[1] = p
  <2>1. <<p>> \in Seq(S) /\ Len(<<p>>) = 1 /\ <<p>>[1] = p
    OBVIOUS
  <2> QED BY <2>1
<1>3. PICK w : w = one \o x
  OBVIOUS
<1>4. /\ w \in Seq(S) /\ Len(w) = 1 + n
      /\ \A k \in 1 .. 1 + n : w[k] = IF k <= 1 THEN one[k] ELSE x[k - 1]
  BY <1>1, <1>2, <1>3, ConcatProperties
<1>5. w # <<>> /\ w[1] = p
  <2>1. 1 \in 1 .. 1 + n /\ 1 + n # 0
    BY <1>1
  <2> QED BY <1>2, <1>4, <2>1
<1>6. PICK t : t = Tail(w)
  OBVIOUS
<1>7. t \in Seq(S) /\ Len(t) = (1 + n) - 1 /\ \A k \in 1 .. Len(t) : t[k] = w[k + 1]
  BY <1>4, <1>5, <1>6, HeadTailProperties
<1>8. Len(t) = n /\ \A k \in 1 .. n : t[k] = x[k]
  <2>1. (1 + n) - 1 = n
    BY <1>1
  <2>2. \A k \in 1 .. n : k + 1 \in 1 .. 1 + n /\ ~ (k + 1 <= 1) /\ (k + 1) - 1 = k
    BY <1>1
  <2> QED BY <1>4, <1>7, <2>1, <2>2
<1>9. t = x
  BY <1>1, <1>7, <1>8, SeqEqual
<1> QED BY <1>2, <1>3, <1>5, <1>6, <1>9

\* A line that sets the variable has what it sets it to.
LEMMA LinesAre ==
  ASSUME NEW l \in Lines
  PROVE  /\ l.cmd = "set" => l.value \in Values
         /\ l.cmd # "set" => l.value = Unset
BY DEF Lines, Builtins

\* The invariant holds before the first prompt.
LEMMA ShellInvInit ==
  ASSUME ShellInit
  PROVE  ShellInv
<1>1. <<>> \in Seq(Pids) /\ Len(<<>>) = 0
  OBVIOUS
<1>2. NoLine \in Lines
  BY DEF NoLine, Lines, Builtins
<1>3. ShellTypes
  BY <1>1, <1>2 DEF ShellInit, ShellTypes, AllApart
<1> QED BY <1>3 DEF ShellInit, ShellInv, JobsAndForeground, OutputIs, EnvironmentIs

-----------------------------------------------------------------------------
(* The shell: every step.                                                  *)

\* A child that is waited for, or the oldest that ended, leaves the children, and
\* the list if it is in it.
LEMMA Reaped ==
  ASSUME ShellTypes, NEW i \in 1 .. Len(children), NEW p, p = children[i],
         children' = RemoveFirst(children, p), zombies' = zombies \ {p}
  PROVE  /\ children' \in Seq(Pids) /\ AllApart(children')
         /\ \A q \in zombies' : \E j \in 1 .. Len(children') : children'[j] = q
<1>1. PICK s, t : s = children /\ t = RemoveAt(s, i)
  OBVIOUS
<1>2. s \in Seq(Pids) /\ AllApart(s) /\ i \in 1 .. Len(s) /\ p = s[i]
  BY <1>1 DEF ShellTypes
<1>3. children' = t
  <2>1. RemoveFirst(s, s[i]) = RemoveAt(s, i)
    BY <1>2, RemoveFirstIs
  <2> QED BY <1>1, <1>2, <2>1
<1>4. /\ t \in Seq(Pids) /\ AllApart(t)
      /\ \A k \in 1 .. Len(s) : k # i => \E j \in 1 .. Len(t) : t[j] = s[k]
  <2>1. /\ RemoveAt(s, i) \in Seq(Pids) /\ AllApart(RemoveAt(s, i))
        /\ \A k \in 1 .. Len(s) :
             k # i => \E j \in 1 .. Len(RemoveAt(s, i)) : RemoveAt(s, i)[j] = s[k]
    BY <1>2, Erased
  <2> QED BY <1>1, <2>1
<1>5. ASSUME NEW q \in zombies' PROVE \E j \in 1 .. Len(t) : t[j] = q
  <2>1. PICK k \in 1 .. Len(s) : s[k] = q
    BY <1>1 DEF ShellTypes
  <2>2. k # i
    BY <1>2, <2>1
  <2> QED BY <1>4, <2>1, <2>2
<1> QED BY <1>3, <1>4, <1>5

\* At the top of the loop the shell has no foreground child, and its list follows.
LEMMA TopKeeps ==
  ASSUME ShellInv, Top
  PROVE  ShellInv'
<1>1. /\ place = "top" /\ place' = "read" /\ line' = NoLine /\ stdout' = "terminal"
      /\ foreground' = foreground /\ env' = env /\ lastSet' = lastSet
  BY DEF Top
<1>2. foreground = NoPid /\ jobs = children
  BY <1>1 DEF ShellInv, JobsAndForeground
<1>3. line' \in Lines
  BY <1>1 DEF NoLine, Lines, Builtins
<1>4. OutputIs' /\ EnvironmentIs'
  BY <1>1 DEF ShellInv, OutputIs, EnvironmentIs
<1>5. /\ children' \in Seq(Pids) /\ AllApart(children') /\ jobs' = children'
      /\ \A q \in zombies' : \E j \in 1 .. Len(children') : children'[j] = q
  <2>1. CASE zombies = {}
    <3>1. children' = children /\ zombies' = zombies /\ jobs' = jobs
      BY <2>1 DEF Top
    <3> QED BY <1>2, <3>1 DEF ShellInv, ShellTypes
  <2>2. CASE zombies # {}
    <3>1. PICK i : i = SelectInSeq(children, LAMBDA p : p \in zombies)
      OBVIOUS
    <3>2. /\ children' = RemoveFirst(children, children[i]) /\ zombies' = zombies \ {children[i]}
          /\ jobs' = Ldel(jobs, children[i])
      BY <2>2, <3>1 DEF Top
    <3>3. i \in 1 .. Len(children)
      <4>1. PICK n \in Nat : n = Len(children)
        BY LenProperties DEF ShellInv, ShellTypes
      <4>2. PICK ended : ended = {k \in 1 .. n : children[k] \in zombies}
        OBVIOUS
      <4>3. PICK k \in ended : \A j \in ended : k <= j
        <5>1. \E k \in 1 .. n : k \in ended
          BY <2>2, <4>1, <4>2 DEF ShellInv, ShellTypes
        <5> QED BY <4>2, <5>1, Least
      <4>4. i = Min(ended)
        BY <3>1, <4>1, <4>2, <4>3 DEF SelectInSeq
      <4>5. Min(ended) \in ended
        BY <4>3 DEF Min
      <4> QED BY <4>1, <4>2, <4>4, <4>5
    <3>4. jobs' = children'
      <4>1. PICK s : s = children /\ s \in Seq(Pids) /\ AllApart(s)
        BY DEF ShellInv, ShellTypes
      <4>2. RemoveFirst(s, s[i]) = Ldel(s, s[i])
        BY <3>3, <4>1, RemoveFirstIs
      <4> QED BY <1>2, <3>2, <4>1, <4>2
    <3>5. ShellTypes
      BY DEF ShellInv
    <3> QED BY <3>2, <3>3, <3>4, <3>5, Reaped
  <2> QED BY <2>1, <2>2
<1> QED BY <1>1, <1>2, <1>3, <1>4, <1>5 DEF ShellInv, ShellTypes, JobsAndForeground

\* The child that was waited for was the last; its end leaves the jobs.
LEMMA WaitKeeps ==
  ASSUME ShellInv, Wait
  PROVE  ShellInv'
<1>1. /\ place = "wait" /\ place' = "top" /\ foreground' = NoPid
      /\ children' = RemoveFirst(children, foreground) /\ zombies' = zombies \ {foreground}
      /\ line' = line /\ jobs' = jobs /\ stdout' = stdout /\ env' = env /\ lastSet' = lastSet
  BY DEF Wait
<1>2. /\ foreground \in Pids /\ children = Append(jobs, foreground)
      /\ jobs \in Seq(Pids) /\ AllApart(children)
  BY <1>1 DEF ShellInv, JobsAndForeground, ShellTypes
<1>3. children' = jobs
  <2>1. PICK s, e : s = jobs /\ e = foreground
    OBVIOUS
  <2>2. RemoveFirst(Append(s, e), e) = s
    BY <1>2, <2>1, ErasedLast
  <2> QED BY <1>1, <1>2, <2>1, <2>2
<1>4. PICK n \in Nat : n = Len(jobs)
  BY <1>2, LenProperties
<1>5. n + 1 \in 1 .. Len(children) /\ children[n + 1] = foreground
  BY <1>2, <1>4, AppendProperties
<1>6. /\ AllApart(children')
      /\ \A q \in zombies' : \E j \in 1 .. Len(children') : children'[j] = q
  BY <1>1, <1>5, Reaped DEF ShellInv
<1>7. OutputIs' /\ EnvironmentIs'
  BY <1>1 DEF ShellInv, OutputIs, EnvironmentIs
<1> QED BY <1>1, <1>2, <1>3, <1>6, <1>7 DEF ShellInv, ShellTypes, JobsAndForeground

\* A new child has a number that no other has.
LEMMA ForkKeeps ==
  ASSUME ShellInv, Fork
  PROVE  ShellInv'
<1>1. PICK pid \in Pids :
        /\ pid \notin ToSet(children) /\ children' = Append(children, pid)
        /\ \/ foreground' = pid /\ place' = "wait" /\ jobs' = jobs
           \/ jobs' = Append(jobs, pid) /\ place' = "top" /\ foreground' = foreground
  BY DEF Fork, Ladd
<1>2. /\ place = "run" /\ line' = line /\ zombies' = zombies /\ stdout' = stdout
      /\ env' = env /\ lastSet' = lastSet
  BY DEF Fork
<1>3. foreground = NoPid /\ jobs = children
  BY <1>2 DEF ShellInv, JobsAndForeground
<1>4. PICK s, n : s = children /\ s \in Seq(Pids) /\ AllApart(s) /\ n \in Nat /\ n = Len(s)
  BY LenProperties DEF ShellInv, ShellTypes
<1>5. PICK t : t = Append(s, pid)
  OBVIOUS
<1>6. t \in Seq(Pids) /\ Len(t) = n + 1 /\ t[n + 1] = pid /\ \A k \in 1 .. n : t[k] = s[k]
  BY <1>4, <1>5, AppendProperties
<1>7. \A k \in 1 .. n : s[k] # pid
  <2>1. ToSet(s) = {s[k] : k \in 1 .. n}
    BY <1>4, LenProperties DEF ToSet
  <2> QED BY <1>1, <1>4, <2>1
<1>8. AllApart(t)
  <2>1. ASSUME NEW j \in 1 .. n + 1, NEW k \in 1 .. n + 1, t[j] = t[k]
        PROVE  j = k
    <3>1. (j = n + 1 \/ j \in 1 .. n) /\ (k = n + 1 \/ k \in 1 .. n)
      BY <1>4
    <3> QED BY <1>4, <1>6, <1>7, <2>1, <3>1 DEF AllApart
  <2> QED BY <1>6, <2>1 DEF AllApart
<1>9. \A q \in zombies' : \E k \in 1 .. n + 1 : t[k] = q
  <2>1. \A q \in zombies : \E k \in 1 .. n : s[k] = q
    BY <1>4 DEF ShellInv, ShellTypes
  <2>2. \A k \in 1 .. n : k \in 1 .. n + 1
    BY <1>4
  <2> QED BY <1>2, <1>6, <2>1, <2>2
<1>10. children' = t
  BY <1>1, <1>4, <1>5
<1>11. ShellTypes'
  <2>1. jobs' \in Seq(Pids)
    BY <1>1, <1>3, <1>4, <1>5, <1>6
  <2> QED BY <1>1, <1>2, <1>6, <1>8, <1>9, <1>10, <2>1 DEF ShellInv, ShellTypes
<1>12. JobsAndForeground'
  BY <1>1, <1>3 DEF JobsAndForeground
<1>13. OutputIs' /\ EnvironmentIs'
  BY <1>1, <1>2 DEF ShellInv, OutputIs, EnvironmentIs
<1> QED BY <1>11, <1>12, <1>13 DEF ShellInv

\* A line is read, or done with; the children are not touched.
LEMMA LineKeeps ==
  ASSUME ShellInv, Read \/ Exit \/ Tell \/ Set
  PROVE  ShellInv'
<1>1. /\ jobs' = jobs /\ children' = children /\ zombies' = zombies /\ foreground' = foreground
      /\ place \in {"read", "run"} /\ place' \in {"top", "run", "ended"}
  BY DEF Read, Exit, Tell, Set
<1>2. line' \in Lines
  BY DEF Read, Exit, Tell, Set, ShellInv, ShellTypes
<1>3. ShellTypes'
  BY <1>1, <1>2 DEF ShellInv, ShellTypes
<1>4. JobsAndForeground'
  BY <1>1 DEF ShellInv, JobsAndForeground
<1>5. OutputIs'
  BY DEF Read, Exit, Tell, Set, ShellInv, OutputIs
<1>6. EnvironmentIs'
  <2>1. CASE Set
    <3>1. line \in Lines
      BY DEF ShellInv, ShellTypes
    <3>2. line.cmd = "set" => line.value \in Values /\ env' = <<Prefix>> \o line.value
      BY <2>1, <3>1, LinesAre DEF Set
    <3>3. line.cmd # "set" => line.value = Unset /\ env' = Unset
      BY <2>1, <3>1, LinesAre DEF Set
    <3> QED BY <2>1, <3>2, <3>3 DEF Set, EnvironmentIs
  <2>2. CASE Read \/ Exit \/ Tell
    BY <2>2 DEF Read, Exit, Tell, ShellInv, EnvironmentIs
  <2> QED BY <2>1, <2>2
<1> QED BY <1>3, <1>4, <1>5, <1>6 DEF ShellInv

\* A child that ends, and a step of something else.
LEMMA EndKeeps ==
  ASSUME ShellInv, (\E p \in Pids : Ends(p)) \/ UNCHANGED shellVars
  PROVE  ShellInv'
<1>1. /\ place' = place /\ line' = line /\ jobs' = jobs /\ children' = children
      /\ foreground' = foreground /\ stdout' = stdout /\ env' = env /\ lastSet' = lastSet
  BY DEF Ends, shellVars
<1>2. \A q \in zombies' : \E k \in 1 .. Len(children) : children[k] = q
  <2>1. ASSUME NEW p \in Pids, Ends(p)
        PROVE  \A q \in zombies' : \E k \in 1 .. Len(children) : children[k] = q
    <3>1. p \in ToSet(children) /\ zombies' = zombies \cup {p}
      BY <2>1 DEF Ends
    <3>2. \E k \in 1 .. Len(children) : children[k] = p
      <4>1. ToSet(children) = {children[k] : k \in 1 .. Len(children)}
        BY LenProperties DEF ToSet, ShellInv, ShellTypes
      <4> QED BY <3>1, <4>1
    <3> QED BY <3>1, <3>2 DEF ShellInv, ShellTypes
  <2>2. CASE UNCHANGED shellVars
    BY <2>2 DEF shellVars, ShellInv, ShellTypes
  <2> QED BY <2>1, <2>2
<1>3. ShellTypes'
  BY <1>1, <1>2 DEF ShellInv, ShellTypes
<1> QED BY <1>1, <1>3 DEF ShellInv, JobsAndForeground, OutputIs, EnvironmentIs

\* Every step of the shell and of its children keeps the invariant.
LEMMA ShellInvNext ==
  ASSUME ShellInv, [ShellNext]_shellVars
  PROVE  ShellInv'
BY TopKeeps, WaitKeeps, ForkKeeps, LineKeeps, EndKeeps DEF ShellNext, Loop

\* What the shell promises follows.
LEMMA ShellInvIsEnough == ShellInv => ShellKeepsTrack
<1> SUFFICES ASSUME ShellInv PROVE ShellKeepsTrack
  OBVIOUS
<1>1. JobsAreChildren
  <2>1. PICK s, e : s = jobs /\ e = foreground /\ s \in Seq(Pids)
    BY DEF ShellInv, ShellTypes
  <2>2. CASE place = "wait"
    <3>1. e \in Pids /\ children = Append(s, e) /\ AllApart(Append(s, e))
      BY <2>1, <2>2 DEF ShellInv, ShellTypes, JobsAndForeground
    <3>2. RemoveFirst(Append(s, e), e) = s
      BY <2>1, <3>1, ErasedLast
    <3> QED BY <2>1, <3>1, <3>2 DEF JobsAreChildren
  <2>3. CASE place # "wait"
    <3>1. e = NoPid /\ children = s
      BY <2>1, <2>3 DEF ShellInv, JobsAndForeground
    <3>2. \A k \in 1 .. Len(s) : s[k] # NoPid
      <4>1. \A k \in 1 .. Len(s) : s[k] \in Pids
        BY <2>1, ElementOfSeq
      <4> QED BY <4>1, ShellAssumption DEF NoPid
    <3>3. RemoveFirst(s, e) = s
      BY <3>1, <3>2 DEF RemoveFirst
    <3> QED BY <2>1, <3>1, <3>3 DEF JobsAreChildren
  <2> QED BY <2>2, <2>3
<1>2. Got = lastSet
  <2>1. CASE env = Unset /\ lastSet = Unset
    BY <2>1 DEF Got
  <2>2. CASE lastSet \in Values /\ env = <<Prefix>> \o lastSet
    <3>1. PICK x, w : x = lastSet /\ w = <<Prefix>> \o x /\ x \in Seq(STRING)
      BY <2>2, ShellAssumption
    <3>2. PICK p, S : p = Prefix /\ S = STRING \cup {p}
      OBVIOUS
    <3>3. x \in Seq(S) /\ p \in S /\ w = <<p>> \o x
      BY <3>1, <3>2
    <3>4. w # <<>> /\ w[1] = p /\ Tail(w) = x
      BY <3>3, PutBefore
    <3> QED BY <2>2, <3>1, <3>2, <3>4 DEF Got, Unset
  <2> QED BY <2>1, <2>2 DEF ShellInv, EnvironmentIs
<1>3. LinesStandAlone
  BY <1>2 DEF ShellInv, OutputIs, LinesStandAlone
<1> QED BY <1>1, <1>3 DEF ShellKeepsTrack

-----------------------------------------------------------------------------
(* The shell: the theorems.                                                *)

\* The inductive invariant of the shell (proj1/main.c): whatever it is asked to
\* run and whenever its children end, the child it waits for is the last one.
THEOREM ShellInvariance == ShellInit /\ [][ShellNext]_shellVars => []ShellInv
<1>1. ShellInit => ShellInv
  BY ShellInvInit
<1>2. ShellInv /\ [ShellNext]_shellVars => ShellInv'
  BY ShellInvNext
<1> QED BY <1>1, <1>2, PTL

\* The list of jobs (proj1/list.c) is the background children not yet reported in
\* the order of their start, for any pids and in whatever order they end; and a
\* line leaves nothing behind but the variable it sets.
THEOREM ShellAlwaysKeepsTrack == ShellInit /\ [][ShellNext]_shellVars => []ShellKeepsTrack
<1>1. ShellInv => ShellKeepsTrack
  BY ShellInvIsEnough
<1> QED BY <1>1, ShellInvariance, PTL
=============================================================================
