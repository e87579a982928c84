---------------------------- MODULE ThreadLabs ----------------------------
(* The thread exercises: t1 (an unlocked counter), t2 and cond_example (lines *)
(* printed in order with conditions), t3 (a producer and its consumers),      *)
(* threaded_count (a locked counter) and sem_example (a ring buffer between   *)
(* semaphores).  One of them runs.                                            *)
(*                                                                            *)
(* What a thread does while it holds the mutex is one step, since everything  *)
(* it shares is only used under the mutex; a thread that waits on a condition *)
(* may wake without a signal.                                                 *)
EXTENDS Naturals, Integers, Sequences, FiniteSets

CONSTANTS Rounds,      \* of the loops of t1 and threaded_count (99, 1000000)
          Consumers,   \* of t3 (100)
          NumItems,    \* NUM_ITEMS_PER_PRODUCE of t3 (10)
          MaxProduce,  \* of sem_example (40)
          Slots        \* of its buffer (20)

ASSUME SizesAssumption ==
    /\ Rounds \in Nat /\ NumItems \in Nat /\ MaxProduce \in Nat
    /\ Slots \in Nat \ {0}
    /\ IsFiniteSet(Consumers)

VARIABLES exercise,
          mutex,     \* who keeps it beyond a step: nobody but t3's producer
          pc,        \* of every thread
          turn,      \* its loop counter
          v, a,      \* the counter, and the value each thread is to store in it
          flag,      \* done and done_again (test1 and test2)
          output,    \* what was printed, or consumed
          supply, num_cons_remaining, produced,    \* t3
          buffer, buffer_items, buffer_slots       \* sem_example
counters == <<v, a>>
t3vars == <<supply, num_cons_remaining, produced>>
semvars == <<buffer, buffer_items, buffer_slots>>
threadVars == <<exercise, mutex, pc, turn, counters, flag, output, t3vars, semvars>>

Exercises == {"t1", "t2", "t3", "cond", "count", "sem"}
Threads == [t1 |-> {"inc", "dec"}, t2 |-> {"hello", "world", "again"},
            cond |-> {"hello", "world", "again"},
            t3 |-> {"producer"} \cup Consumers, count |-> {"t1", "t2"},
            sem |-> {"producer", "consumer"}]
Nobody == "nobody"
Empty == -1

\* main(): the threads are created; joining them is all it does then.
ThreadInit ==
    /\ exercise \in Exercises /\ mutex = Nobody
    /\ pc = [t \in Threads[exercise] |-> "start"] /\ turn = [t \in Threads[exercise] |-> 0]
    /\ v = 0 /\ a = [t \in Threads[exercise] |-> 0] /\ flag = 0 /\ output = <<>>
    /\ supply = 0 /\ num_cons_remaining = Cardinality(Consumers) /\ produced = 0
    /\ buffer = [s \in 0 .. Slots - 1 |-> Empty] /\ buffer_items = 0 /\ buffer_slots = Slots

Go(t, to) == pc' = [pc EXCEPT ![t] = to]
Ready(t) == t \in DOMAIN pc /\ pc[t] \in {"start", "woken"} /\ mutex = Nobody
Runs(e, t) == exercise = e /\ t \in DOMAIN pc
Looped(t) == turn' = [turn EXCEPT ![t] = @ + 1]

\* t1: a = v + 10 and v = a (v - 10 in decrement()), the mutex commented out.
Compute(t) ==
    /\ Runs("t1", t) /\ pc[t] = "start" /\ turn[t] < Rounds
    /\ a' = [a EXCEPT ![t] = IF t = "inc" THEN v + 10 ELSE v - 10] /\ Go(t, "store")
    /\ UNCHANGED <<exercise, mutex, turn, v, flag, output, t3vars, semvars>>
Store(t) ==
    /\ Runs("t1", t) /\ pc[t] = "store"
    /\ v' = a[t] /\ Looped(t) /\ Go(t, IF turn[t] + 1 = Rounds THEN "done" ELSE "start")
    /\ UNCHANGED <<exercise, mutex, a, flag, output, t3vars, semvars>>

\* threadCounter: (*args)++, under the mutex.
Count(t) ==
    /\ Runs("count", t) /\ Ready(t)
    /\ v' = v + 1 /\ Looped(t) /\ Go(t, IF turn[t] + 1 = Rounds THEN "done" ELSE "start")
    /\ UNCHANGED <<exercise, mutex, a, flag, output, t3vars, semvars>>

\* t2: hello(), world() and again(), each with the line before it to wait for.
PrintLine(t, stage) ==
    /\ output' = Append(output, t) /\ flag' = stage
    /\ pc' = [p \in DOMAIN pc |-> IF p = t THEN "done"
                                  ELSE IF pc[p] = "waiting" /\ <<t, p>> \in {<<"hello", "world">>, <<"world", "again">>}
                                         THEN "woken" ELSE pc[p]]
Hello == Runs("t2", "hello") /\ Ready("hello") /\ PrintLine("hello", 1)
         /\ UNCHANGED <<exercise, mutex, turn, counters, t3vars, semvars>>
WaitFor(t, stage) == flag < stage /\ Go(t, "waiting") /\ UNCHANGED <<flag, output>>
World == /\ Runs("t2", "world") /\ Ready("world")
         /\ WaitFor("world", 1) \/ (flag >= 1 /\ PrintLine("world", 2))
         /\ UNCHANGED <<exercise, mutex, turn, counters, t3vars, semvars>>
Again == /\ Runs("t2", "again") /\ Ready("again")
         /\ WaitFor("again", 2) \/ (flag >= 2 /\ PrintLine("again", 2))
         /\ UNCHANGED <<exercise, mutex, turn, counters, t3vars, semvars>>
\* cond_example: the same chain; it signals before it sets the variable.
PrintHello == Runs("cond", "hello") /\ Ready("hello") /\ PrintLine("hello", 1)
              /\ UNCHANGED <<exercise, mutex, turn, counters, t3vars, semvars>>
PrintCanYouHearMe ==
    /\ Runs("cond", "world") /\ Ready("world")
    /\ WaitFor("world", 1) \/ (flag >= 1 /\ PrintLine("world", 2))
    /\ UNCHANGED <<exercise, mutex, turn, counters, t3vars, semvars>>
PrintIWasWondering ==
    /\ Runs("cond", "again") /\ Ready("again")
    /\ WaitFor("again", 2) \/ (flag >= 2 /\ PrintLine("again", 2))
    /\ UNCHANGED <<exercise, mutex, turn, counters, t3vars, semvars>>

\* t3: a broadcast wakes every thread that waits on the condition.
Broadcast(t, to, threads) ==
    pc' = [p \in DOMAIN pc |-> IF p = t THEN to
                               ELSE IF p \in threads /\ pc[p] = "waiting" THEN "woken" ELSE pc[p]]
\* producer(): the consumers that remain are looked at before the wait only, and
\* the thread returns with the mutex locked.
Produce ==
    /\ Runs("t3", "producer") /\ Ready("producer")
    /\ \/ /\ pc["producer"] = "start" /\ num_cons_remaining < 1
          /\ mutex' = "producer" /\ Go("producer", "done") /\ UNCHANGED t3vars
       \/ /\ pc["producer"] = "woken" \/ num_cons_remaining >= 1
          /\ supply > 0
          /\ Go("producer", "waiting") /\ UNCHANGED <<mutex, t3vars>>
       \/ /\ pc["producer"] = "woken" \/ num_cons_remaining >= 1
          /\ supply = 0
          /\ supply' = supply + NumItems /\ produced' = produced + NumItems
          /\ Broadcast("producer", "start", Consumers) /\ UNCHANGED <<mutex, num_cons_remaining>>
    /\ UNCHANGED <<exercise, turn, counters, flag, output, semvars>>
\* Mutant of Consume: the producer is not told that the supply is used up.
ConsumeSilently(t) ==
    /\ exercise = "t3" /\ t \in Consumers /\ Ready(t)
    /\ \/ /\ supply = 0 /\ Go(t, "waiting") /\ UNCHANGED t3vars
       \/ /\ supply # 0 /\ supply' = supply - 1
          /\ num_cons_remaining' = num_cons_remaining - 1 /\ UNCHANGED produced
          /\ Go(t, "done")
    /\ UNCHANGED <<exercise, mutex, turn, counters, flag, output, semvars>>

Consume(t) ==
    /\ exercise = "t3" /\ t \in Consumers /\ Ready(t)
    /\ \/ /\ supply = 0 /\ Go(t, "waiting") /\ UNCHANGED t3vars
       \/ /\ supply # 0 /\ supply' = supply - 1
          /\ num_cons_remaining' = num_cons_remaining - 1 /\ UNCHANGED produced
          /\ Broadcast(t, "done", IF supply = 1 THEN {"producer"} ELSE {})
    /\ UNCHANGED <<exercise, mutex, turn, counters, flag, output, semvars>>
\* A condition wait may return without a signal.
Spurious(t) ==
    /\ exercise \in {"t2", "cond", "t3"} /\ t \in DOMAIN pc /\ pc[t] = "waiting" /\ Go(t, "woken")
    /\ UNCHANGED <<exercise, mutex, turn, counters, flag, output, t3vars, semvars>>

\* Mutant of PlaceInTail: it does not wait for a slot.
PlaceAnyway ==
    /\ Runs("sem", "producer")
    /\ \/ /\ pc["producer"] = "start" /\ Go("producer", "place")
          /\ UNCHANGED <<turn, buffer, buffer_items>>
       \/ /\ pc["producer"] = "place"
          /\ buffer' = [buffer EXCEPT ![turn["producer"] % Slots] = turn["producer"]]
          /\ Looped("producer") /\ Go("producer", "post") /\ UNCHANGED buffer_items
       \/ /\ pc["producer"] = "post" /\ buffer_items' = buffer_items + 1
          /\ Go("producer", IF turn["producer"] = MaxProduce THEN "done" ELSE "start")
          /\ UNCHANGED <<turn, buffer>>
    /\ UNCHANGED <<exercise, mutex, counters, flag, output, t3vars, buffer_slots>>

\* sem_example: the producer waits for a slot, fills it and posts the item.
\* Element i of the run is i.
PlaceInTail ==
    /\ Runs("sem", "producer")
    /\ \/ /\ pc["producer"] = "start" /\ buffer_slots > 0
          /\ buffer_slots' = buffer_slots - 1 /\ Go("producer", "place")
          /\ UNCHANGED <<turn, buffer, buffer_items>>
       \/ /\ pc["producer"] = "place"
          /\ buffer' = [buffer EXCEPT ![turn["producer"] % Slots] = turn["producer"]]
          /\ Looped("producer") /\ Go("producer", "post") /\ UNCHANGED <<buffer_items, buffer_slots>>
       \/ /\ pc["producer"] = "post" /\ buffer_items' = buffer_items + 1
          /\ Go("producer", IF turn["producer"] = MaxProduce THEN "done" ELSE "start")
          /\ UNCHANGED <<turn, buffer, buffer_slots>>
    /\ UNCHANGED <<exercise, mutex, counters, flag, output, t3vars>>
ReadFromHead ==
    /\ Runs("sem", "consumer")
    /\ \/ /\ pc["consumer"] = "start" /\ buffer_items > 0
          /\ buffer_items' = buffer_items - 1 /\ Go("consumer", "read")
          /\ UNCHANGED <<turn, buffer, output, buffer_slots>>
       \/ /\ pc["consumer"] = "read" /\ output' = Append(output, buffer[turn["consumer"] % Slots])
          /\ Go("consumer", "clear") /\ UNCHANGED <<turn, buffer, buffer_items, buffer_slots>>
       \/ /\ pc["consumer"] = "clear" /\ buffer' = [buffer EXCEPT ![turn["consumer"] % Slots] = Empty]
          /\ Looped("consumer") /\ Go("consumer", "post")
          /\ UNCHANGED <<output, buffer_items, buffer_slots>>
       \/ /\ pc["consumer"] = "post" /\ buffer_slots' = buffer_slots + 1
          /\ Go("consumer", IF turn["consumer"] = MaxProduce THEN "done" ELSE "start")
          /\ UNCHANGED <<turn, buffer, output, buffer_items>>
    /\ UNCHANGED <<exercise, mutex, counters, flag, t3vars>>

Step(t) == \/ Compute(t) \/ Store(t) \/ Count(t) \/ Consume(t)
           \/ t = "hello" /\ (Hello \/ PrintHello)
           \/ t = "world" /\ (World \/ PrintCanYouHearMe)
           \/ t = "again" /\ (Again \/ PrintIWasWondering)
           \/ t = "producer" /\ (Produce \/ PlaceInTail)
           \/ t = "consumer" /\ ReadFromHead
ThreadNext == \E t \in DOMAIN pc : Step(t) \/ Spurious(t)

----------------------------------------------------------------------------
Joined == \A t \in DOMAIN pc : pc[t] = "done"

\* The lines of t2 and cond_example come in their order and all of them; the
\* elements of sem_example are read in the order they were placed, each before
\* its slot is used again; the locked count is exact; t3 never has less than
\* nothing nor more than one production in supply.
SharedInOrder ==
    /\ exercise \in {"t2", "cond"} => output = SubSeq(<<"hello", "world", "again">>, 1, Len(output))
    /\ exercise = "sem" => \A i \in DOMAIN output : output[i] = i - 1
    /\ exercise = "count" => (Joined => v = 2 * Rounds)
    /\ exercise = "t3" => supply \in 0 .. NumItems /\ produced - supply = Cardinality(Consumers) - num_cons_remaining
=============================================================================
