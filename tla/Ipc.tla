-------------------------------- MODULE Ipc --------------------------------
(* The examples of inter-process communication of project 2 (ipc-types):      *)
(* mq_test1 and mq_test2 on a message queue, shm_test1 and shm_test2 in shared*)
(* memory, pipe_test between a parent and its child.  A sleep is no order: the*)
(* processes run as they may.  The POSIX objects are modelled as far as the   *)
(* programs use them, their calls do not fail.                                *)
EXTENDS Naturals, Sequences, SequencesExt, FiniteSets

VARIABLES example,    \* "mq", "shm" or "pipe"
          step,       \* of each of the two processes, the steps it has done
          queue,      \* the message queues there have been
          name,       \* the one "/CprE308-Queue" names, 0 for none
          handle,     \* of each process, the queue it opened
          got,        \* of each process, what it received or printed
          memory,     \* the shared memory
          written, writers   \* in the pipe; who has its write end open
ipcVars == <<example, step, queue, name, handle, got, memory, written, writers>>

Processes == {1, 2}   \* mq_test1 and 2, shm_test1 and 2; parent and child
Start(e) ==
    /\ example = e /\ step = [p \in Processes |-> 0]
    /\ queue = <<>> /\ name = 0 /\ handle = [p \in Processes |-> 0]
    /\ got = [p \in Processes |-> <<>>]
    /\ memory = [a_string |-> "", an_array |-> "0", a_ptr |-> "NULL"]
    /\ written = <<>> /\ writers = Processes
IpcInit == \E e \in {"mq", "shm", "pipe"} : Start(e)

At(e, p, s) == example = e /\ step[p] = s /\ step' = [step EXCEPT ![p] = s + 1]
mqvars == <<queue, name, handle>>
pipevars == <<written, writers>>

\* mq_open with O_CREAT.
Open(p) == /\ At("mq", p, 0)
           /\ IF name # 0 THEN UNCHANGED <<queue, name>>
              ELSE queue' = Append(queue, <<>>) /\ name' = Len(queue) + 1
           /\ handle' = [handle EXCEPT ![p] = name']
           /\ UNCHANGED <<example, got, memory, pipevars>>
\* A queue is in the order of the priorities, and of arrival among equal ones.
MqSend(p, text, priority) ==
    LET q == queue[handle[p]]
        before == {i \in DOMAIN q : q[i].priority >= priority}
    IN  /\ queue' = [queue EXCEPT ![handle[p]] =
                       InsertAt(@, Cardinality(before) + 1, [text |-> text, priority |-> priority])]
        /\ UNCHANGED <<example, name, handle, got, memory, pipevars>>
MqReceive(p) ==
    /\ queue[handle[p]] # <<>>
    /\ got' = [got EXCEPT ![p] = Append(@, Head(queue[handle[p]]).text)]
    /\ queue' = [queue EXCEPT ![handle[p]] = Tail(@)]
    /\ UNCHANGED <<example, name, handle, memory, pipevars>>
MqTest1 == \/ At("mq", 1, 1) /\ MqSend(1, "Master", 27)
           \/ At("mq", 1, 2) /\ MqSend(1, "Doctor", 42)
           \/ (At("mq", 1, 3) \/ At("mq", 1, 4)) /\ MqReceive(1)
           \/ /\ At("mq", 1, 5) /\ name' = 0   \* mq_unlink
              /\ UNCHANGED <<example, queue, handle, got, memory, pipevars>>
\* Mutant of MqTest2: the second answer is the more important one.
MqTest2Hurries ==
           \/ (At("mq", 2, 1) \/ At("mq", 2, 2)) /\ MqReceive(2)
           \/ At("mq", 2, 3) /\ MqSend(2, "Clara", 12)
           \/ At("mq", 2, 4) /\ MqSend(2, "Rose", 42)

MqTest2 == \/ (At("mq", 2, 1) \/ At("mq", 2, 2)) /\ MqReceive(2)
           \/ At("mq", 2, 3) /\ MqSend(2, "Clara", 12)
           \/ At("mq", 2, 4) /\ MqSend(2, "Rose", 12)

\* Each maps the memory, whoever creates it, writes it and prints what it finds;
\* an_array stands for its first element.  a_ptr points into shm_test1 and means
\* nothing in shm_test2: printing it there is garbage or the end of the process.
Put(field, x) == memory' = [memory EXCEPT ![field] = x]
                 /\ UNCHANGED <<example, got, mqvars, pipevars>>
Find(p, field) == /\ got' = [got EXCEPT ![p] = Append(@, memory[field])]
                  /\ UNCHANGED <<example, memory, mqvars, pipevars>>
ShmTest1 == \/ At("shm", 1, 0) /\ Put("an_array", "0")
            \/ At("shm", 1, 1) /\ Put("a_ptr", "my_string")
            \/ At("shm", 1, 2) /\ Find(1, "a_string")
            \/ At("shm", 1, 3) /\ Find(1, "an_array")
            \/ At("shm", 1, 4) /\ Find(1, "a_ptr")
ShmTest2 == \/ At("shm", 2, 0) /\ Put("a_string", "I am a buffer")
            \/ At("shm", 2, 1) /\ Put("an_array", "42")
            \/ At("shm", 2, 2) /\ Find(2, "a_string")
            \/ At("shm", 2, 3) /\ Find(2, "an_array")
            \/ /\ At("shm", 2, 4)
               /\ \E found \in IF memory.a_ptr = "NULL" THEN {"NULL"} ELSE {"garbage", "crash"} :
                    got' = [got EXCEPT ![2] = Append(@, found)]
               /\ UNCHANGED <<example, memory, mqvars, pipevars>>

\* Parent: closes the write end, gets a line, waits for the child.
PipeParent ==
    /\ \/ At("pipe", 1, 0) /\ writers' = writers \ {1} /\ UNCHANGED <<got, written>>
       \/ \* the line has no newline: fgets needs the end of the file
          /\ At("pipe", 1, 1) /\ writers = {}
          /\ got' = [got EXCEPT ![1] = written] /\ written' = <<>> /\ UNCHANGED writers
       \/ At("pipe", 1, 2) /\ step[2] = 1 /\ UNCHANGED <<got, pipevars>>
    /\ UNCHANGED <<example, memory, mqvars>>
\* Child: prints into the stream, which is written and closed as it returns.
PipeChild ==
    /\ At("pipe", 2, 0)
    /\ written' = <<"Are you my mummy?">> /\ writers' = writers \ {2}
    /\ UNCHANGED <<example, got, memory, mqvars>>

IpcNext == \/ \E p \in Processes : Open(p)
           \/ MqTest1 \/ MqTest2 \/ ShmTest1 \/ ShmTest2 \/ PipeParent \/ PipeChild
----------------------------------------------------------------------------
Last1 == [mq |-> 6, shm |-> 5, pipe |-> 3]
Last2 == [mq |-> 5, shm |-> 5, pipe |-> 1]
OwnMessage == \E i \in DOMAIN got[1] : got[1][i] \in {"Master", "Doctor"}
\* Both receive from the queue they send to.  Unless mq_test1 took a message of
\* its own, it gets the answers in their order; the two that share memory never
\* both find the other's number in it, and each finds what only itself writes;
\* the parent hears the whole line.
ExchangesArrive ==
    /\ example = "mq" => /\ OwnMessage \/ IsPrefix(got[1], <<"Clara", "Rose">>)
                         /\ \A i \in DOMAIN got[2] : got[2][i] \in {"Master", "Doctor"}
                         /\ got[1] # <<>> /\ ~OwnMessage => Len(got[2]) = 2
    /\ example = "shm" => (step[1] = 5 /\ step[2] = 5 =>
                             /\ ~(got[1][2] = "42" /\ got[2][2] = "0")
                             /\ got[2][1] = "I am a buffer" /\ got[1][3] = "my_string")
    /\ example = "pipe" => (step[1] > 1 => got[1] = <<"Are you my mummy?">>)

\* The two processes have ended, or mq_test1 took a message of its own, after
\* which each may wait for one that nobody sends.
Exchanged == OwnMessage \/ (step[1] = Last1[example] /\ step[2] = Last2[example])
=============================================================================
