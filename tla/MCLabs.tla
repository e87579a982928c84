------------------------------- MODULE MCLabs -------------------------------
(* The programs of the laboratories for TLC.  Each behaviour runs one of them,  *)
(* prog.  The simulator, the thread exercises, the device, page replacement and *)
(* the shell have variables of their own, which stay at a start of the program  *)
(* when another one runs; the variables of the others are cells of the memory   *)
(* m1, m2, ..., in the order their modules declare them, and the cells they do  *)
(* not need stay Off.                                                           *)
EXTENDS Simulator, ThreadLabs, Device, Paging, Shell, TLC

VARIABLES prog,
          m1, m2, m3, m4, m5, m6, m7, m8, m9, m10, m11, m12, m13

Off == "off"
rest11 == <<m11, m12, m13>>
Off11 == m11 = Off /\ m12 = Off /\ m13 = Off
rest10 == <<m10, rest11>>
Off10 == m10 = Off /\ Off11
rest8 == <<m8, m9, rest10>>
Off8 == m8 = Off /\ m9 = Off /\ Off10
rest == <<m1, m2, m3, m4, m5, m6, m7, rest8>>
AllOff == /\ m1 = Off /\ m2 = Off /\ m3 = Off /\ m4 = Off /\ m5 = Off /\ m6 = Off /\ m7 = Off
          /\ Off8
memory == <<prog, vars, threadVars, deviceVars, pagingVars, shellVars, rest>>

\* Three tasks under every algorithm, each of any of these jobs: bursts short and
\* long, one to three of them, arrivals together and apart, equal and different
\* priorities.
J(p, t, r, b) == [priority |-> p, arrive |-> t, runs |-> r, blocks |-> b]
SimulatedJobs == {J(0, 0, <<2>>, <<>>), J(0, 0, <<1, 1>>, <<1>>), J(1, 2, <<2>>, <<>>),
                  J(3, 1, <<1, 2>>, <<2>>), J(3, 0, <<1, 1, 1>>, <<1, 1>>), J(3, 1, <<2>>, <<>>)}
LabConsumers == {"c1", "c2", "c3", "c4"}
BeyondMsg == {<<>>, <<9>>, <<9, 8>>}
ShellValues == {<<"a">>, <<"X=", "a">>}
\* A usual floppy, one with more entries than are read and hidden sectors that
\* need 17 bits, and one with two reserved sectors.
Boot(reserved, root, hidden) ==
    [iBytesSector |-> 512, iReservedSectors |-> reserved, iRootEntries |-> root,
     iLogicalSectors |-> 2880, iSectorsFAT |-> 9, iSectorsTrack |-> 18, iHeads |-> 2,
     iSectorsCluster |-> 1, iNumberFATs |-> 2, xMediumDescriptor |-> 240,
     iHiddenSectors |-> hidden]
Boots == {Boot(1, 3, 0), Boot(1, 5, 65537), Boot(2, 3, 300)}
Entry(kind, name, attr, size, hour, sec) ==
    [kind |-> kind, name |-> name, ext |-> <<"C">>, attr |-> attr, size |-> size,
     time |-> [hour |-> hour, min |-> 59, sec |-> sec],
     date |-> [year |-> 2017, month |-> 11, day |-> 29]]
Entries == {Entry("deleted", <<"A", "B", " ">>, {}, 1000, 23, 59),
            Entry("free", <<" ", " ", " ">>, {}, 0, 0, 0),
            Entry("file", <<"A", "B", "C">>, {"R", "A", "D"}, 1000, 23, 59),
            Entry("file", <<"A", " ", "B">>, {"S", "H", "V"}, 70000, 8, 3)}
\* Command lines of up to four words, options with and without their arguments.
O(l) == <<"-", l>>
WordLists(words, n) == UNION {[1 .. k -> words] : k \in 0 .. n}
CommandLines ==
    [cli |-> {<<O("d"), <<"b">>>>, <<O("l"), O("d")>>} \cup
             {w \o <<f>> : w \in WordLists({O("d"), O("o"), O("s"), <<>>, <<"b">>}, 4) \cup
                                      WordLists({O("v"), O("u"), O("l"), <<"b">>}, 2),
                          f \in {<<"d", ".", "e", "/", "f">>, <<"f", ".", "p">>}},
     server |-> WordLists({O("v"), O("d"), O("x")}, 2),
     threads |-> WordLists({O("l"), O("t"), O("v"), <<"5", "x">>}, 3),
     virt |-> WordLists({O("f"), O("n"), <<"b">>}, 2),
     scheduler |-> WordLists({O("a"), O("c"), O("t"), O("v"), <<"f", ".", "p">>, <<"l">>, <<"m">>}, 4)]
SchedulerModules == (<<"alg.mod">> :> "works") @@ (<<"m">> :> "no cleanup") @@ (<<"l">> :> "init fails")
ConfigurationLines == {<<"algorithm", <<"m">>>>, <<"algorithm", <<"alg.mod">>>>, <<"tasks", <<"l">>>>,
                       <<"tasks", <<>>>>, <<"wave", <<"m">>>>, <<"other", <<"l">>>>}

FAT == INSTANCE Fat WITH
      Boots <- Boots, Entries <- Entries, NameLength <- 3,
      EntryWidth <- 2, ROOTSIZE <- 4, program <- m1, disk <- m2, before <- m3,
      sector <- m4, rootBuffer <- m5, i <- m6, listing <- m7
IPC == INSTANCE Ipc WITH
      example <- m1, step <- m2, queue <- m3, name <- m4,
      handle <- m5, got <- m6, memory <- m7, written <- m8, writers <- m9
Gen == INSTANCE TaskGen WITH
      NumTasks <- 2, TimesModulus <- 4, Priorities <- {1, 3},
      FirstArrival <- 1, NextArrival <- 2, Maximum <- 2, interactive <- m1,
      slack <- m2, task <- m3, times_num <- m4, last_arrive_time <- m5,
      generated <- m6, list <- m7
Con == INSTANCE PrinterConfig WITH
      GroupNames <- {<<"g">>, <<"g", "h">>}, PrinterNames <- {<<"p">>, <<"q", "r", "s">>},
      MaxLines <- 4, MaxName <- 3, SRVSIZE <- 48, MaxRequests <- 2,
      Residues <- {<<>>, <<"1">>, <<"x", "~">>},
      at <- m1, rc <- m2, groups <- m3, buffer <- m4, str <- m5, mode <- m6, driven <- m7,
      i <- m8, drivers <- m9, arrays <- m10
Cmd == INSTANCE CommandLine WITH
      Argv <- CommandLines, Existing <- {<<"d", ".", "e", "/", "f">>, <<"f", ".", "p">>, <<"-", "d">>},
      Typed <- {<<>>, <<"b">>}, ModuleKind <- SchedulerModules,
      TaskLists <- {<<"l">>, <<"tasks.json">>}, ConfigLines <- ConfigurationLines,
      MaxLines <- 2, MaxStarts <- 3, program <- m1, argv <- m2, optind <- m3, set <- m4,
      at <- m5, given <- m6, lines <- m7, fifos <- m8, left <- m9, starts <- m10,
      handle <- m11, registered <- m12, cleaned <- m13

SimulatorRests == alg = "fcfs" /\ job = [t \in Tasks |-> J(0, 0, <<2>>, <<>>)] /\ Init
ThreadsRest == exercise = "t1" /\ ThreadInit
DeviceRests == driver = "hello" /\ DeviceInit
PagingRests == algo = "rand" /\ PagingInit
CellsInit ==
    \/ prog = "fat" /\ FAT!FatInit /\ Off8
    \/ prog = "ipc" /\ IPC!IpcInit /\ Off10
    \/ prog = "generator" /\ Gen!GenInit /\ Off8
    \/ prog = "config" /\ Con!ConfigInit /\ Off11
    \/ prog = "command" /\ Cmd!CommandInit
LabsInit ==
    /\ ShellInit
    /\ \/ prog = "simulator" /\ Init /\ ThreadsRest /\ DeviceRests /\ PagingRests /\ AllOff
       \/ prog = "threads" /\ ThreadInit /\ SimulatorRests /\ DeviceRests /\ PagingRests /\ AllOff
       \/ prog = "device" /\ DeviceInit /\ SimulatorRests /\ ThreadsRest /\ PagingRests /\ AllOff
       \/ prog = "paging" /\ PagingInit /\ SimulatorRests /\ ThreadsRest /\ DeviceRests /\ AllOff
       \/ /\ SimulatorRests /\ ThreadsRest /\ DeviceRests /\ PagingRests
          /\ CellsInit \/ (prog = "shell" /\ AllOff)
others == <<vars, threadVars, deviceVars, pagingVars, shellVars>>
RunSimulator ==
    prog = "simulator" /\ Next /\ UNCHANGED <<prog, threadVars, deviceVars, pagingVars, shellVars, rest>>
RunThread(t) ==
    prog = "threads" /\ Step(t) /\ UNCHANGED <<prog, vars, deviceVars, pagingVars, shellVars, rest>>
ThreadWakes(t) ==
    prog = "threads" /\ Spurious(t) /\ UNCHANGED <<prog, vars, deviceVars, pagingVars, shellVars, rest>>
RunDevice == prog = "device" /\ DeviceNext /\ UNCHANGED <<prog, vars, threadVars, pagingVars, shellVars, rest>>
RunShell == prog = "shell" /\ Loop /\ UNCHANGED <<prog, vars, threadVars, deviceVars, pagingVars, rest>>
ChildEnds(p) == prog = "shell" /\ Ends(p) /\ UNCHANGED <<prog, vars, threadVars, deviceVars, pagingVars, rest>>
RunIpc == prog = "ipc" /\ IPC!IpcNext /\ UNCHANGED <<prog, others, rest10>>
LabsNext ==
    \/ RunSimulator
    \/ \E t \in UNION {Threads[e] : e \in Exercises} : RunThread(t) \/ ThreadWakes(t)
    \/ RunShell
    \/ \E p \in Pids : ChildEnds(p)
    \/ prog = "paging" /\ PagingNext /\ UNCHANGED <<prog, vars, threadVars, deviceVars, shellVars, rest>>
    \/ prog = "fat" /\ FAT!FatNext /\ UNCHANGED <<prog, others, rest8>>
    \/ RunDevice
    \/ RunIpc
    \/ prog = "generator" /\ Gen!GenNext /\ UNCHANGED <<prog, others, rest8>>
    \/ prog = "config" /\ Con!ConfigNext /\ UNCHANGED <<prog, others, rest11>>
    \/ prog = "command" /\ Cmd!CommandNext /\ UNCHANGED <<prog, others>>
\* A program that computes goes on, a thread that can run does, and so does a
\* child of the shell, whose user types on; what is read from a terminal or asked
\* of the device need not come.
\* One condition does for threads that never run together: each set has one
\* thread of each exercise at most.
Apart == <<{"inc", "hello", "t1", "producer"}, {"dec", "world", "t2", "consumer", "c1"},
           {"again", "c2"}, {"c3"}, {"c4"}>>
Fairness ==
    /\ WF_vars(RunSimulator) /\ WF_rest(RunIpc)
    /\ \A k \in DOMAIN Apart : WF_threadVars(\E t \in Apart[k] : RunThread(t))
    /\ WF_shellVars(RunShell) /\ \A p \in Pids : WF_shellVars(ChildEnds(p))
LabsSpec == LabsInit /\ [][LabsNext]_memory /\ Fairness
-----------------------------------------------------------------------------
\* The simulator reads the tasks that the generator drew (SimTaskGen).
GeneratedIsRead == prog = "generator" => Gen!Readable(LAMBDA e : Times(e))
\* The floppy tools show what the bytes of the disk say (lab8, lab9).
RowsTellTheirFiles == prog = "fat" => FAT!RowsTellTheirFiles
\* Messages, shared memory and the pipe's line arrive (ipc-types).
ExchangesArrive == prog = "ipc" => IPC!ExchangesArrive
\* Replies end with the printers of config.rc, and a client takes a reply for what
\* it says (print_server_single.c, print_server_client.c).
ToldInOrder == prog = "config" => Con!ToldInOrder
\* The programs do what their command lines ask (cli-printer.c, virt-printer.c,
\* main.cpp and Module.cpp of lab6).
DoesAsAsked == prog = "command" => Cmd!DoesAsAsked

\* Each program does in the end what it is there for, and that is final: the
\* simulator's loop ends with every task finished, under each algorithm and
\* however rrr draws; every thread is joined; both partners of an exchange end,
\* unless mq_test1 took its own message.
EveryProgramArrives ==
    []<>CASE prog = "simulator" -> AllFinished
          [] prog = "threads" -> Joined
          [] prog = "ipc" -> IPC!Exchanged
          [] OTHER -> TRUE
\* The shell reports every child that ended, 1 as any other, unless it exits:
\* one that ended is at some time not, or no longer, to be reported.
ChildIsReported == []<>(prog = "shell" => ~Unreported(1))
=============================================================================
