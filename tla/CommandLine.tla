---------------------------- MODULE CommandLine ----------------------------
(* How the programs start: the options of cli-printer, of the two print       *)
(* servers, of the virtual printer and of the scheduler simulator, and what   *)
(* each makes of them.  A word is its characters; a word of two that begins   *)
(* with "-" is an option.  Clusters of options and their long names, which    *)
(* reach the same handlers, are left out.                                     *)
EXTENDS Integers, Sequences, SequencesExt, FiniteSetsExt

CONSTANTS Argv,        \* bound: program -> the command lines it is started with
          Existing,    \* the words that name a file that can be read
          Typed,       \* bound: what is typed when cli-printer asks for a driver
          ModuleKind,  \* the modules there are -> which functions of theirs work
          TaskLists,   \* the files that are lists of tasks
          ConfigLines, MaxLines, \* bound: keys and values of the simulator's configuration
          MaxStarts    \* bound: starts of a virtual printer
VARIABLES program, argv, optind,
          set,         \* the variables the options set
          at,          \* where the program is
          given,       \* history: the options that were taken, with their arguments
          lines,       \* history: the lines of the configuration
          fifos,       \* the fifos of the virtual printers
          left,        \* history: the names under which a printer was killed
          starts,
          handle, registered, cleaned   \* the module of the simulator
moduleVars == <<handle, registered, cleaned>>
diskVars == <<fifos, left, starts>>
commandVars == <<program, argv, optind, set, at, given, lines, diskVars, moduleVars>>

Programs == {"cli", "server", "threads", "virt", "scheduler"}
Unset == <<"NULL">>
Set == <<"1">>
IsEmpty(w) == w \in {Unset, <<>>}
\* Option -> the variable it sets, for those with an argument and those without.
Takes(p) ==
    CASE p = "cli" -> [d |-> "driver", o |-> "job_name", s |-> "description"]
      [] p = "threads" -> [l |-> "logname", t |-> "timeinms"]
      [] p = "virt" -> [f |-> "log_stream", d |-> "debug_stream", n |-> "printer_name"]
      [] p = "scheduler" -> [a |-> "algorithm", t |-> "tasks", w |-> "wave", l |-> "log",
                             c |-> "cfg"]
      [] OTHER -> <<>>
Flags(p) ==
    CASE p = "cli" -> {"l", "v", "u"} [] p = "server" -> {"v", "d"} [] OTHER -> {"v"}
\* What ends the program; only the virtual printer goes on after a wrong option.
Ends(p) == CASE p = "cli" -> {"?", "v"} [] p = "virt" -> {} [] OTHER -> {"?"}
Default(p) ==
    CASE p = "cli" -> [driver |-> Unset, job_name |-> Unset, description |-> Unset,
                       data |-> Unset]
      [] p = "server" -> [v |-> <<>>, d |-> <<>>]
      [] p = "threads" -> [logname |-> Unset, timeinms |-> <<"1", "0", "0">>, v |-> <<>>]
      [] p = "virt" -> [log_stream |-> <<"stdout">>, debug_stream |-> <<"stderr">>,
                        printer_name |-> <<"p", "1">>, v |-> <<>>]
      [] p = "scheduler" -> [algorithm |-> <<"alg.mod">>, tasks |-> <<"tasks.json">>,
                             wave |-> <<"wave.json">>, log |-> <<"out.log">>, cfg |-> <<>>,
                             v |-> <<>>]

Start(p, line) ==
    /\ program = p /\ argv = line /\ optind = 1 /\ set = Default(p) /\ given = <<>>
    /\ lines = <<>> /\ at = IF p = "cli" THEN "file" ELSE "options"
CommandInit ==
    /\ \E p \in Programs : \E line \in Argv[p] : Start(p, line)
    /\ fifos = {} /\ left = {} /\ starts = 1
    /\ handle = FALSE /\ registered = FALSE /\ cleaned = FALSE

\* cli-printer: the last word, whatever it is, has to be a file.
LastIsFile ==
    /\ at = "file"
    /\ IF argv # <<>> /\ Last(argv) \in Existing
         THEN at' = "options" /\ set' = [set EXCEPT !.data = Last(argv)]
         ELSE at' = "exited" /\ UNCHANGED set
    /\ UNCHANGED <<program, argv, optind, given, lines, diskVars, moduleVars>>

\* atoi, of a number that is its digits: the leading ones.
Digits == {"0", "1", "2", "5"}
Atoi(w) == SubSeq(w, 1, Max({n \in 0 .. Len(w) : \A k \in 1 .. n : w[k] \in Digits}))
\* Mutant of Variable: the last driver counts.
VariableOf(l) == Takes(program)[l]
\* A second driver is a description.
Variable(l) ==
    IF program = "cli" /\ l = "d" /\ set.driver # Unset THEN "description"
    ELSE Takes(program)[l]
Assign(l, value) ==
    [set EXCEPT ![Variable(l)] = IF program = "threads" /\ l = "t" THEN Atoi(value) ELSE value]
\* What getopt returns at optind: the option, or ? for one that is not known or
\* has no word left to be its argument.
IsOption == Len(argv[optind]) = 2 /\ argv[optind][1] = "-"
Taken ==
    LET l == argv[optind][2]
    IN  IF l \in Flags(program) \/ (l \in DOMAIN Takes(program) /\ optind < Len(argv))
        THEN l ELSE "?"
\* A word that is no option is passed over; the argument of an option is the next
\* word, also when it looks like an option.
TakeOption ==
    /\ at = "options" /\ optind <= Len(argv)
    /\ LET l == IF IsOption THEN Taken ELSE ""
           argued == l \in DOMAIN Takes(program)
       IN  /\ optind' = optind + (IF argued THEN 2 ELSE 1)
           /\ IF argued THEN /\ set' = Assign(l, argv[optind + 1])
                             /\ given' = Append(given, <<l, argv[optind + 1]>>)
              ELSE /\ given' = given
                   /\ set' = IF program # "cli" /\ l \in Flags(program)
                               THEN [set EXCEPT ![l] = Set] ELSE set
           /\ \/ at' = (IF l = "l" /\ ~argued THEN "listed"
                        ELSE IF l \in Ends(program) THEN "exited" ELSE at)
              \/ program = "virt" /\ l = "f" /\ at' = "killed"   \* freopen fails
    /\ UNCHANGED <<program, argv, lines, diskVars, moduleVars>>
EndOfOptions ==
    /\ at = "options" /\ optind > Len(argv)
    /\ at' = CASE program = "cli" -> "check" [] program = "server" -> "ready"
               [] program = "threads" -> "log" [] program = "virt" -> "read fifo"
               [] OTHER -> IF set.cfg = <<>> THEN "load" ELSE "config"
    /\ UNCHANGED <<program, argv, optind, set, given, lines, diskVars, moduleVars>>

\* remove_ext: the last dot, unless a directory has it, and what follows.
RemoveExt(w) ==
    LET last(c) == Max({0} \cup {k \in DOMAIN w : w[k] = c})
    IN  IF last(".") > last("/") THEN SubSeq(w, 1, last(".") - 1) ELSE w
AskDriver ==
    /\ at = "check" /\ IsEmpty(set.driver)
    /\ \E w \in Typed : set' = [set EXCEPT !.driver = w]
    /\ UNCHANGED <<program, argv, optind, at, given, lines, diskVars, moduleVars>>
\* The rest of check_job_info, and printer_print.
SendJob ==
    /\ at = "check" /\ ~IsEmpty(set.driver)
    /\ set' = [set EXCEPT !.job_name = IF IsEmpty(@) THEN RemoveExt(set.data) ELSE @,
                          !.description = IF IsEmpty(@) THEN <<>> ELSE @]
    /\ at' = "sent"
    /\ UNCHANGED <<program, argv, optind, given, lines, diskVars, moduleVars>>

\* The threaded server logs to stdout unless the log can be opened.
OpenLog ==
    /\ at = "log" /\ at' = "ready"
    /\ \/ set' = [set EXCEPT !.logname = <<"stdout">>]
       \/ set.logname # Unset /\ UNCHANGED set
    /\ UNCHANGED <<program, argv, optind, given, lines, diskVars, moduleVars>>

\* The virtual printer makes its two fifos, which are unlinked when it ends and
\* not when it is killed; a fifo that is there already ends the program.
Fifo(end) == <<set.printer_name, end>>
MakeFifo ==
    /\ at \in {"read fifo", "write fifo"}
    /\ IF Fifo(at) \in fifos THEN at' = "killed" /\ UNCHANGED fifos
       ELSE /\ fifos' = fifos \cup {Fifo(at)}
            /\ at' = IF at = "read fifo" THEN "write fifo" ELSE "printing"
    /\ UNCHANGED <<program, argv, optind, set, given, lines, left, starts, moduleVars>>
PrinterEnds ==
    /\ at \in {"write fifo", "printing"}
    /\ \/ at = "printing" /\ at' = "ended" /\ fifos' = fifos \ {Fifo("read fifo"), Fifo("write fifo")}
          /\ UNCHANGED left
       \/ at' = "killed" /\ left' = left \cup {set.printer_name} /\ UNCHANGED fifos
    /\ UNCHANGED <<program, argv, optind, set, given, lines, starts, moduleVars>>
StartAgain ==
    /\ program = "virt" /\ at \in {"ended", "killed"} /\ starts < MaxStarts
    /\ starts' = starts + 1
    /\ \E line \in Argv["virt"] : argv' = line
    /\ optind' = 1 /\ set' = Default("virt") /\ given' = <<>> /\ at' = "options"
    /\ UNCHANGED <<program, lines, fifos, left, moduleVars>>

\* The simulator's configuration file is read after the options; a line counts if
\* something follows its "=".
ConfigKeys == {"algorithm", "tasks", "wave", "log"}
ReadConfig ==
    /\ at = "config"
    /\ \/ at' = "load" /\ UNCHANGED <<set, lines>>   \* its end, or it is not there
       \/ /\ set.cfg \in Existing /\ Len(lines) < MaxLines
          /\ \E line \in ConfigLines :
               /\ lines' = Append(lines, line)
               /\ set' = IF line[1] \in ConfigKeys /\ line[2] # <<>>
                           THEN [set EXCEPT ![line[1]] = line[2]] ELSE set
          /\ UNCHANGED at
    /\ UNCHANGED <<program, argv, optind, given, diskVars, moduleVars>>
\* module::Module: what cannot be loaded is reported, and the program goes on.
Kind == IF set.algorithm \in DOMAIN ModuleKind THEN ModuleKind[set.algorithm] ELSE "absent"
init_module == Kind \in {"works", "no cleanup"}
LoadModule ==
    /\ at = "load" /\ at' = "tasks"
    /\ handle' = (Kind # "absent") /\ registered' = init_module
    /\ UNCHANGED <<program, argv, optind, set, given, lines, diskVars, cleaned>>
\* Without the file, or a list in it, the program does not survive.
ReadTasks ==
    /\ at = "tasks"
    /\ at' = IF set.tasks \in TaskLists THEN "run" ELSE "killed"
    /\ UNCHANGED <<program, argv, optind, set, given, lines, diskVars, moduleVars>>
\* The first tick asks the algorithm, which is null if none was registered.
Run ==
    /\ at = "run"
    /\ at' = IF registered THEN "remove" ELSE "killed"
    /\ UNCHANGED <<program, argv, optind, set, given, lines, diskVars, moduleVars>>
\* Mutant of unregister_scheduler: the algorithm stays.
unregister_nothing == registered
\* The last algorithm goes, whose handle it ever is.
unregister_scheduler == FALSE
RemoveModule ==
    /\ at = "remove" /\ at' = "ended" /\ handle' = FALSE
    /\ IF Kind = "no cleanup" THEN UNCHANGED <<registered, cleaned>>
       ELSE cleaned' = TRUE /\ registered' = unregister_scheduler
    /\ UNCHANGED <<program, argv, optind, set, given, lines, diskVars>>

CommandNext ==
    \/ LastIsFile \/ TakeOption \/ EndOfOptions
    \/ AskDriver \/ SendJob \/ OpenLog
    \/ MakeFifo \/ PrinterEnds \/ StartAgain
    \/ ReadConfig \/ LoadModule \/ ReadTasks \/ Run \/ RemoveModule
-----------------------------------------------------------------------------
Arguments(l) == {k \in DOMAIN given : given[k][1] = l}
LastOf(K) == given[Max(K)][2]
\* The job that is sent is what the command line says of it.
JobAsAsked ==
    LET d == Arguments("d")
        described == Arguments("s") \cup {k \in d : \E n \in d : n < k}
    IN  /\ set.data = Last(argv) /\ set.data \in Existing
        /\ ~IsEmpty(set.driver)
        /\ d # {} /\ given[Min(d)][2] # <<>> => set.driver = given[Min(d)][2]
        /\ set.description = IF described = {} THEN <<>> ELSE LastOf(described)
        /\ IF Arguments("o") # {} /\ LastOf(Arguments("o")) # <<>>
             THEN set.job_name = LastOf(Arguments("o"))
             ELSE /\ IsPrefix(set.job_name, set.data)
                  /\ LET ext == SubSeq(set.data, Len(set.job_name) + 1, Len(set.data))
                     IN  IF ext = <<>>
                         THEN \A k \in DOMAIN set.data : set.data[k] = "." =>
                                \E m \in k .. Len(set.data) : set.data[m] = "/"
                         ELSE ext[1] = "." /\ ToSet(Tail(ext)) \cap {".", "/"} = {}
\* The simulator uses what the configuration says last, else the last option,
\* else the default.
SettingsAsAsked ==
    \A l \in {"a", "t", "w", "l"} :
        LET name == Takes("scheduler")[l]
            said == {k \in DOMAIN lines : lines[k][1] = name /\ lines[k][2] # <<>>}
        IN  set[name] = IF said # {} THEN lines[Max(said)][2]
                        ELSE IF Arguments(l) # {} THEN LastOf(Arguments(l))
                        ELSE Default("scheduler")[name]
\* Programs do what their command lines ask: cli-printer sends that job
\* (check_job_info); the simulator only ends with the algorithm it was given run,
\* cleaned up after and unregistered (main.cpp, Module.cpp); a printer that was
\* killed is never started again under its name (mkfifo in virt-printer.c).
DoesAsAsked ==
    /\ at = "sent" => JobAsAsked
    /\ program = "scheduler" /\ at \in {"load", "tasks", "run", "remove", "ended"} =>
          SettingsAsAsked
    /\ program = "scheduler" /\ at = "ended" =>
          Kind = "no cleanup" \/ (Kind = "works" /\ cleaned /\ ~registered)
    /\ program = "virt" /\ at = "printing" => set.printer_name \notin left
=============================================================================
