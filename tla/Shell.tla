------------------------------- MODULE Shell -------------------------------
(* The shell of project 1 (proj1/main.c, proj1/list.c): the loop that reads a *)
(* line and runs it, the children it forks, which end whenever they do, and   *)
(* the list of background jobs.                                               *)
(*                                                                            *)
(* A line is a record of what it asks for; pid, ppid, pwd and cd, which       *)
(* change nothing modelled here, are one command.  Left out: the prompt, lines*)
(* of more than 255 characters, fork failing, and names[] of the job list,    *)
(* which point into a dead stack frame and may read as anything.              *)
EXTENDS Naturals, Sequences, SequencesExt, FiniteSets

CONSTANTS Pids,       \* what the kernel numbers children with
          Values      \* what variables are set to

\* A pid is a number, never the 0 of fork() in the child.
ASSUME ShellAssumption ==
    /\ IsFiniteSet(Pids) /\ Pids \subseteq Nat \ {0}
    /\ \A v \in Values : v \in Seq(STRING)

VARIABLES place,      \* "top", "read", "run", "wait", "ended"
          line,       \* the line that was read
          jobs,       \* List jobs: the pids
          children,   \* the kernel's list of the shell's children, in the order of their start
          zombies,    \* those of them that have ended
          foreground, \* the pid waitpid() waits for
          stdout,     \* where descriptor 1 goes: "terminal" or "file"
          env,        \* the variable X of the environment, or Unset
          lastSet     \* what set was given last
shellVars == <<place, line, jobs, children, zombies, foreground, stdout, env, lastSet>>

NoPid == 0
Unset == <<>>
Builtins == {"exit", "pid", "jobs", "empty", "get", "clear"}
Lines == [cmd : Builtins \cup {"run"}, value : {Unset}, bg : BOOLEAN, redir : {"none", "file", "bad"}]
         \cup [cmd : {"set"}, value : Values, bg : {FALSE}, redir : {"none"}]
NoLine == [cmd |-> "empty", value |-> Unset, bg |-> FALSE, redir |-> "none"]

ShellInit ==
    /\ place = "top" /\ line = NoLine /\ jobs = <<>> /\ children = <<>> /\ zombies = {}
    /\ foreground = NoPid /\ stdout = "terminal"
    /\ env = Unset /\ lastSet = Unset

\* mklist, ladd and ldel: the nodes in their order.
Ladd(l, p) == Append(l, p)
\* Mutant of Ldel: the head is unlinked, whichever node was found.
LdelHead(l, p) == IF p \in ToSet(l) THEN Tail(l) ELSE l

Ldel(l, p) == LET found == {i \in DOMAIN l : l[i] = p}
              IN  IF found = {} THEN l
                  ELSE RemoveAt(l, CHOOSE i \in found : \A k \in found : i <= k)

\* Mutant of Top: children are reaped after a background command only.
TopAfterBackground ==
    /\ place = "top" /\ place' = "read" /\ line' = NoLine /\ stdout' = "terminal"
    /\ IF zombies = {} \/ ~line.bg THEN UNCHANGED <<children, zombies, jobs>>
       ELSE LET bgpid == children[SelectInSeq(children, LAMBDA p : p \in zombies)]
            IN  /\ children' = RemoveFirst(children, bgpid) /\ zombies' = zombies \ {bgpid}
                /\ jobs' = Ldel(jobs, bgpid)
    /\ UNCHANGED <<foreground, env, lastSet>>

\* The top of the loop: stdout goes back to the terminal, and one child that has
\* ended, the oldest (waitpid(-1) looks at them in turn), is reported and leaves
\* the list.
Top ==
    /\ place = "top" /\ place' = "read" /\ line' = NoLine /\ stdout' = "terminal"
    /\ IF zombies = {} THEN UNCHANGED <<children, zombies, jobs>>
       ELSE LET bgpid == children[SelectInSeq(children, LAMBDA p : p \in zombies)]
            IN  /\ children' = RemoveFirst(children, bgpid) /\ zombies' = zombies \ {bgpid}
                /\ jobs' = Ldel(jobs, bgpid)
    /\ UNCHANGED <<foreground, env, lastSet>>

\* The line is read; at the end of the input it is the empty line, every time.
\* A & at its end and the file behind its > are taken off.  A file that cannot
\* be opened ends the turn, and so does the empty line.  (The bound on children:
\* no program is started while all Pids are in use.)
Read ==
    /\ place = "read"
    /\ \E l \in Lines :
         /\ l.cmd = "run" => Len(children) < Cardinality(Pids)
         /\ line' = l
         /\ \/ l.redir = "bad" /\ place' = "top" /\ UNCHANGED stdout
            \/ /\ l.redir # "bad" /\ place' = IF l.cmd = "empty" THEN "top" ELSE "run"
               /\ stdout' = IF l.redir = "file" THEN "file" ELSE stdout
    /\ UNCHANGED <<jobs, children, zombies, foreground, env, lastSet>>

Exit == place = "run" /\ line.cmd = "exit" /\ place' = "ended"
        /\ UNCHANGED <<line, jobs, children, zombies, foreground, stdout, env, lastSet>>
\* set X value stores the text "X=value" under X; set X clears it.
Prefix == "X="
Set == /\ place = "run" /\ line.cmd \in {"set", "clear"} /\ place' = "top"
       /\ env' = IF line.cmd = "set" THEN <<Prefix>> \o line.value ELSE Unset
       /\ lastSet' = line.value
       /\ UNCHANGED <<line, jobs, children, zombies, foreground, stdout>>
\* get X prints the value without an "X=" it begins with; get, pid, ppid, cd, pwd
\* and jobs change nothing here.
Got == IF env # Unset /\ env[1] = Prefix THEN Tail(env) ELSE env
Tell == place = "run" /\ line.cmd \in {"get", "pid", "jobs"} /\ place' = "top"
        /\ UNCHANGED <<line, jobs, children, zombies, foreground, stdout, env, lastSet>>

\* fork(), execvp() in the child; the parent waits, or adds the child to jobs.
Fork ==
    /\ place = "run" /\ line.cmd = "run"
    /\ \E pid \in Pids :
         /\ pid \notin ToSet(children) /\ children' = Append(children, pid)
         /\ \/ ~line.bg /\ foreground' = pid /\ place' = "wait" /\ UNCHANGED jobs
            \/ line.bg /\ jobs' = Ladd(jobs, pid) /\ place' = "top" /\ UNCHANGED foreground
    /\ UNCHANGED <<line, zombies, stdout, env, lastSet>>
\* waitpid(pid, &status, 0) returns.
Wait ==
    /\ place = "wait" /\ foreground \in zombies
    /\ children' = RemoveFirst(children, foreground) /\ zombies' = zombies \ {foreground}
    /\ foreground' = NoPid /\ place' = "top"
    /\ UNCHANGED <<line, jobs, stdout, env, lastSet>>
\* A child ends on its own.
Ends(p) == /\ p \in ToSet(children) \ zombies /\ zombies' = zombies \cup {p}
           /\ UNCHANGED <<place, line, jobs, children, foreground, stdout, env, lastSet>>

Loop == Top \/ Read \/ Exit \/ Tell \/ Set \/ Fork \/ Wait
ShellNext == Loop \/ \E p \in Pids : Ends(p)

----------------------------------------------------------------------------
\* The job list is the background children that were not reported yet, in the
\* order of their start, whatever order they end in and whichever numbers the
\* kernel uses again.
JobsAreChildren == jobs = RemoveFirst(children, foreground)

\* A child that ended, and that the shell is still to report.
Unreported(p) == p \in zombies /\ place # "ended"

\* A line leaves nothing behind but its variable: the prompt, and every command
\* without a redirection of its own, write to the terminal, and get prints what
\* set was given, also when that looks like an assignment itself.
LinesStandAlone ==
    /\ place = "read" => stdout = "terminal"
    /\ place = "run" => stdout = IF line.redir = "file" THEN "file" ELSE "terminal"
    /\ Got = lastSet

\* The shell's list and its lines.
ShellKeepsTrack == JobsAreChildren /\ LinesStandAlone
=============================================================================
