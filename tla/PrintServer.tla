---------------------------- MODULE PrintServer ----------------------------
(***************************************************************************)
(* The print server daemon (print_server_single.c) and the client library  *)
(* (print_server_client.c) around the job queues of JobQueues.             *)
(*                                                                         *)
(* The daemon is one thread.  Each turn of its loop accepts at most one    *)
(* connection and reads from it without ever waiting: what has not arrived *)
(* when it looks is not looked for again, since the next turn's accept     *)
(* overwrites connfd.  A turn then either works on the input it composed   *)
(* (produce) or lets every printer take one job.                           *)
(*                                                                         *)
(* A client is one call of printer_print or of printer_list_drivers by a   *)
(* program that exits afterwards, as cli-printer does.  Messages are the   *)
(* fixed blocks of SRVSIZE bytes the library sends and the daemon reads.   *)
(***************************************************************************)
EXTENDS Integers, Sequences

CONSTANTS Clients,
          Groups,        \* the printer groups of config.rc
          UnknownGroup,  \* a driver name that is no group
          PrinterGroup,  \* the groups of the printers, in the order of config.rc
          Inputs,        \* bound: the requests clients make
          Backlog,       \* the second argument of listen
          MaxJobs        \* bound: jobs created in a behaviour

NoClient == "none"

ASSUME ConfigAssumption ==
  /\ NoClient \notin Clients
  /\ PrinterGroup \in Seq(Groups)
  /\ UnknownGroup \notin Groups
  /\ Backlog \in Nat \ {0}
  /\ MaxJobs \in Nat

\* What a description can be when it reaches printer_print: cli-printer makes
\* an absent one empty, another caller passes NULL as the header allows.
Descriptions == {"text", "empty", "null"}

Requests ==
  [cmd : {"MKJOB"}, group : Groups \cup {UnknownGroup}, description : Descriptions]
    \cup [cmd : {"GETDRIVERS"}]

ASSUME InputsAssumption == Inputs \subseteq Requests

\* What the daemon composes from the second block: the fields of the job, or
\* nothing but NEW and PRINT when there was no block to read.
Blank == [group |-> UnknownGroup, description |-> "text"]
NoInput == [group |-> "none", description |-> "none"]

VARIABLES pc,       \* client -> where its call is
          request,  \* client -> what it asks for
          inbox,    \* client -> blocks it sent that the daemon has not read
          backlog,  \* connections waiting for accept, oldest first
          spc,      \* where the daemon is in its loop
          connfd,   \* the client of the connection accepted last
          produce,  \* work on jobstr before consuming again
          jobstr,   \* the composed input
          cursor,   \* the printer whose turn it is to consume
          arrived,  \* history: clients in the order they connected
          asked,    \* history: clients whose job was composed, in order
          job_number, queue, num_jobs, prev, sent, printed

JQ == INSTANCE JobQueues
jqvars == <<job_number, queue, num_jobs, prev, sent, printed>>

clientvars == <<pc, request, arrived>>
servervars == <<spc, connfd, produce, jobstr, cursor, asked>>
vars == <<clientvars, inbox, backlog, servervars, jqvars>>

Init ==
  /\ pc = [c \in Clients |-> "idle"]
  /\ request \in [Clients -> Inputs]
  /\ inbox = [c \in Clients |-> <<>>]
  /\ backlog = <<>>
  /\ spc = "accept"
  /\ connfd = NoClient
  /\ produce = FALSE
  /\ jobstr = NoInput
  /\ cursor = 1
  /\ arrived = <<>>
  /\ asked = <<>>
  /\ JQ!Init

-----------------------------------------------------------------------------
(* The client library.                                                     *)

Go(c, next) == pc' = [pc EXCEPT ![c] = next]

\* connect() completes in the kernel, before the daemon accepts, and waits
\* while the backlog is full.
Connect(c) ==
  /\ pc[c] = "idle"
  /\ spc # "crashed"
  /\ Len(backlog) < Backlog
  /\ backlog' = Append(backlog, c)
  /\ arrived' = Append(arrived, c)
  /\ Go(c, "connected")
  /\ UNCHANGED <<request, inbox, servervars, jqvars>>

\* The first block: the command.
SendCommand(c) ==
  /\ pc[c] = "connected"
  /\ spc # "crashed"
  /\ inbox' = [inbox EXCEPT ![c] = Append(@, request[c].cmd)]
  /\ Go(c, IF request[c].cmd = "MKJOB" THEN "asked" ELSE "waiting")
  /\ UNCHANGED <<request, arrived, backlog, servervars, jqvars>>

\* The second block: the fields of the job.  printer_print returns 0 when it
\* is sent; nothing comes back from the daemon.  Simplified: a send may also
\* succeed after the daemon has ended, or end the client with SIGPIPE (Fail), and
\* of the fields only the description may be empty.
SendJob(c) ==
  /\ pc[c] = "asked"
  /\ spc # "crashed"
  /\ request[c].description # "null"
  /\ inbox' = [inbox EXCEPT ![c] = Append(@, "job")]
  /\ Go(c, "success")
  /\ UNCHANGED <<request, arrived, backlog, servervars, jqvars>>

\* strlen(description) of a null description kills the program, after the
\* command was sent.
DescriptionIsNull(c) ==
  /\ pc[c] = "asked"
  /\ request[c].description = "null"
  /\ Go(c, "killed")
  /\ UNCHANGED <<request, arrived, inbox, backlog, servervars, jqvars>>

\* Without a daemon connect, send or recv fail.
Fail(c) ==
  /\ spc = "crashed"
  /\ pc[c] \in {"idle", "connected", "asked", "waiting"}
  /\ ~ (pc[c] = "asked" /\ request[c].description = "null")
  /\ Go(c, "failed")
  /\ UNCHANGED <<request, arrived, inbox, backlog, servervars, jqvars>>

-----------------------------------------------------------------------------
(* The daemon.                                                             *)

\* Mutant of Accept: a connection is kept for good.
AcceptOnlyOne ==
  /\ spc = "accept"
  /\ IF backlog = <<>> \/ connfd # NoClient
       THEN UNCHANGED <<connfd, backlog>>
       ELSE connfd' = Head(backlog) /\ backlog' = Tail(backlog)
  /\ jobstr' = NoInput
  /\ spc' = "read"
  /\ UNCHANGED <<clientvars, inbox, produce, cursor, asked, jqvars>>

\* accept() does not wait either; -1 takes the place of the old connection.
Accept ==
  /\ spc = "accept"
  /\ IF backlog = <<>>
       THEN connfd' = NoClient /\ backlog' = backlog
       ELSE connfd' = Head(backlog) /\ backlog' = Tail(backlog)
  /\ jobstr' = NoInput
  /\ spc' = "read"
  /\ UNCHANGED <<clientvars, inbox, produce, cursor, asked, jqvars>>

\* A read has a block to return; otherwise it is EAGAIN, EBADF or the end.
Readable == connfd # NoClient /\ inbox[connfd] # <<>>

\* The first read of the turn.  The buffer holds no command of an earlier
\* turn, each is overwritten when it is done.
ReadCommand ==
  /\ spc = "read"
  /\ \/ /\ ~ Readable
        /\ spc' = "work"
        /\ UNCHANGED inbox
     \/ /\ Readable
        /\ spc' = IF Head(inbox[connfd]) = "MKJOB" THEN "meta" ELSE "reply"
        /\ inbox' = [inbox EXCEPT ![connfd] = Tail(@)]
  /\ UNCHANGED <<clientvars, backlog, connfd, produce, jobstr, cursor, asked, jqvars>>

\* Mutant of ReadJob: what the failed read leaves are the fields of the job
\* before.
ReadStaleJob ==
  /\ spc = "meta"
  /\ LET r == IF Readable \/ asked = <<>> THEN request[connfd]
                                          ELSE request[asked[Len(asked)]] IN
       jobstr' = IF Readable \/ asked # <<>>
                   THEN [group |-> r.group, description |-> r.description]
                   ELSE Blank
  /\ inbox' = [inbox EXCEPT ![connfd] = <<>>]
  /\ asked' = Append(asked, connfd)
  /\ produce' = TRUE
  /\ spc' = "work"
  /\ UNCHANGED <<clientvars, backlog, connfd, cursor, jqvars>>

\* The second read, of the fields of the job, and the composition of jobstr.
\* If nothing is there to read the buffer still holds MKJOB, with no field.
ReadJob ==
  /\ spc = "meta"
  /\ LET r == request[connfd] IN
       jobstr' = IF Readable
                   THEN [group |-> r.group, description |-> r.description]
                   ELSE Blank
  /\ inbox' = [inbox EXCEPT ![connfd] = <<>>]
  /\ asked' = Append(asked, connfd)
  /\ produce' = TRUE
  /\ spc' = "work"
  /\ UNCHANGED <<clientvars, backlog, connfd, cursor, jqvars>>

\* GETDRIVERS is answered on the connection; the text is built with strcat
\* from an uninitialised array, whatever it holds comes first.
Reply ==
  /\ spc = "reply"
  /\ \E answer \in {"listed", "garbled"} : Go(connfd, answer)
  /\ spc' = "work"
  /\ UNCHANGED <<request, arrived, inbox, backlog, connfd, produce, jobstr, cursor, asked, jqvars>>

\* The lines of jobstr: NEW, PRINTER, NAME, DESCRIPTION, FILE, PRINT.  The
\* line of an empty description has no second token, and strncpy from the
\* null strtok returns ends the daemon.
ProduceJob ==
  /\ spc = "work" /\ produce /\ jobstr # NoInput
  /\ \/ /\ jobstr.description = "empty"
        /\ JQ!Discard
        /\ spc' = "crashed"
     \/ /\ jobstr.description # "empty"
        /\ IF jobstr.group \in Groups THEN JQ!Enqueue(jobstr.group) ELSE JQ!Discard
        /\ spc' = "accept"
  /\ produce' = FALSE
  /\ UNCHANGED <<clientvars, inbox, backlog, connfd, jobstr, cursor, asked>>

\* Mutant of ProduceNothing: produce stays set.
ProduceForEver ==
  /\ spc = "work" /\ produce /\ jobstr = NoInput
  /\ spc' = "accept"
  /\ UNCHANGED <<clientvars, inbox, backlog, connfd, produce, jobstr, cursor, asked, jqvars>>

\* produce is set, but no job was composed this turn: the first line is empty.
ProduceNothing ==
  /\ spc = "work" /\ produce /\ jobstr = NoInput
  /\ produce' = FALSE
  /\ spc' = "accept"
  /\ UNCHANGED <<clientvars, inbox, backlog, connfd, jobstr, cursor, asked, jqvars>>

StartConsuming ==
  /\ spc = "work" /\ ~ produce
  /\ cursor' = 1
  /\ spc' = "consume"
  /\ UNCHANGED <<clientvars, inbox, backlog, connfd, produce, jobstr, asked, jqvars>>

\* One printer, in the order of config.rc: sem_getvalue, and a job if any.
ConsumeTurn ==
  /\ spc = "consume"
  /\ cursor =< Len(PrinterGroup)
  /\ LET g == PrinterGroup[cursor] IN
       \/ /\ num_jobs[g] > 0
          /\ JQ!Consume(g)
          /\ produce' = TRUE
       \/ /\ num_jobs[g] = 0
          /\ UNCHANGED <<produce, jqvars>>
  /\ cursor' = cursor + 1
  /\ UNCHANGED <<clientvars, inbox, backlog, spc, connfd, jobstr, asked>>

StopConsuming ==
  /\ spc = "consume"
  /\ cursor > Len(PrinterGroup)
  /\ spc' = "accept"
  /\ UNCHANGED <<clientvars, inbox, backlog, connfd, produce, jobstr, cursor, asked, jqvars>>

Daemon ==
  \/ Accept \/ ReadCommand \/ ReadJob \/ Reply
  \/ ProduceJob \/ ProduceNothing
  \/ StartConsuming \/ ConsumeTurn \/ StopConsuming

Client(c) ==
  \/ Connect(c) \/ SendCommand(c) \/ SendJob(c) \/ DescriptionIsNull(c) \/ Fail(c)

Next == Daemon \/ \E c \in Clients : Client(c)

\* The daemon's loop never blocks and a program that called the library runs
\* on, so each keeps taking the steps it can; whether a program calls the
\* library at all (Connect) is its own business.
Fairness ==
  /\ WF_vars(Daemon)
  /\ \A c \in Clients :
       WF_vars(SendCommand(c) \/ SendJob(c) \/ DescriptionIsNull(c) \/ Fail(c))

Spec == Init /\ [][Next]_vars /\ Fairness
-----------------------------------------------------------------------------
Place(seq, x) == CHOOSE i \in 1 .. Len(seq) : seq[i] = x
Composing == spc = "work" /\ produce /\ jobstr # NoInput

\* Each composed input becomes one job, in the turn that composed it, and a
\* queued job is in the group its own client named and carries the fields of its
\* own client, even though jobstr, connfd and the buffer are shared by all turns
\* and overwritten by each.
QueuedAsAsked ==
  /\ Len(asked) = job_number + (IF Composing THEN 1 ELSE 0)
  /\ \A g \in Groups : \A i \in 1 .. Len(sent[g]) :
       LET c == asked[sent[g][i] + 1]
       IN  /\ pc[c] = "success"
           /\ request[c].group = g /\ request[c].description = "text"

\* From connect to printer: of two jobs of a group, that of the client which
\* connected first is printed first.
PrintedInArrivalOrder ==
  \A g \in Groups : \A i, k \in 1 .. Len(printed[g]) :
    i < k => Place(arrived, asked[printed[g][i] + 1])
               =< Place(arrived, asked[printed[g][k] + 1])

\* Every counted job is printed, unless the daemon dies first: the turns
\* spent on input delay the printers, they do not starve them, as long as
\* clients stop coming at some point.  (That a count above 0 leads to one of 0
\* is that it is 0 again and again.)
CountedJobsArePrinted ==
  \A g \in Groups : []<>(num_jobs[g] = 0 \/ spc = "crashed")

\* Every connection is accepted in the end, whatever its client does: none
\* stays in the backlog for good.
ConnectionsAreAccepted ==
  \A c \in Clients :
    []<>(spc = "crashed" \/ ~ \E i \in 1 .. Len(backlog) : backlog[i] = c)

\* print_server_client.h: printer_print returns 0 "if the print server accepts
\* the job as being valid".
SuccessIsQueued ==
  \A c \in Clients :
    (pc[c] = "success" /\ request[c].group \in Groups)
      ~> \/ spc = "crashed"
         \/ \E i \in 1 .. Len(sent[request[c].group]) :
              asked[sent[request[c].group][i] + 1] = c

\* print_server_client.h: the description is "Optional".  A caller that has
\* none, as cli-printer, sends it empty, and the daemon goes on.
DaemonSurvivesNoDescription == spc # "crashed"

\* print_job_list documents num_jobs as "the number of jobs in the list", and
\* main() loops "to get the print job and send it to the printers": a queued
\* job is printed at some time.
QueuedJobsArePrinted ==
  \A g \in Groups :
    Len(sent[g]) > 0
      ~> \/ spc = "crashed"
         \/ \E k \in 1 .. Len(printed[g]) : printed[g][k] = sent[g][Len(sent[g])]
=============================================================================
