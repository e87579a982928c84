---------------------------- MODULE VirtPrinter ----------------------------
(***************************************************************************)
(* One virtual printer (virt-printer.c) and the driver the daemon talks to *)
(* it with (printer_driver.c), joined by two fifos.                        *)
(*                                                                         *)
(* The daemon installs the printer, asking it three questions, and prints  *)
(* jobs: a ##NAME line, the file as it is, ##END##.  A file that does not  *)
(* end with a newline has the ##END## behind its last line, where the      *)
(* printer does not see it; a line of a file that begins with ##END## ends *)
(* the job for the printer.  What it takes for a job it gives to a ps2pdf  *)
(* through a pipe.  Both read and write with stdio: a process takes from a *)
(* fifo what its buffer has room for, and a fork duplicates what is in it. *)
(* fgets at the end of the file leaves the line as it was, and only the    *)
(* outer loop looks at feof.                                               *)
(*                                                                         *)
(* A line is what one fgets of the printer returns, be it a piece of a     *)
(* long line or one that the end of the daemon cut short: a record of its  *)
(* kind, its job, and its number among the lines of the fifo.  Lines of a  *)
(* file that are one of the three questions are left out.                  *)
(***************************************************************************)
EXTENDS Integers, Sequences

CONSTANTS NJobs,      \* bound: jobs the daemon prints
          NLines,     \* bound: lines of the file of a job
          FileLines,  \* the kinds of lines that the files have
          MaxReaders, \* bound: processes that can come to read the fifo
          Ps2pdf,     \* what becomes of ps2pdf: it works, it may quit before
                      \* the end of its input, or it cannot be executed
          DaemonDies  \* whether the daemon can end

ASSUME BoundsAssumption ==
  /\ NJobs \in Nat /\ NLines \in Nat /\ MaxReaders \in Nat \ {0}
  /\ FileLines \subseteq {"text", "text##END##", "##END##text"}
  /\ Ps2pdf \in {"works", "quits", "missing"} /\ DaemonDies \in BOOLEAN

Readers == 1 .. MaxReaders
Questions == <<"##NAME##", "##DESCRIPTION##", "##LOCATION##">>

Line(kind, job, n) == [kind |-> kind, job |-> job, n |-> n]
Question(k) == Line(Questions[k], 0, k)
NoLine == Line("", 0, 0)
\* strncmp(line, "##END##", 7): the lines that end a job for the printer.
EndsJob(l) == l.kind \in {"##END##", "##END##text"}

VARIABLES dpc,     \* where the daemon is
          asking,  \* the question of printer_install it is at
          job,     \* the job it prints, or printed last
          place,   \* lines of the file of job already written
          written,    \* history: the lines written into the -r fifo
          fifo,    \* lines in the -r fifo, to the printer
          answers, \* lines in the -w fifo, to the daemon
          pc,      \* reader -> where it is
          buf,     \* reader -> lines in its stdio buffer
          line,    \* reader -> the line it read last
          eof,     \* reader -> feof(print_stream_in)
          pipe,    \* reader -> the conversion it writes to, by its place
          child,   \* reader -> the reader its last fork left behind, or 0
          conversions, \* what each ps2pdf was started for and was given
          flooded  \* reader -> it copies its last line without end

daemonvars == <<dpc, asking, job, place, written>>
readervars == <<pc, buf, line, eof, pipe, child, conversions, flooded>>
printerVars == <<daemonvars, fifo, answers, readervars>>

PrinterInit ==
  /\ dpc = "open_r" /\ asking = 1 /\ job = 0 /\ place = 0
  /\ written = <<>> /\ fifo = <<>> /\ answers = <<>>
  /\ pc = [p \in Readers |-> IF p = 1 THEN "open_r" ELSE "unborn"]
  /\ buf = [p \in Readers |-> <<>>]
  /\ line = [p \in Readers |-> NoLine]
  /\ eof = [p \in Readers |-> FALSE]
  /\ pipe = [p \in Readers |-> 0]
  /\ child = [p \in Readers |-> 0]
  /\ conversions = <<>>
  /\ flooded = [p \in Readers |-> FALSE]

-----------------------------------------------------------------------------
(* The daemon: printer_install and printer_print.                          *)

\* A line of the daemon goes behind those it has written.
Send(kind, j) ==
  LET l == Line(kind, j, Len(written) + 1)
  IN  fifo' = Append(fifo, l) /\ written' = Append(written, l)

\* fopen of a fifo waits for the other end: both open -r, then -w.
OpenR ==
  /\ dpc = "open_r" /\ pc[1] = "open_r"
  /\ dpc' = "open_w"
  /\ pc' = [pc EXCEPT ![1] = "open_w"]
  /\ UNCHANGED <<asking, job, place, written, fifo, answers, buf, line, eof, pipe, child,
                 conversions, flooded>>

OpenW ==
  /\ dpc = "open_w" /\ pc[1] = "open_w"
  /\ dpc' = "ask"
  /\ pc' = [pc EXCEPT ![1] = "top"]
  /\ UNCHANGED <<asking, job, place, written, fifo, answers, buf, line, eof, pipe, child,
                 conversions, flooded>>

Gone == {"gone", "cut off"}
Over == {"ended", "killed"}
ReaderLeft == \E p \in Readers : pc[p] \notin Over \cup {"unborn"}

\* Mutant of Ask: the questions are asked without waiting for the answers.
AskAhead ==
  /\ dpc = "ask"
  /\ Send(Questions[asking], 0)
  /\ IF asking = Len(Questions)
       THEN dpc' = "answer" /\ UNCHANGED asking
       ELSE dpc' = "ask" /\ asking' = asking + 1
  /\ UNCHANGED <<job, place, answers, readervars>>

Ask ==
  /\ dpc = "ask"
  /\ Send(Questions[asking], 0)
  /\ dpc' = "answer"
  /\ UNCHANGED <<asking, job, place, answers, readervars>>

\* fgets waits for the answer.
TakeAnswer ==
  /\ dpc = "answer" /\ answers # <<>>
  /\ answers' = Tail(answers)
  /\ IF asking = Len(Questions)
       THEN dpc' = "idle" /\ UNCHANGED asking
       ELSE dpc' = "ask" /\ asking' = asking + 1
  /\ UNCHANGED <<job, place, written, fifo, readervars>>

\* printer_print: a file that cannot be opened leaves nothing in the fifo.
StartJob ==
  /\ dpc = "idle" /\ job < NJobs /\ ReaderLeft
  /\ job' = job + 1
  /\ place' = 0
  /\ \/ dpc' = "write" /\ Send("##NAME:", job + 1)
     \/ dpc' = "idle" /\ UNCHANGED <<written, fifo>>
  /\ UNCHANGED <<asking, answers, readervars>>

\* A line of the file with its newline.
WriteLine ==
  /\ dpc = "write" /\ ReaderLeft /\ place < NLines
  /\ \E kind \in FileLines \ {"text##END##"} : Send(kind, job)
  /\ place' = place + 1
  /\ UNCHANGED <<dpc, asking, job, answers, readervars>>

\* The last line of a file that does not end with a newline, and ##END## with
\* its newline right behind it: one line for the printer.
WriteUnended ==
  /\ dpc = "write" /\ ReaderLeft /\ place < NLines
  /\ "text##END##" \in FileLines
  /\ \E kind \in FileLines \ {"text"} : Send(kind, job)
  /\ place' = place + 1
  /\ dpc' = "idle"
  /\ UNCHANGED <<asking, job, answers, readervars>>

\* Mutant of WriteEnd: no ##END## after the file.
WriteNoEnd ==
  /\ dpc = "write" /\ ReaderLeft
  /\ dpc' = "idle"
  /\ UNCHANGED <<asking, job, place, written, fifo, answers, readervars>>

\* ##END## on a line of its own: the file is empty or ended with a newline.
WriteEnd ==
  /\ dpc = "write" /\ ReaderLeft
  /\ Send("##END##", job)
  /\ dpc' = "idle"
  /\ UNCHANGED <<asking, job, place, answers, readervars>>

\* The daemon ends, or is cut off in the middle of a job; the lines it wrote
\* stay in the fifo.
Die ==
  /\ DaemonDies
  /\ dpc \in {"ask", "answer", "idle", "write"}
  /\ dpc' = IF dpc = "write" THEN "cut off" ELSE "gone"
  /\ UNCHANGED <<asking, job, place, written, fifo, answers, readervars>>

\* A write into the fifo that nobody reads any more is SIGPIPE.
WriteToNobody ==
  /\ dpc \in {"idle", "write"} /\ ~ ReaderLeft
  /\ dpc = "idle" => job < NJobs
  /\ dpc' = IF dpc = "write" THEN "cut off" ELSE "gone"
  /\ UNCHANGED <<asking, job, place, written, fifo, answers, readervars>>

-----------------------------------------------------------------------------
(* The printer.                                                            *)

\* The underlying read of fgets: some of what is in the fifo.
Fill(p) ==
  /\ pc[p] \in {"top", "first", "more"}
  /\ buf[p] = <<>> /\ fifo # <<>>
  /\ \E k \in 1 .. Len(fifo) :
       /\ buf' = [buf EXCEPT ![p] = SubSeq(fifo, 1, k)]
       /\ fifo' = SubSeq(fifo, k + 1, Len(fifo))
  /\ UNCHANGED <<daemonvars, answers, pc, line, eof, pipe, child, conversions, flooded>>

AtEnd(p) == buf[p] = <<>> /\ fifo = <<>> /\ dpc \in Gone

\* Mutant of Gets: the end of the file is not noted.
GetsForEver(p) ==
  \/ /\ buf[p] # <<>>
     /\ line' = [line EXCEPT ![p] = Head(buf[p])]
     /\ buf' = [buf EXCEPT ![p] = Tail(@)]
     /\ UNCHANGED eof
  \/ AtEnd(p) /\ UNCHANGED <<line, buf, eof>>

\* fgets: the next line, or at the end of the file the old one again.
Gets(p) ==
  \/ /\ buf[p] # <<>>
     /\ line' = [line EXCEPT ![p] = Head(buf[p])]
     /\ buf' = [buf EXCEPT ![p] = Tail(@)]
     /\ UNCHANGED eof
  \/ /\ AtEnd(p)
     /\ eof' = [eof EXCEPT ![p] = TRUE]
     /\ UNCHANGED <<line, buf>>

Step(p, next) == pc' = [pc EXCEPT ![p] = next]

\* The outer loop: while(!feof) fgets.
ReadCommand(p) ==
  /\ pc[p] = "top" /\ ~ eof[p]
  /\ Gets(p)
  /\ Step(p, "dispatch")
  /\ UNCHANGED <<daemonvars, fifo, answers, pipe, child, conversions, flooded>>

\* After the loop the fifos are unlinked and the process ends.
Finish(p) ==
  /\ pc[p] = "top" /\ eof[p]
  /\ Step(p, "ended")
  /\ UNCHANGED <<daemonvars, fifo, answers, buf, line, eof, pipe, child, conversions, flooded>>

IsQuestion(l) == \E k \in 1 .. Len(Questions) : l = Question(k)

\* A question is answered at once; nobody to read the answer is SIGPIPE.
Answer(p) ==
  /\ pc[p] = "dispatch" /\ IsQuestion(line[p])
  /\ IF dpc \in Gone
       THEN Step(p, "killed") /\ UNCHANGED answers
       ELSE Step(p, "top") /\ answers' = Append(answers, line[p])
  /\ UNCHANGED <<daemonvars, fifo, buf, line, eof, pipe, child, conversions, flooded>>

\* ##END##, and a line without a second word, are passed over.  strtok leaves
\* only the first word of a line, for when the end of the file repeats it.
FileKinds == {"text", "text##END##", "##END##text"}
PassOver(p) ==
  /\ pc[p] = "dispatch"
  /\ \/ line[p].kind \in {"##END##", ""} \cup FileKinds
     \/ eof[p] /\ line[p].kind = "##NAME:"
  /\ Step(p, "top")
  /\ UNCHANGED <<daemonvars, fifo, answers, buf, line, eof, pipe, child, conversions, flooded>>

\* Any other line is taken for the first of a job: a pipe, a fork, and ps2pdf
\* in the child.  If the execvp fails, the child goes on as a second reader,
\* in the outer loop and with a copy of the buffer.
Fork(p) ==
  /\ pc[p] = "dispatch" /\ ~ eof[p] /\ line[p].kind \in {"##NAME:"} \cup FileKinds
  /\ conversions' = Append(conversions, [first |-> line[p], lines |-> <<>>,
                                         status |-> "open"])
  /\ pipe' = [pipe EXCEPT ![p] = Len(conversions) + 1]
  /\ IF Ps2pdf = "missing"
       THEN \E c \in Readers :
              /\ pc[c] = "unborn" /\ \A d \in Readers : d < c => pc[d] # "unborn"
              /\ pc' = [pc EXCEPT ![p] = "first", ![c] = "top"]
              /\ buf' = [buf EXCEPT ![c] = buf[p]]
              /\ line' = [line EXCEPT ![c] = line[p]]
              /\ child' = [child EXCEPT ![p] = c]
       ELSE Step(p, "first") /\ UNCHANGED <<buf, line, child>>
  /\ UNCHANGED <<daemonvars, fifo, answers, eof, flooded>>

\* The fgets before the inner loop, and the one at the end of its body.
ReadText(p) ==
  /\ pc[p] \in {"first", "more"}
  /\ Gets(p)
  /\ Step(p, "copy")
  /\ UNCHANGED <<daemonvars, fifo, answers, pipe, child, conversions, flooded>>

\* Nobody holds the read end of the pipe of p.
PipeBroken(p) ==
  IF child[p] # 0 THEN pc[child[p]] \in Over
                  ELSE conversions[pipe[p]].status = "quit"

\* ps2pdf gives up before it has read all of its input.
Quit(p) ==
  /\ Ps2pdf = "quits"
  /\ pipe[p] # 0 /\ conversions[pipe[p]].status = "open"
  /\ conversions' = [conversions EXCEPT ![pipe[p]].status = "quit"]
  /\ UNCHANGED <<daemonvars, fifo, answers, pc, buf, line, eof, pipe, child, flooded>>

\* The body of the inner loop, in which a broken pipe is SIGPIPE.  Past the
\* end of the fifo it writes the same line for ever, which is a flag here.
Copy(p) ==
  /\ pc[p] = "copy" /\ ~ EndsJob(line[p])
  /\ IF PipeBroken(p)
       THEN Step(p, "killed") /\ UNCHANGED <<conversions, flooded>>
       ELSE /\ Step(p, "more")
            /\ IF eof[p]
                 THEN flooded' = [flooded EXCEPT ![p] = TRUE] /\ UNCHANGED conversions
                 ELSE /\ conversions' = [conversions EXCEPT
                                           ![pipe[p]].lines = Append(@, line[p])]
                      /\ UNCHANGED flooded
  /\ UNCHANGED <<daemonvars, fifo, answers, buf, line, eof, pipe, child>>

\* Mutant of ClosePipe: the pipe is left open and ps2pdf not waited for.
LeavePipeOpen(p) ==
  /\ pc[p] = "copy" /\ EndsJob(line[p])
  /\ Step(p, "top")
  /\ UNCHANGED <<daemonvars, fifo, answers, buf, line, eof, pipe, child,
                 conversions, flooded>>

\* A line that begins with ##END##: the pipe is closed.
ClosePipe(p) ==
  /\ pc[p] = "copy" /\ EndsJob(line[p])
  /\ conversions' = [conversions EXCEPT
                       ![pipe[p]].status = IF @ = "quit" THEN @ ELSE "closed"]
  /\ Step(p, "wait")
  /\ UNCHANGED <<daemonvars, fifo, answers, buf, line, eof, pipe, child, flooded>>

\* wait(): ps2pdf ends at the end of its input.  A child that could not
\* execute it is waited for until it ends as a reader.
Wait(p) ==
  /\ pc[p] = "wait"
  /\ child[p] # 0 => pc[child[p]] \in Over
  /\ conversions' = [conversions EXCEPT
                       ![pipe[p]].status = IF @ = "closed" /\ child[p] = 0
                                             THEN "done" ELSE "lost"]
  /\ pipe' = [pipe EXCEPT ![p] = 0]
  /\ child' = [child EXCEPT ![p] = 0]
  /\ Step(p, "top")
  /\ UNCHANGED <<daemonvars, fifo, answers, buf, line, eof, flooded>>

Printing == WriteLine \/ WriteUnended \/ WriteEnd
Daemon == Ask \/ TakeAnswer \/ StartJob \/ Printing \/ WriteToNobody
Reader(p) ==
  \/ Fill(p) \/ ReadCommand(p) \/ Finish(p) \/ Answer(p) \/ PassOver(p)
  \/ Fork(p) \/ ReadText(p) \/ Copy(p) \/ ClosePipe(p) \/ Wait(p)

PrinterNext == OpenR \/ OpenW \/ Daemon \/ Die \/ \E p \in Readers : Reader(p) \/ Quit(p)

PrinterSpec == PrinterInit /\ [][PrinterNext]_printerVars
-----------------------------------------------------------------------------
\* Question and answer stay in step over the two fifos, whatever the readers'
\* buffers do: an answer is to the question the daemon is waiting on.
AnswersFitQuestions ==
  answers # <<>> => /\ answers = <<Question(asking)>>
                    /\ dpc \in {"answer"} \cup Gone

Conversions == {conversions[k] : k \in 1 .. Len(conversions)}
Ended(c) == c.status \in {"closed", "done"}
\* The number of the line behind what c was given.
NextOf(c) == c.first.n + Len(c.lines) + 1

\* "copy data from the fifo to the pipe until ##END## is reached": what a
\* ps2pdf is given is the file of its job from its start, all of it once the
\* pipe is closed, and no line of the next job or of the protocol.
ConversionsAreJobs ==
  \A c \in Conversions :
    /\ c.first.kind = "##NAME:"
    /\ \A m \in 1 .. Len(c.lines) :
         c.lines[m] = Line("text", c.first.job, c.first.n + m)
    /\ Ended(c) => /\ NextOf(c) <= Len(written)
                   /\ written[NextOf(c)] = Line("##END##", c.first.job, NextOf(c))

\* What a ps2pdf is given is what the daemon wrote behind the line it was
\* started for, and nothing else, up to the first line that begins with
\* ##END##.  (If the daemon ends behind a line that begins with ##END## and is
\* taken for the first of a job, that line is the one that ends it.)
GivenTheStream(c) ==
  /\ \A m \in 1 .. Len(c.lines) :
       c.lines[m] = written[c.first.n + m] /\ ~ EndsJob(c.lines[m])
  /\ Ended(c) => \/ NextOf(c) <= Len(written) /\ EndsJob(written[NextOf(c)])
                 \/ EndsJob(c.first) /\ c.lines = <<>>

\* A file that hides the ##END## or has a line that begins with it.
OddKinds == {"text##END##", "##END##text"}
FilesArePlain == \A i \in 1 .. Len(written) : written[i].kind \notin OddKinds

\* Conversions are made one after the other, of parts of the stream that follow
\* each other; and if every file ends with a newline and no line of one begins
\* with ##END##, each is of the file of one job.
ConvertedInOrder ==
  /\ \A c \in Conversions : GivenTheStream(c)
  /\ \A i, k \in 1 .. Len(conversions) :
       i < k => /\ NextOf(conversions[i]) < conversions[k].first.n
                /\ conversions[i].status # "open"
  /\ FilesArePlain => ConversionsAreJobs

\* Only a daemon that ended in the middle of a job, or behind a file that hides
\* the ##END## in its last line, sends the printer into the endless copy of its
\* last line.
EndIsHidden == written # <<>> /\ written[Len(written)].kind = "text##END##"
FloodsOnlyWhenCutOff ==
  (\E p \in Readers : flooded[p]) => \/ dpc = "cut off"
                                     \/ dpc = "gone" /\ EndIsHidden

\* A job the daemon has begun gets a ps2pdf of its own, that is waited for,
\* unless one of the two processes dies first or a file is odd.  Whatever the
\* files are, nothing stays unconverted behind a daemon that is idle and whose
\* last ##END## is a line of its own.
Finished(c) == c.status \in {"done", "lost"}
JobIsConverted(j) ==
  (\E i \in 1 .. Len(written) : written[i] = Line("##NAME:", j, i)) =>
    \/ dpc \in Gone \/ pc[1] = "killed" \/ ~ FilesArePlain
    \/ \E c \in Conversions : c.first.kind = "##NAME:" /\ c.first.job = j /\ Finished(c)
NothingIsLeftOpen ==
  (dpc = "idle" /\ written # <<>> /\ written[Len(written)].kind = "##END##") =>
    pc[1] = "killed" \/ \A c \in Conversions : Finished(c)

\* The opens of the fifos and the questions do not wait for each other, and the
\* end of one process reaches the other.  When the daemon ends between jobs the
\* printer ends too, or is killed over an answer; in a job, or behind a file
\* that hides its ##END##, it may flood ps2pdf for ever, or until ps2pdf quits.
\* When the converter of a job gives up early the printer is killed over its
\* pipe, and the daemon in its turn over the fifo, with the job it was writing.
IsInstalled == dpc = "idle" \/ dpc \in Gone
EndReachesTheOther ==
  /\ dpc \in Gone => flooded[1] \/ pc[1] \in Over
  /\ dpc = "gone" /\ ~ EndIsHidden => pc[1] \in Over
  /\ pc[1] = "killed" => dpc # "write"
=============================================================================
