------------------------- MODULE VirtPrinter_proofs -------------------------
(***************************************************************************)
(* Proofs about VirtPrinter, for every number of jobs and of lines, for    *)
(* files of all kinds and for a ps2pdf that can be executed: the two fifos *)
(* keep questions and answers in step, each ps2pdf is given a part of what *)
(* the daemon wrote, and the printer floods only where its end is missing. *)
(*                                                                         *)
(* One reader is alive then.  The lines are numbered as they are written,  *)
(* so the number of the line it read last tells how far it has come, and   *)
(* what it has not read is its stdio buffer and, behind it, the fifo.      *)
(***************************************************************************)
EXTENDS VirtPrinter, SequenceTheorems, TLAPS

-----------------------------------------------------------------------------
(* The inductive invariant, in parts.                                      *)

QuestionKinds == {"##NAME##", "##DESCRIPTION##", "##LOCATION##"}
JobKinds == {"##NAME:", "##END##"} \cup FileKinds
AnyLine == [kind : QuestionKinds \cup JobKinds \cup {""}, job : 0 .. NJobs, n : Nat]
Statuses == {"open", "quit", "closed", "done", "lost"}
Conversion == [first : AnyLine, lines : Seq(AnyLine), status : Statuses]

DaemonTypes ==
  /\ dpc \in {"open_r", "open_w", "ask", "answer", "idle", "write"} \cup Gone
  /\ asking \in 1 .. 3
  /\ job \in 0 .. NJobs
  /\ place \in Nat
  /\ written \in Seq(AnyLine)
  /\ fifo \in Seq(AnyLine)
  /\ answers \in {<<>>, <<Question(asking)>>}

ReaderTypes ==
  /\ pc \in [Readers -> {"unborn", "open_r", "open_w", "top", "dispatch", "first",
                         "more", "copy", "wait"} \cup Over]
  /\ buf \in [Readers -> Seq(AnyLine)]
  /\ line \in [Readers -> AnyLine]
  /\ eof \in [Readers -> BOOLEAN]
  /\ pipe \in [Readers -> Nat]
  /\ child \in [Readers -> Nat]
  /\ conversions \in Seq(Conversion)
  /\ flooded \in [Readers -> BOOLEAN]

\* Only the printer itself ever reads.
OneReader ==
  /\ pc[1] # "unborn"
  /\ \A p \in Readers : child[p] = 0
  /\ \A p \in Readers : p # 1 => pc[p] = "unborn" /\ pipe[p] = 0 /\ ~ flooded[p]

\* What is written: the three questions, then jobs, each from its name to the
\* line that holds its ##END##.
FileEnds == {"##END##"} \cup OddKinds
Stream ==
  /\ \A i \in 1 .. Len(written) :
       /\ written[i].n = i
       /\ i <= 3 => written[i] = Question(i)
       /\ i > 3 => written[i].kind \in JobKinds
       /\ (i > 3 /\ written[i].kind # "##NAME:") =>
            /\ i > 4 /\ written[i].job = written[i - 1].job
            /\ written[i - 1].kind \notin {"##END##", "text##END##"}
       /\ (i > 4 /\ written[i].kind = "##NAME:") => written[i - 1].kind \in FileEnds

\* Where the daemon is in it.
DaemonPlace ==
  /\ dpc \in {"open_r", "open_w"} => asking = 1
  /\ dpc \in {"open_r", "open_w", "ask"} => Len(written) = asking - 1
  /\ dpc = "answer" => Len(written) = asking
  /\ dpc = "idle" => Len(written) >= 3
  /\ dpc \in {"write", "cut off"} => Len(written) > 3
  /\ dpc = "write" => /\ written[Len(written)].job = job
                      /\ written[Len(written)].kind \notin {"##END##", "text##END##"}
  /\ (dpc \in {"idle", "gone"} /\ Len(written) > 3) => written[Len(written)].kind \in FileEnds

\* How far the printer has read, and what it has not read yet.
Read == line[1].n
Buffered == buf[1]
Unread ==
  /\ line[1] = NoLine \/ (Read \in 1 .. Len(written) /\ line[1] = written[Read])
  /\ Len(written) = Read + Len(Buffered) + Len(fifo)
  /\ \A i \in 1 .. Len(Buffered) : Buffered[i] = written[Read + i]
  /\ \A i \in 1 .. Len(fifo) : fifo[i] = written[Read + Len(Buffered) + i]

\* One question is on its way at a time, in one of three places.
Exchange ==
  /\ dpc \in {"open_r", "open_w"} => pc[1] \in {"open_r", "open_w"}
  /\ dpc = "ask" => pc[1] = "top" /\ Read = Len(written)
  /\ dpc \in {"open_r", "open_w", "ask", "idle", "write", "cut off"} => answers = <<>>
  /\ dpc = "answer" =>
       \/ answers = <<>> /\ Read = asking - 1 /\ pc[1] = "top"
       \/ answers = <<>> /\ Read = asking /\ pc[1] = "dispatch"
       \/ answers # <<>> /\ Read = asking /\ pc[1] = "top"
  /\ dpc \in {"idle", "write", "cut off"} =>
       Read >= 3 /\ (pc[1] = "dispatch" => Read > 3)

\* A line read so far hides its ##END## or begins with one.
OddBefore(r) == \E i \in 1 .. r : written[i].kind \in OddKinds

\* Where the printer is in the stream, and with its last conversion.
Copying ==
  /\ eof[1] => Read = Len(written) /\ dpc \in Gone
  /\ pc[1] \in {"open_r", "open_w"} => ~ eof[1]
  /\ pipe[1] \in {0, Len(conversions)}
  /\ pc[1] \in {"open_r", "open_w", "top", "dispatch"} => pipe[1] = 0
  /\ pc[1] \in {"first", "more", "copy", "wait"} =>
       /\ pipe[1] # 0
       /\ LET c == conversions[pipe[1]] IN
         /\ pc[1] = "first" => ~ eof[1] /\ c.lines = <<>> /\ c.first = line[1]
         /\ pc[1] \in {"first", "more"} => NextOf(c) = Read + 1
         /\ pc[1] = "copy" => NextOf(c) = IF eof[1] THEN Read + 1 ELSE Read
         /\ pc[1] = "wait" => /\ EndsJob(line[1])
                              /\ ~ eof[1] => NextOf(c) = Read
                              /\ c.status \in {"closed", "quit"}
         /\ pc[1] # "wait" => c.status \in {"open", "quit"}
  /\ (pc[1] \in {"open_r", "open_w", "top"} /\ ~ eof[1]) =>
       /\ \A k \in 1 .. Len(conversions) : NextOf(conversions[k]) <= Read
       /\ Read <= 3 \/ line[1].kind = "##END##" \/ OddBefore(Read)
  /\ (pc[1] = "dispatch" /\ ~ eof[1]) =>
       /\ \A k \in 1 .. Len(conversions) : NextOf(conversions[k]) < Read
       /\ Read <= 3 \/ line[1].kind \in {"##NAME:", "##END##"} \/ OddBefore(Read)
  /\ flooded[1] => eof[1] /\ Read > 3 /\ ~ EndsJob(line[1])

\* The lines of c are of one job, from its name on.
OfOneJob(c) ==
  /\ c.first.kind = "##NAME:"
  /\ \A m \in 1 .. Len(c.lines) :
       c.lines[m].kind = "text" /\ c.lines[m].job = c.first.job

\* What a conversion was given.
Given(c) ==
  /\ c.first.n > 3 /\ c.first.n + Len(c.lines) <= Read
  /\ c.first = written[c.first.n]
  /\ GivenTheStream(c)
  /\ OfOneJob(c) \/ OddBefore(Read)

Converted ==
  /\ \A k \in 1 .. Len(conversions) :
       Given(conversions[k]) /\ (conversions[k].status = "open" => k = pipe[1])
  /\ \A i, k \in 1 .. Len(conversions) :
       i < k => NextOf(conversions[i]) < conversions[k].first.n

VInv ==
  /\ DaemonTypes /\ ReaderTypes /\ OneReader
  /\ Stream /\ DaemonPlace /\ Unread /\ Exchange /\ Copying /\ Converted
-----------------------------------------------------------------------------
(* Lines, and the sizes of what is written and not yet read.               *)

\* The virtual printer itself is a reader.
LEMMA FirstReader == 1 \in Readers
BY BoundsAssumption DEF Readers

\* The fields of a line, and its type.
LEMMA LineIs ==
  \A kind \in QuestionKinds \cup JobKinds \cup {""}, j \in 0 .. NJobs, n \in Nat :
    /\ Line(kind, j, n) \in AnyLine
    /\ Line(kind, j, n).kind = kind /\ Line(kind, j, n).job = j /\ Line(kind, j, n).n = n
BY DEF Line, AnyLine

\* The three questions of printer_install.
LEMMA QuestionsAre ==
  /\ Len(Questions) = 3
  /\ \A k \in 1 .. 3 : /\ Question(k) \in AnyLine
                       /\ Question(k).kind \in QuestionKinds
                       /\ Question(k).n = k
  /\ NoLine \in AnyLine /\ NoLine.n = 0 /\ NoLine.kind = ""
<1>1. Len(Questions) = 3
  BY DEF Questions
<1>2. 0 \in 0 .. NJobs
  BY BoundsAssumption
<1>3. ASSUME NEW k \in 1 .. 3
      PROVE  /\ Question(k) \in AnyLine /\ Question(k).kind \in QuestionKinds
             /\ Question(k).n = k
  <2>1. k = 1 \/ k = 2 \/ k = 3
    OBVIOUS
  <2>2. Questions[k] \in QuestionKinds
    BY <2>1 DEF Questions, QuestionKinds
  <2>3. Questions[k] \in QuestionKinds \cup JobKinds \cup {""}
    BY <2>2
  <2>4. k \in Nat
    OBVIOUS
  <2>5. /\ Line(Questions[k], 0, k) \in AnyLine
        /\ Line(Questions[k], 0, k).kind = Questions[k] /\ Line(Questions[k], 0, k).n = k
    BY <1>2, <2>3, <2>4 DEF Line, AnyLine
  <2> QED BY <2>2, <2>5 DEF Question
<1>4. NoLine \in AnyLine /\ NoLine.n = 0 /\ NoLine.kind = ""
  <2>1. "" \in QuestionKinds \cup JobKinds \cup {""}
    OBVIOUS
  <2>2. /\ Line("", 0, 0) \in AnyLine
        /\ Line("", 0, 0).kind = "" /\ Line("", 0, 0).n = 0
    BY <1>2, <2>1 DEF Line, AnyLine
  <2> QED BY <2>2 DEF NoLine
<1> QED BY <1>1, <1>3, <1>4

\* Questions, lines of jobs and no line at all are of different kinds.
LEMMA KindsDiffer ==
  /\ QuestionKinds \cap (JobKinds \cup {""}) = {}
  /\ "" \notin JobKinds
  /\ OddKinds \subseteq FileKinds /\ FileEnds \subseteq JobKinds
  /\ FileKinds \subseteq JobKinds /\ {"##NAME:", "##END##"} \subseteq JobKinds
  /\ FileEnds = {"##END##", "text##END##", "##END##text"}
  /\ JobKinds = {"##NAME:", "##END##", "text", "text##END##", "##END##text"}
BY DEF QuestionKinds, JobKinds, FileKinds, OddKinds, FileEnds

\* How far the printer has read, in numbers.
LEMMA Sizes ==
  ASSUME DaemonTypes, ReaderTypes, Unread
  PROVE  /\ Len(written) \in Nat /\ Len(Buffered) \in Nat /\ Len(fifo) \in Nat
         /\ Buffered \in Seq(AnyLine) /\ line[1] \in AnyLine
         /\ Read \in Nat /\ Read <= Len(written)
         /\ Read = 0 => line[1] = NoLine
         /\ Read # 0 => line[1] = written[Read]
         /\ \A i \in 1 .. Len(written) : written[i] \in AnyLine
<1>1. /\ written \in Seq(AnyLine) /\ fifo \in Seq(AnyLine) /\ Buffered \in Seq(AnyLine)
      /\ line[1] \in AnyLine
  BY FirstReader DEF DaemonTypes, ReaderTypes, Buffered
<1>2. /\ Len(written) \in Nat /\ Len(Buffered) \in Nat /\ Len(fifo) \in Nat
      /\ \A i \in 1 .. Len(written) : written[i] \in AnyLine
  BY <1>1, LenProperties, ElementOfSeq
<1>3. NoLine.n = 0
  BY QuestionsAre
<1> QED BY <1>1, <1>2, <1>3 DEF Unread, Read

\* A conversion by its place.
LEMMA ConversionIs ==
  ASSUME ReaderTypes
  PROVE  /\ Len(conversions) \in Nat
         /\ \A k \in 1 .. Len(conversions) :
              /\ conversions[k] \in Conversion
              /\ conversions[k].first \in AnyLine /\ conversions[k].first.n \in Nat
              /\ conversions[k].lines \in Seq(AnyLine)
              /\ Len(conversions[k].lines) \in Nat
              /\ conversions[k].status \in Statuses
<1>1. conversions \in Seq(Conversion)
  BY DEF ReaderTypes
<1>2. /\ Len(conversions) \in Nat
      /\ \A k \in 1 .. Len(conversions) : conversions[k] \in Conversion
  BY <1>1, LenProperties, ElementOfSeq
<1>3. ASSUME NEW c \in Conversion
      PROVE  /\ c.first \in AnyLine /\ c.first.n \in Nat /\ c.lines \in Seq(AnyLine)
             /\ Len(c.lines) \in Nat /\ c.status \in Statuses
  <2>1. c.first \in AnyLine /\ c.lines \in Seq(AnyLine) /\ c.status \in Statuses
    BY DEF Conversion
  <2>2. c.first.n \in Nat
    BY <2>1 DEF AnyLine
  <2> QED BY <2>1, <2>2, LenProperties
<1> QED BY <1>2, <1>3

\* The lines of jobs come behind the three questions.
LEMMA BehindQuestions ==
  ASSUME DaemonTypes, ReaderTypes, Stream, Unread, line[1].kind \in JobKinds
  PROVE  Read > 3 /\ Read \in 1 .. Len(written) /\ line[1] = written[Read]
<1>1. Read # 0
  BY Sizes, QuestionsAre, KindsDiffer
<1>2. Read \in 1 .. Len(written) /\ line[1] = written[Read]
  BY <1>1, Sizes
<1>3. ~ (Read <= 3)
  <2>1. SUFFICES ASSUME Read <= 3 PROVE FALSE
    OBVIOUS
  <2>2. Read \in 1 .. 3
    BY <1>2, <2>1, Sizes
  <2>3. written[Read] = Question(Read)
    BY <1>2, <2>1 DEF Stream
  <2>4. line[1].kind \in QuestionKinds
    BY <1>2, <2>2, <2>3, QuestionsAre
  <2> QED BY <2>4, KindsDiffer
<1> QED BY <1>2, <1>3, Sizes

-----------------------------------------------------------------------------
(* A write of the daemon.                                                  *)

\* A line goes behind what is written and behind what is not read.
LEMMA Appends ==
  ASSUME NEW s \in Seq(AnyLine), NEW l \in AnyLine, NEW t, t = Append(s, l)
  PROVE  /\ t \in Seq(AnyLine) /\ Len(s) \in Nat /\ Len(t) = Len(s) + 1
         /\ \A i \in 1 .. Len(s) : t[i] = s[i]
         /\ t[Len(s) + 1] = l
BY AppendProperties, LenProperties

\* What is not read grows by what is written.
LEMMA UnreadGrows ==
  ASSUME DaemonTypes, ReaderTypes, Unread, buf' = buf, line' = line, NEW l \in AnyLine,
         Len(written') = Len(written) + 1, Len(fifo') = Len(fifo) + 1,
         \A i \in 1 .. Len(written) : written'[i] = written[i],
         \A i \in 1 .. Len(fifo) : fifo'[i] = fifo[i],
         written'[Len(written) + 1] = l, fifo'[Len(fifo) + 1] = l
  PROVE  Read' = Read /\ Unread'
<1>1. Read' = Read /\ Buffered' = Buffered
  BY DEF Read, Buffered
<1>2. PICK w \in Nat, r \in Nat, b \in Nat, f \in Nat :
        w = Len(written) /\ r = Read /\ b = Len(Buffered) /\ f = Len(fifo) /\ w = r + b + f
  BY Sizes DEF Unread
<1>3. line'[1] = NoLine \/ (Read' \in 1 .. Len(written') /\ line'[1] = written'[Read'])
  <2>1. line[1] = NoLine \/ (Read \in 1 .. Len(written) /\ line[1] = written[Read])
    BY DEF Unread
  <2>2. Read \in 1 .. Len(written) => Read \in 1 .. Len(written')
    BY <1>2
  <2> QED BY <1>1, <2>1, <2>2
<1>4. ASSUME NEW i \in 1 .. Len(Buffered) PROVE Buffered'[i] = written'[Read + i]
  <2>1. Read + i \in 1 .. Len(written)
    BY <1>2
  <2> QED BY <1>1, <2>1 DEF Unread
<1>5. ASSUME NEW i \in 1 .. Len(fifo) + 1 PROVE fifo'[i] = written'[Read + Len(Buffered) + i]
  <2>1. CASE i = Len(fifo) + 1
    <3>1. r + b + (f + 1) = w + 1
      BY <1>2
    <3> QED BY <1>2, <2>1, <3>1
  <2>2. CASE i # Len(fifo) + 1
    <3>1. i \in 1 .. Len(fifo) /\ Read + Len(Buffered) + i \in 1 .. Len(written)
      BY <1>2, <2>2
    <3> QED BY <3>1 DEF Unread
  <2> QED BY <2>1, <2>2
<1>6. Len(written') = Read + Len(Buffered') + Len(fifo')
  <2>1. w + 1 = r + b + (f + 1)
    BY <1>2
  <2> QED BY <1>1, <1>2, <2>1
<1> QED BY <1>1, <1>3, <1>4, <1>5, <1>6 DEF Unread

\* Both together.
LEMMA SendAppends ==
  ASSUME DaemonTypes, ReaderTypes, Unread, NEW l \in AnyLine,
         fifo' = Append(fifo, l), written' = Append(written, l), buf' = buf, line' = line
  PROVE  /\ written' \in Seq(AnyLine) /\ fifo' \in Seq(AnyLine)
         /\ Len(written') = Len(written) + 1
         /\ \A i \in 1 .. Len(written) : written'[i] = written[i]
         /\ written'[Len(written) + 1] = l
         /\ Read' = Read /\ Unread'
<1>1. written \in Seq(AnyLine) /\ fifo \in Seq(AnyLine)
  BY DEF DaemonTypes
<1>2. /\ written' \in Seq(AnyLine) /\ Len(written') = Len(written) + 1
      /\ \A i \in 1 .. Len(written) : written'[i] = written[i]
      /\ written'[Len(written) + 1] = l
  BY <1>1, Appends
<1>3. /\ fifo' \in Seq(AnyLine) /\ Len(fifo') = Len(fifo) + 1
      /\ \A i \in 1 .. Len(fifo) : fifo'[i] = fifo[i]
      /\ fifo'[Len(fifo) + 1] = l
  BY <1>1, Appends
<1>4. Read' = Read /\ Unread'
  BY <1>2, <1>3, UnreadGrows
<1> QED BY <1>2, <1>3, <1>4

-----------------------------------------------------------------------------
(* What stays when the stream grows or is read on.                         *)

\* A line fits behind what is written.
Fits(l) ==
  /\ l.n = Len(written) + 1
  /\ Len(written) < 3 => l = Question(Len(written) + 1)
  /\ Len(written) >= 3 => l.kind \in JobKinds
  /\ (Len(written) >= 3 /\ l.kind # "##NAME:") =>
       /\ Len(written) > 3 /\ l.job = written[Len(written)].job
       /\ written[Len(written)].kind \notin {"##END##", "text##END##"}
  /\ (Len(written) > 3 /\ l.kind = "##NAME:") => written[Len(written)].kind \in FileEnds

\* The stream stays well formed.
LEMMA StreamGrows ==
  ASSUME Stream, NEW l, Fits(l), Len(written) \in Nat,
         Len(written') = Len(written) + 1,
         \A i \in 1 .. Len(written) : written'[i] = written[i],
         written'[Len(written) + 1] = l
  PROVE  Stream'
<1> DEFINE Well(s, i) ==
       /\ s[i].n = i
       /\ i <= 3 => s[i] = Question(i)
       /\ i > 3 => s[i].kind \in JobKinds
       /\ (i > 3 /\ s[i].kind # "##NAME:") =>
            /\ i > 4 /\ s[i].job = s[i - 1].job
            /\ s[i - 1].kind \notin {"##END##", "text##END##"}
       /\ (i > 4 /\ s[i].kind = "##NAME:") => s[i - 1].kind \in FileEnds
<1>1. PICK w \in Nat : w = Len(written)
  OBVIOUS
<1>2. ASSUME NEW i \in 1 .. w PROVE Well(written', i)
  <2>1. Well(written, i)
    BY <1>1 DEF Stream
  <2>2. written'[i] = written[i]
    BY <1>1
  <2>3. CASE i > 3
    <3>1. i - 1 \in 1 .. w
      BY <1>1, <2>3
    <3>2. written'[i - 1] = written[i - 1]
      BY <1>1, <3>1
    <3> QED BY <2>1, <2>2, <3>2
  <2>4. CASE ~ (i > 3)
    <3>1. ~ (i > 4)
      BY <2>4
    <3> QED BY <2>1, <2>2, <2>4, <3>1
  <2> QED BY <2>3, <2>4
<1>3. Well(written', w + 1)
  <2>1. written'[w + 1] = l /\ (w + 1) - 1 = w
    BY <1>1
  <2>2. CASE w < 3
    <3>1. w + 1 <= 3 /\ ~ (w + 1 > 3) /\ ~ (w + 1 > 4)
      BY <2>2
    <3>2. l.n = w + 1 /\ l = Question(w + 1)
      BY <1>1, <2>2 DEF Fits
    <3> QED BY <2>1, <3>1, <3>2
  <2>3. CASE w = 3
    <3>1. ~ (w + 1 <= 3) /\ w + 1 > 3 /\ ~ (w + 1 > 4) /\ w >= 3 /\ ~ (w > 3)
      BY <2>3
    <3>2. l.n = w + 1 /\ l.kind \in JobKinds /\ l.kind = "##NAME:"
      BY <1>1, <3>1 DEF Fits
    <3> QED BY <2>1, <3>1, <3>2
  <2>4. CASE w > 3
    <3>1. ~ (w + 1 <= 3) /\ w + 1 > 3 /\ w + 1 > 4 /\ w >= 3 /\ w \in 1 .. w
      BY <2>4
    <3>2. written'[w] = written[w]
      BY <1>1, <3>1
    <3>3. /\ l.n = w + 1 /\ l.kind \in JobKinds
          /\ l.kind # "##NAME:" => /\ l.job = written[w].job
                                   /\ written[w].kind \notin {"##END##", "text##END##"}
          /\ l.kind = "##NAME:" => written[w].kind \in FileEnds
      BY <1>1, <2>4, <3>1 DEF Fits
    <3> QED BY <2>1, <3>1, <3>2, <3>3
  <2>5. w < 3 \/ w = 3 \/ w > 3
    OBVIOUS
  <2> QED BY <2>2, <2>3, <2>4, <2>5
<1>4. \A i \in 1 .. Len(written') : Well(written', i)
  <2> SUFFICES ASSUME NEW i \in 1 .. w + 1 PROVE Well(written', i)
    BY <1>1
  <2>1. i \in 1 .. w \/ i = w + 1
    OBVIOUS
  <2> QED BY <1>2, <1>3, <2>1
<1> QED BY <1>4 DEF Stream

\* More may be written, and more may be read.
Grows ==
  /\ Len(written) \in Nat /\ Len(written') \in Nat /\ Len(written) <= Len(written')
  /\ \A i \in 1 .. Len(written) : written'[i] = written[i]
  /\ Read \in Nat /\ Read' \in Nat /\ Read <= Read' /\ Read <= Len(written)

LEMMA OddStays ==
  ASSUME Grows, OddBefore(Read)
  PROVE  OddBefore(Read)'
<1>1. PICK i \in 1 .. Read : written[i].kind \in OddKinds
  BY DEF OddBefore
<1>2. i \in 1 .. Len(written) /\ i \in 1 .. Read'
  BY DEF Grows
<1>3. written'[i].kind \in OddKinds
  BY <1>1, <1>2 DEF Grows
<1> QED BY <1>2, <1>3 DEF OddBefore

\* A conversion stays what it was.
LEMMA GivenStays ==
  ASSUME Grows, NEW c, c.first.n \in Nat, Len(c.lines) \in Nat, Given(c)
  PROVE  Given(c)'
<1>1. PICK f \in Nat, m \in Nat : f = c.first.n /\ m = Len(c.lines)
  OBVIOUS
<1>2. f > 3 /\ f + m <= Read
  BY <1>1 DEF Given
<1>3. f + m <= Read' /\ \A k \in 0 .. m : f + k \in 1 .. Len(written)
  BY <1>2 DEF Grows
<1>4. \A k \in 0 .. m : written'[f + k] = written[f + k]
  BY <1>3 DEF Grows
<1>5. c.first = written'[c.first.n]
  <2>1. 0 \in 0 .. m /\ f + 0 = f
    OBVIOUS
  <2>2. written'[f] = written[f]
    BY <1>4, <2>1
  <2> QED BY <1>1, <2>2 DEF Given
<1>6. \A k \in 1 .. m : c.lines[k] = written'[f + k] /\ ~ EndsJob(c.lines[k])
  <2>1. \A k \in 1 .. m : c.lines[k] = written[f + k] /\ ~ EndsJob(c.lines[k])
    BY <1>1 DEF Given, GivenTheStream
  <2>2. \A k \in 1 .. m : k \in 0 .. m
    OBVIOUS
  <2> QED BY <1>4, <2>1, <2>2
<1>7. Ended(c) => \/ NextOf(c) <= Len(written') /\ EndsJob(written'[NextOf(c)])
                  \/ EndsJob(c.first) /\ c.lines = <<>>
  <2> SUFFICES ASSUME NextOf(c) <= Len(written), EndsJob(written[NextOf(c)])
               PROVE  NextOf(c) <= Len(written') /\ EndsJob(written'[NextOf(c)])
    BY DEF Given, GivenTheStream
  <2>1. NextOf(c) = f + m + 1
    BY <1>1 DEF NextOf
  <2>2. NextOf(c) \in 1 .. Len(written) /\ NextOf(c) <= Len(written')
    BY <2>1 DEF Grows
  <2> QED BY <2>2 DEF Grows
<1>8. OfOneJob(c) \/ OddBefore(Read)'
  BY OddStays DEF Given
<1>9. GivenTheStream(c)'
  BY <1>1, <1>6, <1>7 DEF GivenTheStream
<1>10. c.first.n > 3 /\ c.first.n + Len(c.lines) <= Read'
  BY <1>1, <1>2, <1>3
<1> QED BY <1>5, <1>8, <1>9, <1>10 DEF Given

LEMMA ConvertedStays ==
  ASSUME ReaderTypes, Converted, Grows, conversions' = conversions, pipe' = pipe
  PROVE  Converted'
<1>1. ASSUME NEW k \in 1 .. Len(conversions)
      PROVE  /\ Given(conversions[k])'
             /\ conversions'[k].status = "open" => k = pipe'[1]
  <2>1. conversions[k].first.n \in Nat /\ Len(conversions[k].lines) \in Nat
    BY ConversionIs
  <2>2. Given(conversions[k]) /\ (conversions[k].status = "open" => k = pipe[1])
    BY DEF Converted
  <2>3. PICK c : c = conversions[k]
    OBVIOUS
  <2>4. Given(c)'
    BY <2>1, <2>2, <2>3, GivenStays
  <2>5. c = conversions'[k]
    BY <2>3
  <2>6. Given(conversions[k])'
    BY <2>4, <2>5 DEF Given, OfOneJob, OddBefore, GivenTheStream, NextOf, Ended
  <2> QED BY <2>2, <2>6
<1>2. \A i, k \in 1 .. Len(conversions') :
        i < k => NextOf(conversions'[i]) < conversions'[k].first.n
  BY DEF Converted, NextOf
<1> QED BY <1>1, <1>2 DEF Converted

-----------------------------------------------------------------------------
(* The steps of the daemon.                                                *)

\* What the reader is at stays, while the daemon writes.
LEMMA QuietReader ==
  ASSUME VInv, dpc \notin Gone, Grows, UNCHANGED readervars
  PROVE  ReaderTypes' /\ OneReader' /\ Copying' /\ Converted'
<1>1. /\ pc' = pc /\ buf' = buf /\ line' = line /\ eof' = eof /\ pipe' = pipe
      /\ child' = child /\ conversions' = conversions /\ flooded' = flooded
  BY DEF readervars
<1>2. ReaderTypes'
  BY <1>1 DEF VInv, ReaderTypes
<1>3. OneReader'
  BY <1>1 DEF VInv, OneReader
<1>4. Converted'
  BY <1>1, ConvertedStays DEF VInv
<1>5. ~ eof[1] /\ Read' = Read /\ (OddBefore(Read) => OddBefore(Read)')
  BY <1>1, OddStays DEF VInv, Copying, Read
<1>6. Copying'
  BY <1>1, <1>5 DEF VInv, Copying, NextOf
<1> QED BY <1>2, <1>3, <1>4, <1>6

\* A line more of the stream: what every write of the daemon has in common.
LEMMA SendKeeps ==
  ASSUME VInv, dpc \notin Gone, UNCHANGED readervars,
         NEW kind \in QuestionKinds \cup JobKinds, NEW j \in 0 .. NJobs,
         Send(kind, j), Fits(Line(kind, j, Len(written) + 1))
  PROVE  /\ written' \in Seq(AnyLine) /\ fifo' \in Seq(AnyLine)
         /\ Len(written') = Len(written) + 1
         /\ written'[Len(written')] = Line(kind, j, Len(written) + 1)
         /\ Read' = Read /\ Grows
         /\ Stream' /\ Unread'
         /\ ReaderTypes' /\ OneReader' /\ Copying' /\ Converted'
<1>1. DaemonTypes /\ ReaderTypes /\ Stream /\ Unread
  BY DEF VInv
<1>2. PICK l : l = Line(kind, j, Len(written) + 1)
  OBVIOUS
<1>3. Len(written) \in Nat /\ Read \in Nat /\ Read <= Len(written)
  BY <1>1, Sizes
<1>4. l \in AnyLine
  <2>1. kind \in QuestionKinds \cup JobKinds \cup {""}
    OBVIOUS
  <2>2. Len(written) + 1 \in Nat
    BY <1>3
  <2> QED BY <1>2, <2>1, <2>2 DEF Line, AnyLine
<1>5. fifo' = Append(fifo, l) /\ written' = Append(written, l)
  BY <1>2 DEF Send
<1>6. /\ written' \in Seq(AnyLine) /\ fifo' \in Seq(AnyLine)
      /\ Len(written') = Len(written) + 1
      /\ \A i \in 1 .. Len(written) : written'[i] = written[i]
      /\ written'[Len(written) + 1] = l
      /\ Read' = Read /\ Unread'
  <2>1. buf' = buf /\ line' = line
    BY DEF readervars
  <2> QED BY <1>1, <1>4, <1>5, <2>1, SendAppends
<1>7. Stream'
  <2>1. Fits(l)
    BY <1>2
  <2> QED BY <1>1, <1>3, <1>6, <2>1, StreamGrows
<1>8. Grows
  <2>1. Len(written') \in Nat /\ Len(written) <= Len(written')
    BY <1>3, <1>6
  <2> QED BY <1>3, <1>6, <2>1 DEF Grows
<1>9. ReaderTypes' /\ OneReader' /\ Copying' /\ Converted'
  BY <1>8, QuietReader
<1> QED BY <1>2, <1>6, <1>7, <1>8, <1>9

\* What is written stays: the parts about the stream and the reader.
LEMMA WritesNothing ==
  ASSUME VInv, dpc \notin Gone, UNCHANGED <<readervars, written, fifo>>
  PROVE  /\ Stream' /\ Unread' /\ Read' = Read
         /\ ReaderTypes' /\ OneReader' /\ Copying' /\ Converted'
<1>1. Read' = Read /\ Buffered' = Buffered /\ line' = line
  BY DEF readervars, Read, Buffered
<1>2. Grows
  <2>1. Len(written) \in Nat /\ Read \in Nat /\ Read <= Len(written)
    BY Sizes DEF VInv
  <2> QED BY <1>1, <2>1 DEF Grows
<1>3. Stream'
  BY DEF VInv, Stream
<1>4. Unread'
  BY <1>1 DEF VInv, Unread
<1> QED BY <1>1, <1>2, <1>3, <1>4, QuietReader

\* Which question the daemon is at.
LEMMA AskingIs ==
  ASSUME DaemonTypes
  PROVE  /\ asking \in Nat /\ asking \in 1 .. 3 /\ Questions[asking] \in QuestionKinds
         /\ Question(asking) = Line(Questions[asking], 0, asking)
<1>1. asking \in 1 .. 3
  BY DEF DaemonTypes
<1>2. asking = 1 \/ asking = 2 \/ asking = 3
  BY <1>1
<1>3. Questions[asking] \in QuestionKinds
  BY <1>2 DEF Questions, QuestionKinds
<1> QED BY <1>1, <1>2, <1>3 DEF Question

LEMMA AskKeeps ==
  ASSUME VInv, Ask
  PROVE  VInv'
<1>1. /\ dpc = "ask" /\ dpc' = "answer" /\ Send(Questions[asking], 0)
      /\ asking' = asking /\ job' = job /\ place' = place /\ answers' = answers
      /\ UNCHANGED readervars
  BY DEF Ask
<1>2. /\ Len(written) = asking - 1 /\ Len(written) \in Nat /\ asking \in Nat
      /\ asking <= 3 /\ answers = <<>> /\ pc[1] = "top" /\ Read = Len(written)
  <2>1. /\ Len(written) = asking - 1 /\ answers = <<>> /\ pc[1] = "top"
        /\ Read = Len(written)
    BY <1>1 DEF VInv, DaemonPlace, Exchange
  <2>2. Len(written) \in Nat
    BY Sizes DEF VInv
  <2> QED BY <2>1, <2>2, AskingIs DEF VInv
<1>3. Fits(Line(Questions[asking], 0, Len(written) + 1))
  <2>1. Len(written) + 1 = asking /\ Len(written) < 3
    BY <1>2
  <2>2. Line(Questions[asking], 0, Len(written) + 1).n = Len(written) + 1
    BY DEF Line
  <2>3. Line(Questions[asking], 0, Len(written) + 1) = Question(Len(written) + 1)
    BY <2>1 DEF Question
  <2>4. ~ (Len(written) >= 3) /\ ~ (Len(written) > 3)
    BY <1>2, <2>1
  <2> QED BY <2>1, <2>2, <2>3, <2>4 DEF Fits
<1>4. Questions[asking] \in QuestionKinds \cup JobKinds /\ 0 \in 0 .. NJobs /\ dpc \notin Gone
  <2>1. Questions[asking] \in QuestionKinds \cup JobKinds
    BY AskingIs DEF VInv
  <2>2. 0 \in 0 .. NJobs
    BY BoundsAssumption
  <2>3. dpc \notin Gone
    BY <1>1 DEF Gone
  <2> QED BY <2>1, <2>2, <2>3
<1>5. /\ written' \in Seq(AnyLine) /\ fifo' \in Seq(AnyLine)
      /\ Len(written') = Len(written) + 1
      /\ Read' = Read /\ Stream' /\ Unread'
      /\ ReaderTypes' /\ OneReader' /\ Copying' /\ Converted'
  BY <1>1, <1>3, <1>4, SendKeeps
<1>6. DaemonTypes'
  BY <1>1, <1>2, <1>5 DEF VInv, DaemonTypes
<1>7. Len(written') = asking'
  BY <1>1, <1>2, <1>5
<1>8. DaemonPlace'
  BY <1>1, <1>7 DEF DaemonPlace
<1>9. Exchange'
  <2>1. pc' = pc /\ Read' = asking' - 1
    BY <1>1, <1>2, <1>5 DEF readervars
  <2> QED BY <1>1, <1>2, <2>1 DEF Exchange
<1> QED BY <1>5, <1>6, <1>8, <1>9 DEF VInv

LEMMA TakeAnswerKeeps ==
  ASSUME VInv, TakeAnswer
  PROVE  VInv'
<1>1. /\ dpc = "answer" /\ answers # <<>> /\ answers' = Tail(answers)
      /\ job' = job /\ place' = place /\ UNCHANGED <<readervars, written, fifo>>
      /\ IF asking = 3 THEN dpc' = "idle" /\ asking' = asking
                       ELSE dpc' = "ask" /\ asking' = asking + 1
  BY QuestionsAre DEF TakeAnswer
<1>2. /\ Len(written) = asking /\ Read = asking /\ pc[1] = "top" /\ pc' = pc
      /\ asking \in 1 .. 3 /\ answers = <<Question(asking)>>
  BY <1>1 DEF VInv, DaemonPlace, Exchange, DaemonTypes, readervars
<1>3. answers' = <<>>
  BY <1>1, <1>2
<1>4. /\ Stream' /\ Unread' /\ Read' = Read
      /\ ReaderTypes' /\ OneReader' /\ Copying' /\ Converted'
  <2>1. dpc \notin Gone
    BY <1>1 DEF Gone
  <2> QED BY <1>1, <2>1, WritesNothing
<1>5. CASE asking = 3
  <2>1. dpc' = "idle" /\ asking' = 3 /\ Len(written') = 3 /\ Read' = 3
    BY <1>1, <1>2, <1>4, <1>5
  <2>2. DaemonTypes'
    BY <1>1, <1>3, <2>1 DEF VInv, DaemonTypes
  <2>3. DaemonPlace'
    BY <2>1 DEF DaemonPlace
  <2>4. Exchange'
    BY <1>2, <1>3, <2>1 DEF Exchange
  <2> QED BY <1>4, <2>2, <2>3, <2>4 DEF VInv
<1>6. CASE asking # 3
  <2>1. /\ dpc' = "ask" /\ asking' \in 1 .. 3 /\ Len(written') = asking' - 1
        /\ Read' = Len(written')
    BY <1>1, <1>2, <1>4, <1>6
  <2>2. DaemonTypes'
    BY <1>1, <1>3, <2>1 DEF VInv, DaemonTypes
  <2>3. DaemonPlace'
    BY <2>1 DEF DaemonPlace
  <2>4. Exchange'
    BY <1>2, <1>3, <2>1 DEF Exchange
  <2> QED BY <1>4, <2>2, <2>3, <2>4 DEF VInv
<1> QED BY <1>5, <1>6

\* Between jobs, and within one.
LEMMA IdleIs ==
  ASSUME VInv, dpc \in {"idle", "write"}
  PROVE  /\ Len(written) \in Nat /\ Len(written) >= 3 /\ dpc \notin Gone
         /\ answers = <<>> /\ Read >= 3 /\ (pc[1] = "dispatch" => Read > 3)
         /\ dpc = "idle" /\ Len(written) > 3 => written[Len(written)].kind \in FileEnds
         /\ dpc = "write" => /\ Len(written) > 3 /\ written[Len(written)].job = job
                             /\ written[Len(written)].kind \notin {"##END##", "text##END##"}
<1>1. Len(written) \in Nat
  BY Sizes DEF VInv
<1>2. dpc = "write" => Len(written) > 3
  BY DEF VInv, DaemonPlace
<1>3. dpc = "idle" => Len(written) >= 3
  BY DEF VInv, DaemonPlace
<1>4. Len(written) >= 3
  BY <1>1, <1>2, <1>3
<1>5. dpc \notin Gone
  BY DEF Gone
<1>6. answers = <<>> /\ Read >= 3 /\ (pc[1] = "dispatch" => Read > 3)
  BY DEF VInv, Exchange
<1>7. /\ dpc = "idle" /\ Len(written) > 3 => written[Len(written)].kind \in FileEnds
      /\ dpc = "write" => /\ written[Len(written)].job = job
                          /\ written[Len(written)].kind \notin {"##END##", "text##END##"}
  BY DEF VInv, DaemonPlace
<1> QED BY <1>1, <1>2, <1>4, <1>5, <1>6, <1>7

\* A line of a job is written: the daemon is then in the job or behind it.
LEMMA JobLineKeeps ==
  ASSUME VInv, dpc \in {"idle", "write"}, UNCHANGED <<readervars, asking, answers>>,
         job' \in 0 .. NJobs, place' \in Nat,
         NEW kind \in JobKinds, Send(kind, job'), Fits(Line(kind, job', Len(written) + 1)),
         \/ dpc' = "write" /\ kind \notin {"##END##", "text##END##"}
         \/ dpc' = "idle" /\ kind \in FileEnds
  PROVE  VInv'
<1>1. /\ Len(written) \in Nat /\ Len(written) >= 3 /\ dpc \notin Gone
      /\ answers = <<>> /\ Read >= 3 /\ (pc[1] = "dispatch" => Read > 3)
  BY IdleIs
<1>2. /\ written' \in Seq(AnyLine) /\ fifo' \in Seq(AnyLine)
      /\ Len(written') = Len(written) + 1
      /\ written'[Len(written')] = Line(kind, job', Len(written) + 1)
      /\ Read' = Read /\ Stream' /\ Unread'
      /\ ReaderTypes' /\ OneReader' /\ Copying' /\ Converted'
  <2>1. kind \in QuestionKinds \cup JobKinds
    OBVIOUS
  <2> QED BY <1>1, <2>1, SendKeeps
<1>3. Len(written') > 3 /\ Len(written') >= 3
  BY <1>1, <1>2
<1>4. written'[Len(written')].kind = kind /\ written'[Len(written')].job = job'
  BY <1>2 DEF Line
<1>5. DaemonTypes'
  BY <1>1, <1>2 DEF VInv, DaemonTypes
<1>6. DaemonPlace'
  BY <1>3, <1>4 DEF DaemonPlace
<1>7. Exchange'
  <2>1. pc' = pc /\ answers' = <<>>
    BY <1>1 DEF readervars
  <2> QED BY <1>1, <1>2, <2>1 DEF Exchange
<1> QED BY <1>2, <1>5, <1>6, <1>7 DEF VInv

\* The daemon writes nothing and stays, or is gone.
LEMMA SilentKeeps ==
  ASSUME VInv, UNCHANGED <<readervars, written, fifo, asking, answers>>,
         job' \in 0 .. NJobs, place' \in Nat,
         \/ dpc = "idle" /\ dpc' = "idle"
         \/ dpc \in {"ask", "answer", "idle"} /\ dpc' = "gone"
         \/ dpc = "write" /\ dpc' = "cut off"
  PROVE  VInv'
<1>1. /\ Stream' /\ Unread' /\ Read' = Read
      /\ ReaderTypes' /\ OneReader' /\ Copying' /\ Converted'
  <2>1. dpc \notin Gone
    BY DEF Gone
  <2> QED BY <2>1, WritesNothing
<1>2. dpc' \in {"idle", "gone", "cut off"}
  OBVIOUS
<1>3. DaemonTypes'
  BY <1>2 DEF VInv, DaemonTypes, Gone
<1>4. DaemonPlace'
  <2>1. Len(written) \in Nat /\ asking \in 1 .. 3
    BY Sizes DEF VInv, DaemonTypes
  <2>2. dpc' = "gone" /\ Len(written) > 3 => written[Len(written)].kind \in FileEnds
    <3>1. dpc = "ask" => ~ (Len(written) > 3)
      BY <2>1 DEF VInv, DaemonPlace
    <3>2. dpc = "answer" => ~ (Len(written) > 3)
      BY <2>1 DEF VInv, DaemonPlace
    <3> QED BY <3>1, <3>2 DEF VInv, DaemonPlace
  <2> QED BY <2>2 DEF VInv, DaemonPlace
<1>5. Exchange'
  <2>1. pc' = pc
    BY DEF readervars
  <2> QED BY <1>1, <1>2, <2>1 DEF VInv, Exchange
<1> QED BY <1>1, <1>3, <1>4, <1>5 DEF VInv

LEMMA StartJobKeeps ==
  ASSUME VInv, StartJob
  PROVE  VInv'
<1>1. /\ dpc = "idle" /\ job < NJobs /\ job' = job + 1 /\ place' = 0
      /\ asking' = asking /\ answers' = answers /\ UNCHANGED readervars
      /\ \/ dpc' = "write" /\ Send("##NAME:", job + 1)
         \/ dpc' = "idle" /\ UNCHANGED <<written, fifo>>
  BY DEF StartJob
<1>2. job' \in 0 .. NJobs /\ place' \in Nat
  <2>1. job \in 0 .. NJobs /\ NJobs \in Nat
    BY BoundsAssumption DEF VInv, DaemonTypes
  <2> QED BY <1>1, <2>1
<1>3. CASE dpc' = "write" /\ Send("##NAME:", job + 1)
  <2>1. Fits(Line("##NAME:", job', Len(written) + 1))
    <3>1. /\ Len(written) >= 3 /\ ~ (Len(written) < 3)
          /\ Len(written) > 3 => written[Len(written)].kind \in FileEnds
      BY <1>1, IdleIs
    <3>2. /\ Line("##NAME:", job', Len(written) + 1).kind = "##NAME:"
          /\ Line("##NAME:", job', Len(written) + 1).n = Len(written) + 1
      BY DEF Line
    <3> QED BY <3>1, <3>2, KindsDiffer DEF Fits
  <2>2. "##NAME:" \in JobKinds /\ "##NAME:" \notin {"##END##", "text##END##"}
    BY KindsDiffer
  <2>3. Send("##NAME:", job')
    BY <1>1, <1>3
  <2>4. dpc \in {"idle", "write"} /\ dpc' = "write"
    BY <1>1, <1>3
  <2> QED BY <1>1, <1>2, <2>1, <2>2, <2>3, <2>4, JobLineKeeps
<1>4. CASE dpc' = "idle" /\ UNCHANGED <<written, fifo>>
  BY <1>1, <1>2, <1>4, SilentKeeps
<1> QED BY <1>1, <1>3, <1>4

\* A line of a file, or ##END## behind it, fits where the daemon is in a job.
LEMMA FileLineFits ==
  ASSUME VInv, dpc = "write", NEW kind \in FileKinds \cup {"##END##"}
  PROVE  Fits(Line(kind, job, Len(written) + 1)) /\ kind \in JobKinds
<1>1. /\ Len(written) > 3 /\ Len(written) \in Nat
      /\ written[Len(written)].job = job
      /\ written[Len(written)].kind \notin {"##END##", "text##END##"}
  BY IdleIs
<1>2. kind \in JobKinds /\ kind # "##NAME:"
  BY KindsDiffer DEF FileKinds
<1>3. /\ Line(kind, job, Len(written) + 1).kind = kind
      /\ Line(kind, job, Len(written) + 1).job = job
      /\ Line(kind, job, Len(written) + 1).n = Len(written) + 1
  BY DEF Line
<1>4. ~ (Len(written) < 3)
  BY <1>1
<1> QED BY <1>1, <1>2, <1>3, <1>4 DEF Fits

LEMMA PrintingKeeps ==
  ASSUME VInv, Printing
  PROVE  VInv'
<1>1. dpc = "write" /\ dpc \in {"idle", "write"}
  BY DEF Printing, WriteLine, WriteUnended, WriteEnd
<1>2. place \in Nat /\ job \in 0 .. NJobs
  BY DEF VInv, DaemonTypes
<1>3. CASE WriteLine
  <2>1. PICK kind \in FileLines \ {"text##END##"} : Send(kind, job)
    BY <1>3 DEF WriteLine
  <2>2. kind \in FileKinds /\ kind \notin {"##END##", "text##END##"}
    BY <2>1, BoundsAssumption DEF FileKinds
  <2>3. Fits(Line(kind, job, Len(written) + 1)) /\ kind \in JobKinds
    BY <1>1, <2>2, FileLineFits
  <2>4. /\ dpc' = "write" /\ place' = place + 1 /\ job' = job
        /\ UNCHANGED <<readervars, asking, answers>>
    BY <1>1, <1>3 DEF WriteLine
  <2>5. Send(kind, job') /\ Fits(Line(kind, job', Len(written) + 1))
    BY <2>1, <2>3, <2>4
  <2>6. job' \in 0 .. NJobs /\ place' \in Nat
    BY <1>2, <2>4
  <2> QED BY <1>1, <2>2, <2>3, <2>4, <2>5, <2>6, JobLineKeeps
<1>4. CASE WriteUnended
  <2>1. PICK kind \in FileLines \ {"text"} : Send(kind, job)
    BY <1>4 DEF WriteUnended
  <2>2. kind \in FileKinds /\ kind \in FileEnds
    BY <2>1, BoundsAssumption, KindsDiffer DEF FileKinds
  <2>3. Fits(Line(kind, job, Len(written) + 1)) /\ kind \in JobKinds
    BY <1>1, <2>2, FileLineFits
  <2>4. /\ dpc' = "idle" /\ place' = place + 1 /\ job' = job
        /\ UNCHANGED <<readervars, asking, answers>>
    BY <1>4 DEF WriteUnended
  <2>5. Send(kind, job') /\ Fits(Line(kind, job', Len(written) + 1))
    BY <2>1, <2>3, <2>4
  <2>6. job' \in 0 .. NJobs /\ place' \in Nat
    BY <1>2, <2>4
  <2> QED BY <1>1, <2>2, <2>3, <2>4, <2>5, <2>6, JobLineKeeps
<1>5. CASE WriteEnd
  <2>1. Fits(Line("##END##", job, Len(written) + 1)) /\ "##END##" \in JobKinds
    BY <1>1, FileLineFits
  <2>2. /\ dpc' = "idle" /\ place' = place /\ job' = job
        /\ UNCHANGED <<readervars, asking, answers>> /\ Send("##END##", job)
    BY <1>5 DEF WriteEnd
  <2>3. Send("##END##", job') /\ Fits(Line("##END##", job', Len(written) + 1))
    BY <2>1, <2>2
  <2>4. job' \in 0 .. NJobs /\ place' \in Nat /\ "##END##" \in FileEnds
    BY <1>2, <2>2, KindsDiffer
  <2> QED BY <1>1, <2>1, <2>2, <2>3, <2>4, JobLineKeeps
<1> QED BY <1>3, <1>4, <1>5 DEF Printing

\* The daemon ends, of itself or by SIGPIPE.
LEMMA EndingKeeps ==
  ASSUME VInv, Die \/ WriteToNobody
  PROVE  VInv'
<1>1. /\ UNCHANGED <<readervars, written, fifo, asking, answers, job, place>>
      /\ dpc \in {"ask", "answer", "idle", "write"}
      /\ dpc' = IF dpc = "write" THEN "cut off" ELSE "gone"
  BY DEF Die, WriteToNobody
<1>2. job' \in 0 .. NJobs /\ place' \in Nat
  BY <1>1 DEF VInv, DaemonTypes
<1>3. \/ dpc \in {"ask", "answer", "idle"} /\ dpc' = "gone"
      \/ dpc = "write" /\ dpc' = "cut off"
  BY <1>1
<1> QED BY <1>1, <1>2, <1>3, SilentKeeps

\* Both ends of a fifo are opened.
LEMMA OpeningKeeps ==
  ASSUME VInv, OpenR \/ OpenW
  PROVE  VInv'
<1>1. PICK next \in {"open_w", "top"} :
        /\ pc[1] \in {"open_r", "open_w"} /\ pc' = [pc EXCEPT ![1] = next]
        /\ dpc' = IF next = "open_w" THEN "open_w" ELSE "ask"
        /\ dpc \in {"open_r", "open_w"}
        /\ UNCHANGED <<asking, job, place, written, fifo, answers, buf, line, eof, pipe,
                       child, conversions, flooded>>
  BY DEF OpenR, OpenW
<1>2. pc \in [Readers -> {"unborn", "open_r", "open_w", "top", "dispatch", "first",
                          "more", "copy", "wait"} \cup Over] /\ 1 \in Readers
  BY FirstReader DEF VInv, ReaderTypes
<1>3. pc'[1] = next /\ \A p \in Readers : p # 1 => pc'[p] = pc[p]
  BY <1>1, <1>2
<1>4. /\ asking = 1 /\ Len(written) = 0 /\ Read = 0 /\ Read' = Read /\ answers = <<>>
      /\ Len(written) \in Nat
  <2>1. asking = 1 /\ Len(written) = asking - 1 /\ answers = <<>>
    BY <1>1 DEF VInv, DaemonPlace, Exchange
  <2>2. Len(written) \in Nat /\ Read \in Nat /\ Read <= Len(written)
    BY Sizes DEF VInv
  <2>3. Read' = Read
    BY <1>1 DEF Read
  <2> QED BY <2>1, <2>2, <2>3
<1>5. DaemonTypes'
  BY <1>1 DEF VInv, DaemonTypes
<1>6. ReaderTypes'
  BY <1>1, <1>2 DEF VInv, ReaderTypes
<1>7. OneReader'
  BY <1>1, <1>3 DEF VInv, OneReader
<1>8. Stream'
  BY <1>1 DEF VInv, Stream
<1>9. DaemonPlace'
  BY <1>1, <1>4 DEF DaemonPlace
<1>10. Unread'
  <2>1. Read' = Read /\ Buffered' = Buffered /\ line' = line
    BY <1>1 DEF Read, Buffered
  <2> QED BY <1>1, <2>1 DEF VInv, Unread
<1>11. Exchange'
  BY <1>1, <1>3, <1>4 DEF Exchange
<1>12. Grows
  BY <1>1, <1>4 DEF Grows
<1>13. Converted'
  BY <1>1, <1>12, ConvertedStays DEF VInv
<1>14. Copying'
  <2>1. ~ eof[1] /\ pipe[1] = 0 /\ ~ flooded[1]
    BY <1>1 DEF VInv, Copying
  <2>2. \A k \in 1 .. Len(conversions) : NextOf(conversions[k]) <= Read
    BY <1>1, <2>1 DEF VInv, Copying
  <2>3. \A k \in 1 .. Len(conversions') : NextOf(conversions'[k]) <= Read'
    BY <1>1, <1>4, <2>2 DEF NextOf
  <2>4. Read' <= 3
    BY <1>4
  <2> QED BY <1>1, <1>3, <2>1, <2>3, <2>4 DEF Copying
<1> QED BY <1>5, <1>6, <1>7, <1>8, <1>9, <1>10, <1>11, <1>13, <1>14 DEF VInv

-----------------------------------------------------------------------------
(* The steps of the printer.                                               *)

\* Nobody but the printer reads, and ps2pdf can only end its own conversion.
LEMMA OnlyReader ==
  ASSUME VInv, NEW p \in Readers, Reader(p) \/ Quit(p)
  PROVE  p = 1
<1> SUFFICES ASSUME p # 1 PROVE FALSE
  OBVIOUS
<1>1. pc[p] = "unborn" /\ pipe[p] = 0
  BY DEF VInv, OneReader
<1>2. ~ Quit(p)
  BY <1>1 DEF Quit
<1>3. ~ Reader(p)
  BY <1>1 DEF Reader, Fill, ReadCommand, Finish, Answer, PassOver, Fork, ReadText, Copy,
              ClosePipe, Wait
<1> QED BY <1>2, <1>3

\* A step from one place to another, by the printer.
LEMMA StepTo ==
  ASSUME VInv, NEW next \in {"top", "dispatch", "first", "more", "copy", "wait"} \cup Over,
         Step(1, next)
  PROVE  /\ pc'[1] = next
         /\ pc' \in [Readers -> {"unborn", "open_r", "open_w", "top", "dispatch", "first",
                                 "more", "copy", "wait"} \cup Over]
         /\ \A p \in Readers : p # 1 => pc'[p] = pc[p]
BY FirstReader DEF VInv, ReaderTypes, Step

\* What the daemon wrote is not changed by reading it.
LEMMA WrittenStays ==
  ASSUME VInv, UNCHANGED daemonvars
  PROVE  /\ Stream' /\ DaemonPlace' /\ dpc' = dpc /\ asking' = asking /\ written' = written
         /\ (fifo' \in Seq(AnyLine) /\ answers' \in {<<>>, <<Question(asking)>>}) => DaemonTypes'
<1>1. dpc' = dpc /\ asking' = asking /\ job' = job /\ place' = place /\ written' = written
  BY DEF daemonvars
<1>2. Stream' /\ DaemonPlace'
  BY <1>1 DEF VInv, Stream, DaemonPlace
<1>3. (fifo' \in Seq(AnyLine) /\ answers' \in {<<>>, <<Question(asking)>>}) => DaemonTypes'
  BY <1>1 DEF VInv, DaemonTypes
<1> QED BY <1>1, <1>2, <1>3

\* Nor are the lines not read yet by what is done with the one read.
LEMMA ReadsNothing ==
  ASSUME VInv, UNCHANGED <<daemonvars, fifo, buf, line>>
  PROVE  /\ Unread' /\ Read' = Read /\ Grows /\ fifo' \in Seq(AnyLine)
         /\ Read \in Nat /\ Len(written) \in Nat
<1>1. Read' = Read /\ Buffered' = Buffered /\ written' = written
  BY DEF Read, Buffered, daemonvars
<1>2. Unread'
  BY <1>1 DEF VInv, Unread
<1>3. Len(written) \in Nat /\ Read \in Nat /\ Read <= Len(written)
  BY Sizes DEF VInv
<1>4. Grows
  BY <1>1, <1>3 DEF Grows
<1>5. fifo \in Seq(AnyLine)
  BY DEF VInv, DaemonTypes
<1> QED BY <1>1, <1>2, <1>3, <1>4, <1>5

LEMMA FillKeeps ==
  ASSUME VInv, Fill(1)
  PROVE  VInv'
<1>1. PICK k \in 1 .. Len(fifo) :
        /\ buf' = [buf EXCEPT ![1] = SubSeq(fifo, 1, k)]
        /\ fifo' = SubSeq(fifo, k + 1, Len(fifo))
  BY DEF Fill
<1>2. /\ buf[1] = <<>> /\ UNCHANGED daemonvars
      /\ UNCHANGED <<answers, pc, line, eof, pipe, child, conversions, flooded>>
  BY DEF Fill
<1>3. /\ buf \in [Readers -> Seq(AnyLine)] /\ fifo \in Seq(AnyLine) /\ 1 \in Readers
      /\ answers \in {<<>>, <<Question(asking)>>}
  BY FirstReader DEF VInv, DaemonTypes, ReaderTypes
<1>4. PICK f \in Nat : f = Len(fifo)
  BY <1>3, LenProperties
<1>5. /\ SubSeq(fifo, 1, k) \in Seq(AnyLine) /\ Len(SubSeq(fifo, 1, k)) = k
      /\ \A i \in 1 .. k : SubSeq(fifo, 1, k)[i] = fifo[i]
  <2>1. \A i \in 1 .. k : fifo[i] \in AnyLine
    BY <1>3, <1>4, ElementOfSeq
  <2>2. k \in Int /\ 1 \in Int /\ 1 <= k + 1
    BY <1>4
  <2>3. /\ SubSeq(fifo, 1, k) \in Seq(AnyLine)
        /\ Len(SubSeq(fifo, 1, k)) = k - 1 + 1
        /\ \A i \in 1 .. k - 1 + 1 : SubSeq(fifo, 1, k)[i] = fifo[1 + i - 1]
    BY <1>3, <2>1, <2>2, SubSeqProperties
  <2>4. k - 1 + 1 = k /\ \A i \in 1 .. k : 1 + i - 1 = i
    BY <1>4
  <2> QED BY <2>3, <2>4
<1>6. /\ fifo' \in Seq(AnyLine) /\ Len(fifo') = f - k
      /\ \A i \in 1 .. f - k : fifo'[i] = fifo[k + i]
  <2>1. \A i \in k + 1 .. f : fifo[i] \in AnyLine
    BY <1>3, <1>4, ElementOfSeq
  <2>2. k + 1 \in Int /\ f \in Int /\ k + 1 <= f + 1
    BY <1>4
  <2>3. /\ fifo' \in Seq(AnyLine)
        /\ Len(fifo') = f - (k + 1) + 1
        /\ \A i \in 1 .. f - (k + 1) + 1 : fifo'[i] = fifo[(k + 1) + i - 1]
    BY <1>1, <1>3, <1>4, <2>1, <2>2, SubSeqProperties
  <2>4. f - (k + 1) + 1 = f - k /\ \A i \in 1 .. f - k : (k + 1) + i - 1 = k + i
    BY <1>4
  <2> QED BY <2>3, <2>4
<1>7. /\ buf' \in [Readers -> Seq(AnyLine)] /\ Buffered' = SubSeq(fifo, 1, k)
      /\ Buffered = <<>>
  BY <1>1, <1>2, <1>3, <1>5 DEF Buffered
<1>8. Read' = Read /\ Read \in Nat /\ Len(written) = Read + f /\ Len(written) \in Nat
      /\ Len(Buffered) = 0
  <2>1. Len(written) = Read + Len(Buffered) + Len(fifo)
    BY DEF VInv, Unread
  <2>2. Len(Buffered) = 0 /\ Read' = Read
    BY <1>2, <1>7 DEF Read
  <2>3. Read \in Nat /\ Len(written) \in Nat
    BY Sizes DEF VInv
  <2> QED BY <1>4, <2>1, <2>2, <2>3
<1>9. /\ Stream' /\ DaemonPlace' /\ dpc' = dpc /\ asking' = asking /\ written' = written
      /\ DaemonTypes'
  BY <1>2, <1>3, <1>6, WrittenStays
<1>10. \A i \in 1 .. f : fifo[i] = written[Read + i]
  <2>1. \A i \in 1 .. f : fifo[i] = written[Read + Len(Buffered) + i]
    BY <1>4 DEF VInv, Unread
  <2> QED BY <1>8, <2>1
<1>11. Unread'
  <2>1. line'[1] = NoLine \/ (Read' \in 1 .. Len(written') /\ line'[1] = written'[Read'])
    BY <1>2, <1>8, <1>9 DEF VInv, Unread
  <2>2. Len(Buffered') = k /\ Len(fifo') = f - k
    BY <1>5, <1>6, <1>7
  <2>3. Len(written') = Read' + Len(Buffered') + Len(fifo')
    <3>1. Read + f = Read + k + (f - k)
      BY <1>4, <1>8
    <3> QED BY <1>8, <1>9, <2>2, <3>1
  <2>4. \A i \in 1 .. Len(Buffered') : Buffered'[i] = written'[Read' + i]
    <3> SUFFICES ASSUME NEW i \in 1 .. k PROVE Buffered'[i] = written'[Read' + i]
      BY <2>2
    <3>1. i \in 1 .. f
      BY <1>4
    <3> QED BY <1>5, <1>7, <1>8, <1>9, <1>10, <3>1
  <2>5. \A i \in 1 .. Len(fifo') : fifo'[i] = written'[Read' + Len(Buffered') + i]
    <3> SUFFICES ASSUME NEW i \in 1 .. f - k
                 PROVE  fifo'[i] = written'[Read' + Len(Buffered') + i]
      BY <2>2
    <3>1. k + i \in 1 .. f /\ Read + (k + i) = Read + k + i
      BY <1>4, <1>8
    <3> QED BY <1>6, <1>8, <1>9, <1>10, <2>2, <3>1
  <2> QED BY <2>1, <2>3, <2>4, <2>5 DEF Unread
<1>12. ReaderTypes'
  BY <1>2, <1>7 DEF VInv, ReaderTypes
<1>13. OneReader'
  BY <1>2 DEF VInv, OneReader
<1>14. Exchange'
  BY <1>2, <1>8, <1>9 DEF VInv, Exchange
<1>15. Grows
  <2>1. Read <= Len(written)
    BY <1>4, <1>8
  <2> QED BY <1>8, <1>9, <2>1 DEF Grows
<1>16. Converted'
  BY <1>2, <1>15, ConvertedStays DEF VInv
<1>17. Copying'
  <2>1. OddBefore(Read)' <=> OddBefore(Read)
    BY <1>8, <1>9 DEF OddBefore
  <2> QED BY <1>2, <1>8, <1>9, <2>1 DEF VInv, Copying, NextOf
<1> QED BY <1>9, <1>11, <1>12, <1>13, <1>14, <1>16, <1>17 DEF VInv

\* fgets takes the next line of the stream, or the stream is at its end.
LEMMA GetsReads ==
  ASSUME VInv, Gets(1), fifo' = fifo, UNCHANGED daemonvars
  PROVE  /\ buf' \in [Readers -> Seq(AnyLine)] /\ line' \in [Readers -> AnyLine]
         /\ eof' \in [Readers -> BOOLEAN]
         /\ Unread' /\ Grows /\ Read \in Nat /\ Len(written) \in Nat
         /\ \/ /\ Read' = Read + 1 /\ Read + 1 <= Len(written)
               /\ line'[1] = written[Read + 1] /\ eof' = eof
            \/ /\ Read' = Read /\ Read = Len(written) /\ line' = line
               /\ dpc \in Gone /\ eof'[1]
<1>1. /\ buf \in [Readers -> Seq(AnyLine)] /\ line \in [Readers -> AnyLine]
      /\ eof \in [Readers -> BOOLEAN] /\ 1 \in Readers
  BY FirstReader DEF VInv, ReaderTypes
<1>2. PICK w \in Nat, r \in Nat, b \in Nat, f \in Nat :
        w = Len(written) /\ r = Read /\ b = Len(Buffered) /\ f = Len(fifo) /\ w = r + b + f
  BY Sizes DEF VInv, Unread
<1>3. written' = written /\ Buffered \in Seq(AnyLine)
  BY Sizes DEF VInv, daemonvars
<1>4. /\ line[1] = NoLine \/ (r \in 1 .. w /\ line[1] = written[r])
      /\ \A i \in 1 .. b : Buffered[i] = written[r + i]
      /\ \A i \in 1 .. f : fifo[i] = written[r + b + i]
  BY <1>2 DEF VInv, Unread
<1>5. CASE buf[1] # <<>>
  <2>1. /\ line' = [line EXCEPT ![1] = Head(Buffered)] /\ eof' = eof
        /\ buf' = [buf EXCEPT ![1] = Tail(Buffered)]
    BY <1>5 DEF Gets, AtEnd, Buffered
  <2>2. Buffered # <<>> /\ b # 0
    BY <1>2, <1>3, <1>5, EmptySeq DEF Buffered
  <2>3. /\ Tail(Buffered) \in Seq(AnyLine) /\ Len(Tail(Buffered)) = b - 1
        /\ \A i \in 1 .. b - 1 : Tail(Buffered)[i] = Buffered[i + 1]
        /\ Head(Buffered) = Buffered[1] /\ Head(Buffered) \in AnyLine
    <3>1. 1 \in 1 .. b
      BY <1>2, <2>2
    <3>2. Buffered[1] \in AnyLine
      BY <1>2, <1>3, <3>1, ElementOfSeq
    <3> QED BY <1>2, <1>3, <2>2, <3>2, HeadTailProperties
  <2>4. /\ buf' \in [Readers -> Seq(AnyLine)] /\ Buffered' = Tail(Buffered)
        /\ line' \in [Readers -> AnyLine] /\ line'[1] = Buffered[1]
    BY <1>1, <2>1, <2>3 DEF Buffered
  <2>5. r + 1 \in 1 .. w /\ line'[1] = written[r + 1]
    <3>1. 1 \in 1 .. b /\ r + 1 \in 1 .. w
      BY <1>2, <2>2
    <3> QED BY <1>4, <2>4, <3>1
  <2>6. Read' = r + 1
    <3>1. written[r + 1].n = r + 1
      BY <1>2, <2>5 DEF VInv, Stream
    <3> QED BY <2>5, <3>1 DEF Read
  <2>7. Unread'
    <3>1. Len(Buffered') = b - 1 /\ Len(fifo') = f /\ Len(written') = w
      BY <1>2, <1>3, <2>3, <2>4
    <3>2. w = (r + 1) + (b - 1) + f
      BY <1>2
    <3>3. ASSUME NEW i \in 1 .. b - 1 PROVE Buffered'[i] = written[(r + 1) + i]
      <4>1. i + 1 \in 1 .. b /\ r + (i + 1) = (r + 1) + i
        BY <1>2
      <4> QED BY <1>4, <2>3, <2>4, <4>1
    <3>4. ASSUME NEW i \in 1 .. f PROVE fifo'[i] = written[(r + 1) + (b - 1) + i]
      <4>1. (r + 1) + (b - 1) + i = r + b + i
        BY <1>2
      <4> QED BY <1>4, <4>1
    <3>5. Read' \in 1 .. Len(written') /\ line'[1] = written'[Read']
      BY <1>3, <2>5, <2>6, <3>1
    <3>6. Len(written') = Read' + Len(Buffered') + Len(fifo')
      BY <2>6, <3>1, <3>2
    <3>7. \A i \in 1 .. Len(Buffered') : Buffered'[i] = written'[Read' + i]
      BY <1>3, <2>6, <3>1, <3>3
    <3>8. \A i \in 1 .. Len(fifo') : fifo'[i] = written'[Read' + Len(Buffered') + i]
      BY <1>3, <2>6, <3>1, <3>4
    <3> QED BY <3>5, <3>6, <3>7, <3>8 DEF Unread
  <2>8. Grows
    <3>1. r <= w /\ r <= r + 1 /\ r + 1 \in Nat /\ w <= w
      BY <1>2
    <3> QED BY <1>2, <1>3, <2>6, <3>1 DEF Grows
  <2>9. r + 1 <= w
    BY <1>2, <2>5
  <2> QED BY <1>1, <1>2, <2>1, <2>4, <2>5, <2>6, <2>7, <2>8, <2>9
<1>6. CASE buf[1] = <<>>
  <2>1. /\ fifo = <<>> /\ dpc \in Gone /\ eof' = [eof EXCEPT ![1] = TRUE]
        /\ line' = line /\ buf' = buf
    BY <1>6 DEF Gets, AtEnd
  <2>2. Read' = Read /\ Buffered' = Buffered
    BY <2>1 DEF Read, Buffered
  <2>3. b = 0 /\ f = 0
    BY <1>2, <1>6, <2>1 DEF Buffered
  <2>4. r = w /\ r <= w
    BY <1>2, <2>3
  <2>5. Unread'
    BY <1>3, <2>1, <2>2 DEF VInv, Unread
  <2>6. Grows
    BY <1>2, <1>3, <2>2, <2>4 DEF Grows
  <2>7. eof' \in [Readers -> BOOLEAN] /\ eof'[1] = TRUE
    BY <1>1, <2>1
  <2> QED BY <1>1, <1>2, <2>1, <2>2, <2>4, <2>5, <2>6, <2>7
<1> QED BY <1>5, <1>6

\* The line behind a line that the printer has done with.
LEMMA NextKind ==
  ASSUME VInv, Read \in Nat, Read + 1 <= Len(written),
         Read <= 3 \/ line[1].kind = "##END##" \/ OddBefore(Read)
  PROVE  Read + 1 <= 3 \/ written[Read + 1].kind = "##NAME:" \/ OddBefore(Read)
<1>1. Read + 1 \in 1 .. Len(written) /\ (Read + 1) - 1 = Read
  BY Sizes DEF VInv
<1>2. Read + 1 > 3 /\ written[Read + 1].kind # "##NAME:" =>
        Read + 1 > 4 /\ written[Read].kind \notin {"##END##", "text##END##"}
  BY <1>1 DEF VInv, Stream
<1>3. CASE Read <= 3
  <2>1. ~ (Read + 1 > 4) /\ (~ (Read + 1 <= 3) => Read + 1 > 3)
    BY <1>3
  <2> QED BY <1>2, <2>1
<1>4. CASE ~ (Read <= 3) /\ line[1].kind = "##END##"
  <2>1. Read # 0 /\ Read + 1 > 3
    BY <1>4
  <2>2. line[1] = written[Read]
    BY <2>1, Sizes DEF VInv
  <2> QED BY <1>2, <1>4, <2>1, <2>2
<1> QED BY <1>3, <1>4

LEMMA ReadCommandKeeps ==
  ASSUME VInv, ReadCommand(1)
  PROVE  VInv'
<1>1. /\ pc[1] = "top" /\ ~ eof[1] /\ Gets(1) /\ Step(1, "dispatch") /\ UNCHANGED daemonvars
      /\ UNCHANGED <<fifo, answers, pipe, child, conversions, flooded>>
  BY DEF ReadCommand
<1>2. /\ buf' \in [Readers -> Seq(AnyLine)] /\ line' \in [Readers -> AnyLine]
      /\ eof' \in [Readers -> BOOLEAN]
      /\ Unread' /\ Grows /\ Read \in Nat /\ Len(written) \in Nat
      /\ \/ /\ Read' = Read + 1 /\ Read + 1 <= Len(written)
            /\ line'[1] = written[Read + 1] /\ eof' = eof
         \/ Read' = Read /\ Read = Len(written) /\ line' = line /\ dpc \in Gone /\ eof'[1]
  BY <1>1, GetsReads
<1>3. /\ pc'[1] = "dispatch" /\ \A p \in Readers : p # 1 => pc'[p] = pc[p]
      /\ pc' \in [Readers -> {"unborn", "open_r", "open_w", "top", "dispatch", "first",
                              "more", "copy", "wait"} \cup Over]
  BY <1>1, StepTo
<1>4. /\ Stream' /\ DaemonPlace' /\ dpc' = dpc /\ asking' = asking /\ written' = written
      /\ DaemonTypes'
  BY <1>1, WrittenStays DEF VInv, DaemonTypes
<1>5. ReaderTypes'
  BY <1>1, <1>2, <1>3 DEF VInv, ReaderTypes
<1>6. OneReader'
  BY <1>1, <1>3 DEF VInv, OneReader
<1>7. Converted'
  BY <1>1, <1>2, ConvertedStays DEF VInv
<1>8. /\ pipe[1] = 0 /\ ~ flooded[1]
      /\ \A k \in 1 .. Len(conversions) : NextOf(conversions[k]) <= Read
      /\ Read <= 3 \/ line[1].kind = "##END##" \/ OddBefore(Read)
  BY <1>1 DEF VInv, Copying
<1>9. CASE Read' = Read + 1 /\ Read + 1 <= Len(written) /\ line'[1] = written[Read + 1]
           /\ eof' = eof
  <2>1. Exchange'
    <3>1. dpc # "ask"
      <4>1. ~ (Read + 1 <= Len(written)) \/ Read # Len(written)
        BY <1>2
      <4> QED BY <1>9, <4>1 DEF VInv, Exchange
    <3>2. dpc = "answer" => answers = <<>> /\ Read = asking - 1
      <4>1. dpc = "answer" => Len(written) = asking
        BY DEF VInv, DaemonPlace
      <4>2. dpc = "answer" => Read # asking
        BY <1>2, <1>9, <4>1
      <4> QED BY <1>1, <4>2 DEF VInv, Exchange
    <3>3. dpc = "answer" => Read' = asking
      <4>1. asking \in 1 .. 3
        BY DEF VInv, DaemonTypes
      <4> QED BY <1>9, <3>2, <4>1
    <3>4. dpc \in {"idle", "write", "cut off"} => Read' >= 3 /\ Read' > 3 /\ answers = <<>>
      <4>1. dpc \in {"idle", "write", "cut off"} => Read >= 3 /\ answers = <<>>
        BY DEF VInv, Exchange
      <4>2. Read >= 3 => Read' >= 3 /\ Read' > 3
        BY <1>2, <1>9
      <4> QED BY <4>1, <4>2
    <3>5. dpc \notin {"open_r", "open_w"}
      BY <1>1 DEF VInv, Exchange
    <3> QED BY <1>1, <1>3, <1>4, <3>1, <3>2, <3>3, <3>4, <3>5 DEF Exchange
  <2>2. Copying'
    <3>1. Read' <= 3 \/ line'[1].kind = "##NAME:" \/ OddBefore(Read)'
      <4>1. Read + 1 <= 3 \/ written[Read + 1].kind = "##NAME:" \/ OddBefore(Read)
        BY <1>2, <1>8, <1>9, NextKind
      <4>2. OddBefore(Read) => OddBefore(Read)'
        BY <1>2, OddStays
      <4> QED BY <1>9, <4>1, <4>2
    <3>2. \A k \in 1 .. Len(conversions') : NextOf(conversions'[k]) < Read'
      <4> SUFFICES ASSUME NEW k \in 1 .. Len(conversions)
                   PROVE  NextOf(conversions[k]) < Read + 1
        BY <1>1, <1>9 DEF NextOf
      <4>1. conversions[k].first.n \in Nat /\ Len(conversions[k].lines) \in Nat
        BY ConversionIs DEF VInv
      <4>2. NextOf(conversions[k]) \in Nat
        BY <4>1 DEF NextOf
      <4> QED BY <1>2, <1>8, <4>2
    <3> QED BY <1>1, <1>3, <1>8, <1>9, <3>1, <3>2 DEF Copying
  <2> QED BY <1>2, <1>4, <1>5, <1>6, <1>7, <2>1, <2>2 DEF VInv
<1>10. CASE Read' = Read /\ Read = Len(written) /\ line' = line /\ dpc \in Gone /\ eof'[1]
  <2>1. Exchange'
    <3>1. dpc = "cut off" => answers = <<>> /\ Read >= 3 /\ Read > 3
      <4>1. dpc = "cut off" => Len(written) > 3 /\ answers = <<>> /\ Read >= 3
        BY DEF VInv, DaemonPlace, Exchange
      <4> QED BY <1>10, <4>1
    <3>2. dpc \in {"gone", "cut off"}
      BY <1>10 DEF Gone
    <3> QED BY <1>1, <1>3, <1>4, <1>10, <3>1, <3>2 DEF Exchange
  <2>2. Copying'
    BY <1>1, <1>3, <1>4, <1>8, <1>10 DEF Copying
  <2> QED BY <1>2, <1>4, <1>5, <1>6, <1>7, <2>1, <2>2 DEF VInv
<1> QED BY <1>2, <1>9, <1>10

\* A step that reads nothing: what it has in common with the others.
LEMMA StillReader ==
  ASSUME VInv, UNCHANGED <<daemonvars, fifo, buf, line>>
  PROVE  /\ Stream' /\ DaemonPlace' /\ dpc' = dpc /\ asking' = asking /\ written' = written
         /\ answers' \in {<<>>, <<Question(asking)>>} => DaemonTypes'
         /\ Unread' /\ Read' = Read /\ Grows /\ Read \in Nat /\ Len(written) \in Nat
         /\ OddBefore(Read)' <=> OddBefore(Read)
<1>1. /\ Stream' /\ DaemonPlace' /\ dpc' = dpc /\ asking' = asking /\ written' = written
      /\ (fifo' \in Seq(AnyLine) /\ answers' \in {<<>>, <<Question(asking)>>}) => DaemonTypes'
  BY WrittenStays
<1>2. /\ Unread' /\ Read' = Read /\ Grows /\ fifo' \in Seq(AnyLine)
      /\ Read \in Nat /\ Len(written) \in Nat
  BY ReadsNothing
<1>3. OddBefore(Read)' <=> OddBefore(Read)
  BY <1>1, <1>2 DEF OddBefore
<1> QED BY <1>1, <1>2, <1>3

LEMMA FinishKeeps ==
  ASSUME VInv, Finish(1)
  PROVE  VInv'
<1>1. /\ pc[1] = "top" /\ eof[1] /\ Step(1, "ended") /\ UNCHANGED <<daemonvars, fifo, buf, line>>
      /\ UNCHANGED <<answers, eof, pipe, child, conversions, flooded>>
  BY DEF Finish
<1>2. "ended" \in Over /\ "ended" \notin {"unborn", "open_r", "open_w", "top", "dispatch",
                                          "first", "more", "copy", "wait"}
  BY DEF Over
<1>3. /\ pc'[1] = "ended" /\ \A p \in Readers : p # 1 => pc'[p] = pc[p]
      /\ pc' \in [Readers -> {"unborn", "open_r", "open_w", "top", "dispatch", "first",
                              "more", "copy", "wait"} \cup Over]
  BY <1>1, <1>2, StepTo
<1>4. /\ Stream' /\ DaemonPlace' /\ dpc' = dpc /\ asking' = asking /\ written' = written
      /\ answers' \in {<<>>, <<Question(asking)>>} => DaemonTypes'
      /\ Unread' /\ Read' = Read /\ Grows
  BY <1>1, StillReader
<1>5. DaemonTypes'
  BY <1>1, <1>4 DEF VInv, DaemonTypes
<1>6. ReaderTypes'
  BY <1>1, <1>3 DEF VInv, ReaderTypes
<1>7. OneReader'
  BY <1>1, <1>2, <1>3 DEF VInv, OneReader
<1>8. Converted'
  BY <1>1, <1>4, ConvertedStays DEF VInv
<1>9. dpc \in Gone
  BY <1>1 DEF VInv, Copying
<1>10. Exchange'
  BY <1>1, <1>2, <1>3, <1>4, <1>9 DEF VInv, Exchange, Gone
<1>11. Copying'
  BY <1>1, <1>2, <1>3, <1>4 DEF VInv, Copying
<1> QED BY <1>4, <1>5, <1>6, <1>7, <1>8, <1>10, <1>11 DEF VInv

\* A question that was read is one of the first three lines.
LEMMA QuestionIs ==
  ASSUME VInv, IsQuestion(line[1])
  PROVE  Read \in 1 .. 3 /\ line[1] = Question(Read)
<1>1. PICK k \in 1 .. 3 : line[1] = Question(k)
  BY QuestionsAre DEF IsQuestion
<1>2. Read = k
  BY <1>1, QuestionsAre DEF Read
<1> QED BY <1>1, <1>2

LEMMA AnswerKeeps ==
  ASSUME VInv, Answer(1)
  PROVE  VInv'
<1>1. PICK next \in {"top", "killed"} :
        /\ Step(1, next)
        /\ next = "killed" => dpc \in Gone /\ answers' = answers
        /\ next = "top" => dpc \notin Gone /\ answers' = Append(answers, line[1])
  BY DEF Answer
<1>2. /\ pc[1] = "dispatch" /\ IsQuestion(line[1]) /\ UNCHANGED <<daemonvars, fifo, buf, line>>
      /\ UNCHANGED <<eof, pipe, child, conversions, flooded>>
  BY DEF Answer
<1>3. next \in {"top"} \cup Over
  BY DEF Over
<1>4. /\ pc'[1] = next /\ \A p \in Readers : p # 1 => pc'[p] = pc[p]
      /\ pc' \in [Readers -> {"unborn", "open_r", "open_w", "top", "dispatch", "first",
                              "more", "copy", "wait"} \cup Over]
  BY <1>1, <1>3, StepTo
<1>5. /\ Stream' /\ DaemonPlace' /\ dpc' = dpc /\ asking' = asking /\ written' = written
      /\ answers' \in {<<>>, <<Question(asking)>>} => DaemonTypes'
      /\ Unread' /\ Read' = Read /\ Grows /\ Read \in Nat
      /\ OddBefore(Read)' <=> OddBefore(Read)
  BY <1>2, StillReader
<1>6. Read \in 1 .. 3 /\ line[1] = Question(Read)
  BY <1>2, QuestionIs
<1>7. next = "top" => /\ dpc = "answer" /\ answers = <<>> /\ Read = asking
                      /\ answers' = <<Question(asking)>>
  <2>1. SUFFICES ASSUME next = "top" PROVE /\ dpc = "answer" /\ answers = <<>> /\ Read = asking
                                           /\ answers' = <<Question(asking)>>
    OBVIOUS
  <2>2. dpc \in {"open_r", "open_w", "ask", "answer", "idle", "write"}
    BY <1>1, <2>1 DEF VInv, DaemonTypes
  <2>3. dpc \notin {"open_r", "open_w", "ask"}
    BY <1>2 DEF VInv, Exchange
  <2>4. dpc \notin {"idle", "write"}
    <3>1. ~ (Read > 3)
      BY <1>6
    <3> QED BY <1>2, <3>1 DEF VInv, Exchange
  <2>5. dpc = "answer"
    BY <2>2, <2>3, <2>4
  <2>6. answers = <<>> /\ Read = asking
    BY <1>2, <2>5 DEF VInv, Exchange
  <2>7. answers' = <<Question(asking)>>
    BY <1>1, <1>6, <2>1, <2>6
  <2> QED BY <2>5, <2>6, <2>7
<1>8. DaemonTypes'
  BY <1>1, <1>5, <1>7 DEF VInv, DaemonTypes
<1>9. ReaderTypes'
  BY <1>2, <1>4 DEF VInv, ReaderTypes
<1>10. OneReader'
  BY <1>2, <1>4 DEF VInv, OneReader
<1>11. Converted'
  BY <1>2, <1>5, ConvertedStays DEF VInv
<1>12. Exchange'
  <2>1. CASE next = "top"
    <3>1. answers' # <<>>
      BY <1>7, <2>1
    <3> QED BY <1>4, <1>5, <1>7, <2>1, <3>1 DEF Exchange
  <2>2. CASE next = "killed"
    BY <1>1, <1>4, <1>5, <2>2 DEF VInv, Exchange, Gone
  <2> QED BY <2>1, <2>2
<1>13. Copying'
  <2>1. pipe[1] = 0
    BY <1>2 DEF VInv, Copying
  <2>2. Read' <= 3
    BY <1>5, <1>6
  <2>3. ~ eof[1] => \A k \in 1 .. Len(conversions) : NextOf(conversions[k]) <= Read
    <3> SUFFICES ASSUME ~ eof[1], NEW k \in 1 .. Len(conversions)
                 PROVE  NextOf(conversions[k]) <= Read
      OBVIOUS
    <3>1. conversions[k].first.n \in Nat /\ Len(conversions[k].lines) \in Nat
      BY ConversionIs DEF VInv
    <3>2. NextOf(conversions[k]) \in Nat
      BY <3>1 DEF NextOf
    <3>3. NextOf(conversions[k]) < Read
      BY <1>2 DEF VInv, Copying
    <3> QED BY <1>5, <3>2, <3>3
  <2>4. eof[1] => Read = Len(written) /\ dpc \in Gone
    BY DEF VInv, Copying
  <2>5. ~ flooded[1]
    <3>1. ~ (Read > 3)
      BY <1>6
    <3> QED BY <3>1 DEF VInv, Copying
  <2> QED BY <1>2, <1>4, <1>5, <2>1, <2>2, <2>3, <2>4, <2>5 DEF Copying, NextOf
<1> QED BY <1>5, <1>8, <1>9, <1>10, <1>11, <1>12, <1>13 DEF VInv

LEMMA PassOverKeeps ==
  ASSUME VInv, PassOver(1)
  PROVE  VInv'
<1>1. /\ pc[1] = "dispatch" /\ Step(1, "top") /\ UNCHANGED <<daemonvars, fifo, buf, line>>
      /\ UNCHANGED <<answers, eof, pipe, child, conversions, flooded>>
      /\ line[1].kind \in {"##END##", ""} \cup FileKinds \/ eof[1]
      /\ line[1].kind \in {"##END##", "", "##NAME:"} \cup FileKinds
  BY DEF PassOver
<1>2. /\ pc'[1] = "top" /\ \A p \in Readers : p # 1 => pc'[p] = pc[p]
      /\ pc' \in [Readers -> {"unborn", "open_r", "open_w", "top", "dispatch", "first",
                              "more", "copy", "wait"} \cup Over]
  BY <1>1, StepTo
<1>3. /\ Stream' /\ DaemonPlace' /\ dpc' = dpc /\ asking' = asking /\ written' = written
      /\ answers' \in {<<>>, <<Question(asking)>>} => DaemonTypes'
      /\ Unread' /\ Read' = Read /\ Grows /\ Read \in Nat
      /\ OddBefore(Read)' <=> OddBefore(Read)
  BY <1>1, StillReader
<1>4. dpc # "answer"
  <2>1. SUFFICES ASSUME dpc = "answer" PROVE FALSE
    OBVIOUS
  <2>2. Read = asking /\ asking \in 1 .. 3
    BY <1>1, <2>1 DEF VInv, Exchange, DaemonTypes
  <2>3. line[1] = written[Read] /\ Read \in 1 .. Len(written)
    <3>1. Read # 0 /\ DaemonTypes /\ ReaderTypes /\ Unread
      BY <2>2 DEF VInv
    <3>2. Read \in Nat /\ Read <= Len(written) /\ line[1] = written[Read] /\ Len(written) \in Nat
      BY <3>1, Sizes
    <3> QED BY <2>2, <3>2
  <2>4. Read <= 3
    BY <2>2
  <2>5. line[1] = Question(Read)
    BY <2>3, <2>4 DEF VInv, Stream
  <2>6. line[1].kind \in QuestionKinds
    BY <2>2, <2>5, QuestionsAre
  <2> QED BY <1>1, <2>6 DEF QuestionKinds, FileKinds
<1>5. DaemonTypes'
  BY <1>1, <1>3 DEF VInv, DaemonTypes
<1>6. ReaderTypes'
  BY <1>1, <1>2 DEF VInv, ReaderTypes
<1>7. OneReader'
  BY <1>1, <1>2 DEF VInv, OneReader
<1>8. Converted'
  BY <1>1, <1>3, ConvertedStays DEF VInv
<1>9. Exchange'
  BY <1>1, <1>2, <1>3, <1>4 DEF VInv, Exchange
<1>10. Copying'
  <2>1. pipe[1] = 0 /\ (flooded[1] => eof[1] /\ Read > 3 /\ ~ EndsJob(line[1]))
    BY <1>1 DEF VInv, Copying
  <2>2. ~ eof[1] => \A k \in 1 .. Len(conversions) : NextOf(conversions[k]) <= Read
    <3> SUFFICES ASSUME ~ eof[1], NEW k \in 1 .. Len(conversions)
                 PROVE  NextOf(conversions[k]) <= Read
      OBVIOUS
    <3>1. conversions[k].first.n \in Nat /\ Len(conversions[k].lines) \in Nat
      BY ConversionIs DEF VInv
    <3>2. NextOf(conversions[k]) \in Nat
      BY <3>1 DEF NextOf
    <3>3. NextOf(conversions[k]) < Read
      BY <1>1 DEF VInv, Copying
    <3> QED BY <1>3, <3>2, <3>3
  <2>3. ~ eof[1] => Read <= 3 \/ line[1].kind = "##END##" \/ OddBefore(Read)
    <3>1. ~ eof[1] => line[1].kind # "##NAME:"
      BY <1>1 DEF FileKinds
    <3> QED BY <1>1, <3>1 DEF VInv, Copying
  <2>4. eof[1] => Read = Len(written) /\ dpc \in Gone
    BY DEF VInv, Copying
  <2> QED BY <1>1, <1>2, <1>3, <2>1, <2>2, <2>3, <2>4 DEF Copying, NextOf
<1> QED BY <1>3, <1>5, <1>6, <1>7, <1>8, <1>9, <1>10 DEF VInv

\* The first line of a job starts a conversion.
LEMMA ForkKeeps ==
  ASSUME VInv, Fork(1), Ps2pdf # "missing"
  PROVE  VInv'
<1> DEFINE n == Len(conversions)
<1>0. PICK new : new = [first |-> line[1], lines |-> <<>>, status |-> "open"]
  OBVIOUS
<1>1. /\ pc[1] = "dispatch" /\ ~ eof[1] /\ line[1].kind \in {"##NAME:"} \cup FileKinds
      /\ conversions' = Append(conversions, new)
      /\ pipe' = [pipe EXCEPT ![1] = n + 1] /\ Step(1, "first")
      /\ UNCHANGED <<daemonvars, fifo, buf, line>>
      /\ UNCHANGED <<answers, eof, child, flooded>>
  BY <1>0 DEF Fork
<1>2. Read > 3 /\ Read \in 1 .. Len(written) /\ line[1] = written[Read]
  <2>1. line[1].kind \in JobKinds
    BY <1>1 DEF JobKinds
  <2> QED BY <2>1, BehindQuestions DEF VInv
<1>3. /\ pc'[1] = "first" /\ \A p \in Readers : p # 1 => pc'[p] = pc[p]
      /\ pc' \in [Readers -> {"unborn", "open_r", "open_w", "top", "dispatch", "first",
                              "more", "copy", "wait"} \cup Over]
  BY <1>1, StepTo
<1>4. /\ Stream' /\ DaemonPlace' /\ dpc' = dpc /\ asking' = asking /\ written' = written
      /\ answers' \in {<<>>, <<Question(asking)>>} => DaemonTypes'
      /\ Unread' /\ Read' = Read /\ Grows /\ Read \in Nat
      /\ OddBefore(Read)' <=> OddBefore(Read)
  BY <1>1, StillReader
<1>5. new \in Conversion /\ conversions \in Seq(Conversion) /\ n \in Nat
  <2>1. line[1] \in AnyLine
    BY Sizes DEF VInv
  <2>2. <<>> \in Seq(AnyLine) /\ "open" \in Statuses
    BY DEF Statuses
  <2>3. conversions \in Seq(Conversion)
    BY DEF VInv, ReaderTypes
  <2> QED BY <1>0, <2>1, <2>2, <2>3, LenProperties DEF Conversion
<1>6. new.first = line[1] /\ new.lines = <<>> /\ new.status = "open" /\ Len(new.lines) = 0
  BY <1>0
<1>7. /\ conversions' \in Seq(Conversion) /\ Len(conversions') = n + 1
      /\ \A k \in 1 .. n : conversions'[k] = conversions[k]
      /\ conversions'[n + 1] = new
  BY <1>1, <1>5, AppendProperties
<1>8. /\ pipe' \in [Readers -> Nat] /\ pipe'[1] = n + 1 /\ pipe[1] = 0
      /\ \A p \in Readers : p # 1 => pipe'[p] = pipe[p]
  <2>1. pipe \in [Readers -> Nat] /\ 1 \in Readers /\ pipe[1] = 0
    BY <1>1, FirstReader DEF VInv, ReaderTypes, Copying
  <2> QED BY <1>1, <1>5, <2>1
<1>9. DaemonTypes'
  BY <1>1, <1>4 DEF VInv, DaemonTypes
<1>10. ReaderTypes'
  BY <1>1, <1>3, <1>7, <1>8 DEF VInv, ReaderTypes
<1>11. OneReader'
  BY <1>1, <1>3, <1>8 DEF VInv, OneReader
<1>12. Exchange'
  <2>1. dpc # "answer"
    <3>1. dpc = "answer" => Read = asking /\ asking \in 1 .. 3
      BY <1>1 DEF VInv, Exchange, DaemonTypes
    <3> QED BY <1>2, <3>1
  <2> QED BY <1>1, <1>3, <1>4, <2>1 DEF VInv, Exchange
<1>13. /\ NextOf(new) = Read + 1
       /\ \A k \in 1 .. n : NextOf(conversions[k]) < new.first.n
       /\ line[1].kind = "##NAME:" \/ OddBefore(Read)
  <2>1. new.first.n = Read
    BY <1>6 DEF Read
  <2>2. NextOf(new) = Read + 1
    BY <1>4, <1>6, <2>1 DEF NextOf
  <2>3. /\ \A k \in 1 .. n : NextOf(conversions[k]) < Read
        /\ Read <= 3 \/ line[1].kind \in {"##NAME:", "##END##"} \/ OddBefore(Read)
    BY <1>1 DEF VInv, Copying
  <2>4. ~ (Read <= 3) /\ line[1].kind # "##END##"
    BY <1>1, <1>2, <1>4 DEF FileKinds
  <2> QED BY <2>1, <2>2, <2>3, <2>4
<1>14. Given(new)'
  <2>1. /\ new.first.n = Read /\ new.first = written[new.first.n]
        /\ Read + 0 <= Read
    BY <1>2, <1>4, <1>6 DEF Read
  <2>2. GivenTheStream(new)'
    BY <1>6 DEF GivenTheStream, Ended
  <2>3. OfOneJob(new) \/ OddBefore(Read)'
    BY <1>4, <1>6, <1>13 DEF OfOneJob
  <2> QED BY <1>2, <1>4, <1>6, <2>1, <2>2, <2>3 DEF Given
<1>15. Converted'
  <2>1. ASSUME NEW k \in 1 .. n + 1
        PROVE  /\ Given(conversions[k])'
               /\ conversions'[k].status = "open" => k = pipe'[1]
    <3>1. CASE k = n + 1
      <4>1. new = conversions'[k]
        BY <1>7, <3>1
      <4>2. Given(conversions[k])'
        BY <1>14, <4>1 DEF Given, OfOneJob, OddBefore, GivenTheStream, NextOf, Ended
      <4> QED BY <1>8, <3>1, <4>2
    <3>2. CASE k # n + 1
      <4>1. k \in 1 .. n /\ k # 0
        BY <1>5, <3>2
      <4>2. Given(conversions[k]) /\ conversions[k].status # "open"
        BY <1>8, <4>1 DEF VInv, Converted
      <4>3. conversions[k].first.n \in Nat /\ Len(conversions[k].lines) \in Nat
        BY <4>1, ConversionIs DEF VInv
      <4>4. PICK c : c = conversions[k]
        OBVIOUS
      <4>5. Given(c)'
        BY <1>4, <4>2, <4>3, <4>4, GivenStays
      <4>6. c = conversions'[k]
        BY <1>7, <4>1, <4>4
      <4>7. Given(conversions[k])'
        BY <4>5, <4>6 DEF Given, OfOneJob, OddBefore, GivenTheStream, NextOf, Ended
      <4> QED BY <1>7, <4>1, <4>2, <4>7
    <3> QED BY <3>1, <3>2
  <2>2. ASSUME NEW i \in 1 .. n + 1, NEW k \in 1 .. n + 1, i < k
        PROVE  NextOf(conversions'[i]) < conversions'[k].first.n
    <3>1. i \in 1 .. n /\ conversions'[i] = conversions[i]
      <4>1. i \in 1 .. n
        BY <1>5, <2>2
      <4> QED BY <1>7, <4>1
    <3>2. CASE k = n + 1
      BY <1>7, <1>13, <3>1, <3>2
    <3>3. CASE k # n + 1
      <4>1. k \in 1 .. n /\ conversions'[k] = conversions[k]
        <5>1. k \in 1 .. n
          BY <1>5, <3>3
        <5> QED BY <1>7, <5>1
      <4> QED BY <2>2, <3>1, <4>1 DEF VInv, Converted
    <3> QED BY <3>2, <3>3
  <2> QED BY <1>7, <2>1, <2>2 DEF Converted
<1>16. Copying'
  <2>1. ~ flooded[1]
    BY <1>1 DEF VInv, Copying
  <2>2. pipe'[1] # 0
    BY <1>5, <1>8
  <2>3. conversions'[pipe'[1]] = new
    BY <1>7, <1>8
  <2>4. NextOf(conversions'[pipe'[1]]) = Read' + 1
    BY <1>4, <1>13, <2>3
  <2>5. /\ conversions'[pipe'[1]].lines = <<>>
        /\ conversions'[pipe'[1]].first = line'[1]
        /\ conversions'[pipe'[1]].status = "open"
    BY <1>1, <1>6, <2>3
  <2> QED BY <1>1, <1>3, <1>7, <1>8, <2>1, <2>2, <2>4, <2>5 DEF Copying, NextOf
<1> QED BY <1>4, <1>9, <1>10, <1>11, <1>12, <1>15, <1>16 DEF VInv

\* The conversion the printer writes to.
LEMMA Current ==
  ASSUME VInv, pipe[1] # 0
  PROVE  /\ pipe[1] \in 1 .. Len(conversions) /\ pipe[1] = Len(conversions)
         /\ Given(conversions[pipe[1]]) /\ conversions[pipe[1]] \in Conversion
         /\ conversions[pipe[1]].first \in AnyLine /\ conversions[pipe[1]].first.n \in Nat
         /\ conversions[pipe[1]].lines \in Seq(AnyLine)
         /\ Len(conversions[pipe[1]].lines) \in Nat
         /\ conversions[pipe[1]].status \in Statuses
         /\ NextOf(conversions[pipe[1]]) \in Nat /\ NextOf(conversions[pipe[1]]) > 4
<1>1. pipe[1] = Len(conversions) /\ Len(conversions) \in Nat
  BY ConversionIs DEF VInv, Copying
<1>2. pipe[1] \in 1 .. Len(conversions)
  BY <1>1
<1>3. Given(conversions[pipe[1]])
  BY <1>2 DEF VInv, Converted
<1>4. /\ conversions[pipe[1]] \in Conversion
      /\ conversions[pipe[1]].first \in AnyLine /\ conversions[pipe[1]].first.n \in Nat
      /\ conversions[pipe[1]].lines \in Seq(AnyLine)
      /\ Len(conversions[pipe[1]].lines) \in Nat
      /\ conversions[pipe[1]].status \in Statuses
  BY <1>2, ConversionIs DEF VInv
<1>5. PICK f \in Nat, m \in Nat : f = conversions[pipe[1]].first.n /\ m = Len(conversions[pipe[1]].lines)
  BY <1>4
<1>6. NextOf(conversions[pipe[1]]) = f + m + 1 /\ f > 3
  BY <1>3, <1>5 DEF NextOf, Given
<1>7. NextOf(conversions[pipe[1]]) \in Nat /\ NextOf(conversions[pipe[1]]) > 4
  BY <1>6
<1> QED BY <1>1, <1>2, <1>3, <1>4, <1>7

LEMMA ReadTextKeeps ==
  ASSUME VInv, ReadText(1)
  PROVE  VInv'
<1>1. /\ pc[1] \in {"first", "more"} /\ Gets(1) /\ Step(1, "copy") /\ UNCHANGED daemonvars
      /\ UNCHANGED <<fifo, answers, pipe, child, conversions, flooded>>
  BY DEF ReadText
<1>2. /\ buf' \in [Readers -> Seq(AnyLine)] /\ line' \in [Readers -> AnyLine]
      /\ eof' \in [Readers -> BOOLEAN]
      /\ Unread' /\ Grows /\ Read \in Nat /\ Len(written) \in Nat
      /\ \/ /\ Read' = Read + 1 /\ Read + 1 <= Len(written)
            /\ line'[1] = written[Read + 1] /\ eof' = eof
         \/ Read' = Read /\ Read = Len(written) /\ line' = line /\ dpc \in Gone /\ eof'[1]
  BY <1>1, GetsReads
<1>3. /\ pc'[1] = "copy" /\ \A p \in Readers : p # 1 => pc'[p] = pc[p]
      /\ pc' \in [Readers -> {"unborn", "open_r", "open_w", "top", "dispatch", "first",
                              "more", "copy", "wait"} \cup Over]
  BY <1>1, StepTo
<1>4. /\ Stream' /\ DaemonPlace' /\ dpc' = dpc /\ asking' = asking /\ written' = written
      /\ DaemonTypes'
  BY <1>1, WrittenStays DEF VInv, DaemonTypes
<1>5. ReaderTypes'
  BY <1>1, <1>2, <1>3 DEF VInv, ReaderTypes
<1>6. OneReader'
  BY <1>1, <1>3 DEF VInv, OneReader
<1>7. Converted'
  BY <1>1, <1>2, ConvertedStays DEF VInv
<1>8. Exchange'
  <2>1. dpc \notin {"open_r", "open_w", "ask", "answer"}
    BY <1>1 DEF VInv, Exchange
  <2>2. Read >= 3 => Read' >= 3
    BY <1>2
  <2> QED BY <1>1, <1>3, <1>4, <2>1, <2>2 DEF VInv, Exchange
<1>9. /\ pipe[1] # 0 /\ pipe[1] \in {0, Len(conversions)}
      /\ NextOf(conversions[pipe[1]]) = Read + 1
      /\ conversions[pipe[1]].status \in {"open", "quit"}
      /\ eof[1] => Read = Len(written)
      /\ flooded[1] => eof[1] /\ Read > 3 /\ ~ EndsJob(line[1])
  BY <1>1 DEF VInv, Copying
<1>10. CASE Read' = Read + 1 /\ Read + 1 <= Len(written) /\ eof' = eof
  <2>1. ~ eof[1] /\ ~ flooded[1]
    <3>1. Read # Len(written)
      BY <1>2, <1>10
    <3> QED BY <1>9, <3>1
  <2>2. Copying'
    BY <1>1, <1>3, <1>9, <1>10, <2>1 DEF Copying, NextOf
  <2> QED BY <1>2, <1>4, <1>5, <1>6, <1>7, <1>8, <2>2 DEF VInv
<1>11. CASE Read' = Read /\ Read = Len(written) /\ line' = line /\ dpc \in Gone /\ eof'[1]
  <2>1. Copying'
    BY <1>1, <1>3, <1>4, <1>9, <1>11 DEF Copying, NextOf
  <2> QED BY <1>2, <1>4, <1>5, <1>6, <1>7, <1>8, <2>1 DEF VInv
<1> QED BY <1>2, <1>10, <1>11

\* A step of the printer with the conversion it writes to, or of its ps2pdf.
LEMMA ConversionKeeps ==
  ASSUME VInv, pipe[1] # 0, NEW d \in Conversion, Given(d),
         d.first = conversions[pipe[1]].first,
         conversions' = [conversions EXCEPT ![pipe[1]] = d],
         UNCHANGED <<daemonvars, fifo, buf, line>>, UNCHANGED <<answers, eof, child>>,
         pipe' \in [Readers -> Nat], \A p \in Readers : p # 1 => pipe'[p] = pipe[p],
         d.status = "open" => pipe'[1] = pipe[1],
         pc' \in [Readers -> {"unborn", "open_r", "open_w", "top", "dispatch", "first",
                              "more", "copy", "wait"} \cup Over],
         pc'[1] \notin {"unborn", "dispatch"}, \A p \in Readers : p # 1 => pc'[p] = pc[p],
         flooded' \in [Readers -> BOOLEAN], \A p \in Readers : p # 1 => ~ flooded'[p]
  PROVE  /\ Stream' /\ DaemonPlace' /\ DaemonTypes' /\ ReaderTypes' /\ OneReader'
         /\ Unread' /\ Exchange' /\ Converted'
         /\ dpc' = dpc /\ written' = written /\ Read' = Read /\ Read \in Nat
         /\ Len(conversions') = Len(conversions) /\ conversions'[pipe[1]] = d
         /\ \A k \in 1 .. Len(conversions) : k # pipe[1] => conversions'[k] = conversions[k]
         /\ OddBefore(Read)' <=> OddBefore(Read)
<1>1. /\ pipe[1] \in 1 .. Len(conversions) /\ pipe[1] = Len(conversions)
  BY Current
<1>2. /\ conversions' \in Seq(Conversion) /\ Len(conversions') = Len(conversions)
      /\ \A k \in 1 .. Len(conversions) :
           conversions'[k] = IF k = pipe[1] THEN d ELSE conversions[k]
  <2>1. conversions \in Seq(Conversion)
    BY DEF VInv, ReaderTypes
  <2> QED BY <1>1, <2>1, ExceptSeq
<1>3. /\ Stream' /\ DaemonPlace' /\ dpc' = dpc /\ asking' = asking /\ written' = written
      /\ answers' \in {<<>>, <<Question(asking)>>} => DaemonTypes'
      /\ Unread' /\ Read' = Read /\ Grows /\ Read \in Nat
      /\ OddBefore(Read)' <=> OddBefore(Read)
  BY StillReader
<1>4. DaemonTypes'
  BY <1>3 DEF VInv, DaemonTypes
<1>5. ReaderTypes'
  BY <1>2 DEF VInv, ReaderTypes
<1>6. OneReader'
  BY DEF VInv, OneReader
<1>7. Exchange'
  <2>1. pc[1] \notin {"open_r", "open_w", "top", "dispatch"}
    BY DEF VInv, Copying
  <2>2. dpc \notin {"open_r", "open_w", "ask", "answer"}
    BY <2>1 DEF VInv, Exchange
  <2> QED BY <1>3, <2>2 DEF VInv, Exchange
<1>8. Converted'
  <2>1. ASSUME NEW k \in 1 .. Len(conversions)
        PROVE  /\ Given(conversions[k])'
               /\ conversions'[k].status = "open" => k = pipe'[1]
    <3>1. PICK c : c = conversions'[k]
      OBVIOUS
    <3>2. /\ Given(c) /\ c.first.n \in Nat /\ Len(c.lines) \in Nat
          /\ c.status = "open" => k = pipe[1]
      <4>1. CASE k = pipe[1]
        <5>1. c = d
          BY <1>2, <3>1, <4>1
        <5>2. d.first \in AnyLine /\ d.lines \in Seq(AnyLine)
          BY DEF Conversion
        <5>3. d.first.n \in Nat /\ Len(d.lines) \in Nat
          BY <5>2, LenProperties DEF AnyLine
        <5> QED BY <4>1, <5>1, <5>3
      <4>2. CASE k # pipe[1]
        <5>1. c = conversions[k]
          BY <1>2, <3>1, <4>2
        <5>2. Given(conversions[k]) /\ (conversions[k].status = "open" => k = pipe[1])
          BY DEF VInv, Converted
        <5>3. conversions[k].first.n \in Nat /\ Len(conversions[k].lines) \in Nat
          BY ConversionIs DEF VInv
        <5> QED BY <5>1, <5>2, <5>3
      <4> QED BY <4>1, <4>2
    <3>3. Given(c)'
      BY <1>3, <3>2, GivenStays
    <3>4. Given(conversions[k])'
      BY <3>1, <3>3 DEF Given, OfOneJob, OddBefore, GivenTheStream, NextOf, Ended
    <3>5. conversions'[k].status = "open" => k = pipe'[1]
      <4>1. SUFFICES ASSUME c.status = "open" PROVE k = pipe'[1]
        BY <3>1
      <4>2. k = pipe[1] /\ c = d
        BY <1>2, <3>1, <3>2, <4>1
      <4> QED BY <4>1, <4>2
    <3> QED BY <3>4, <3>5
  <2>2. ASSUME NEW i \in 1 .. Len(conversions), NEW k \in 1 .. Len(conversions), i < k
        PROVE  NextOf(conversions'[i]) < conversions'[k].first.n
    <3>1. i # pipe[1]
      <4>1. Len(conversions) \in Nat
        BY ConversionIs DEF VInv
      <4> QED BY <1>1, <2>2, <4>1
    <3>2. conversions'[i] = conversions[i] /\ conversions'[k].first = conversions[k].first
      BY <1>2, <3>1
    <3> QED BY <2>2, <3>2 DEF VInv, Converted
  <2> QED BY <1>2, <2>1, <2>2 DEF Converted
<1> QED BY <1>1, <1>2, <1>3, <1>4, <1>5, <1>6, <1>7, <1>8

\* Only the status of a conversion changes.
LEMMA StatusChanges ==
  ASSUME VInv, pipe[1] # 0, NEW status \in Statuses, NEW d,
         d = [conversions[pipe[1]] EXCEPT !.status = status],
         status = "open" => conversions[pipe[1]].status = "open",
         status \in {"closed", "done"} =>
           \/ Ended(conversions[pipe[1]])
           \/ NextOf(conversions[pipe[1]]) <= Len(written)
              /\ EndsJob(written[NextOf(conversions[pipe[1]])])
           \/ EndsJob(conversions[pipe[1]].first) /\ conversions[pipe[1]].lines = <<>>
  PROVE  /\ d \in Conversion /\ Given(d)
         /\ d.first = conversions[pipe[1]].first /\ d.lines = conversions[pipe[1]].lines
         /\ d.status = status /\ NextOf(d) = NextOf(conversions[pipe[1]])
<1>1. PICK c : c = conversions[pipe[1]]
  OBVIOUS
<1>2. Given(c) /\ c \in Conversion
  BY <1>1, Current
<1>3. d.first = c.first /\ d.lines = c.lines /\ d.status = status /\ d \in Conversion
  BY <1>1, <1>2 DEF Conversion
<1>4. NextOf(d) = NextOf(c)
  BY <1>3 DEF NextOf
<1>5. OfOneJob(c) => OfOneJob(d)
  BY <1>3 DEF OfOneJob
<1>6. Ended(d) => \/ NextOf(c) <= Len(written) /\ EndsJob(written[NextOf(c)])
                  \/ EndsJob(c.first) /\ c.lines = <<>>
  BY <1>1, <1>2, <1>3 DEF Given, GivenTheStream, Ended
<1>7. GivenTheStream(d)
  BY <1>2, <1>3, <1>4, <1>6 DEF Given, GivenTheStream
<1>8. Given(d)
  BY <1>2, <1>3, <1>5, <1>7 DEF Given
<1> QED BY <1>1, <1>3, <1>4, <1>8

LEMMA QuitKeeps ==
  ASSUME VInv, Quit(1)
  PROVE  VInv'
<1>1. PICK d : d = [conversions[pipe[1]] EXCEPT !.status = "quit"]
  OBVIOUS
<1>2. /\ pipe[1] # 0 /\ conversions[pipe[1]].status = "open"
      /\ conversions' = [conversions EXCEPT ![pipe[1]] = d]
      /\ UNCHANGED <<daemonvars, fifo, buf, line>> /\ UNCHANGED <<answers, eof, child>>
      /\ pc' = pc /\ pipe' = pipe /\ flooded' = flooded
  BY <1>1 DEF Quit
<1>3. /\ d \in Conversion /\ Given(d)
      /\ d.first = conversions[pipe[1]].first /\ d.lines = conversions[pipe[1]].lines
      /\ d.status = "quit" /\ NextOf(d) = NextOf(conversions[pipe[1]])
  <2>1. "quit" \in Statuses /\ "quit" \notin {"open", "closed", "done"}
    BY DEF Statuses
  <2> QED BY <1>1, <1>2, <2>1, StatusChanges
<1>4. /\ pc[1] \notin {"unborn", "open_r", "open_w", "top", "dispatch"}
      /\ pc \in [Readers -> {"unborn", "open_r", "open_w", "top", "dispatch", "first",
                             "more", "copy", "wait"} \cup Over]
      /\ pipe \in [Readers -> Nat] /\ flooded \in [Readers -> BOOLEAN]
      /\ \A p \in Readers : p # 1 => ~ flooded[p]
  BY <1>2 DEF VInv, Copying, ReaderTypes, OneReader
<1>5. /\ Stream' /\ DaemonPlace' /\ DaemonTypes' /\ ReaderTypes' /\ OneReader'
      /\ Unread' /\ Exchange' /\ Converted'
      /\ dpc' = dpc /\ written' = written /\ Read' = Read /\ Read \in Nat
      /\ Len(conversions') = Len(conversions) /\ conversions'[pipe[1]] = d
      /\ OddBefore(Read)' <=> OddBefore(Read)
  BY <1>2, <1>3, <1>4, ConversionKeeps
<1>6. Copying'
  <2>1. NextOf(d)' = NextOf(conversions[pipe[1]])
    BY <1>3 DEF NextOf
  <2>2. /\ NextOf(conversions[pipe[1]])' = NextOf(conversions[pipe[1]])
        /\ conversions'[pipe'[1]] = d
    BY <1>2, <1>5, <2>1 DEF NextOf
  <2> QED BY <1>2, <1>3, <1>4, <1>5, <2>2 DEF VInv, Copying
<1> QED BY <1>5, <1>6 DEF VInv

\* The line the printer read last, where it is in the middle of a job.
LEMMA LineInJob ==
  ASSUME VInv, pipe[1] # 0, pc[1] \in {"copy", "wait"}
  PROVE  /\ Read \in Nat /\ Read > 3 /\ Read <= Len(written) /\ line[1] = written[Read]
         /\ Len(written) \in Nat
<1>1. NextOf(conversions[pipe[1]]) \in Nat /\ NextOf(conversions[pipe[1]]) > 4
  BY Current
<1>2. /\ Read \in Nat /\ Read <= Len(written) /\ Len(written) \in Nat
      /\ Read # 0 => line[1] = written[Read]
  BY Sizes DEF VInv
<1>3. Read > 3
  <2>1. CASE NextOf(conversions[pipe[1]]) \in {Read, Read + 1}
    <3>1. Read + 1 > 4
      BY <1>1, <1>2, <2>1
    <3> QED BY <1>2, <3>1
  <2>2. CASE NextOf(conversions[pipe[1]]) \notin {Read, Read + 1}
    <3>1. pc[1] = "wait" /\ eof[1]
      BY <2>2 DEF VInv, Copying
    <3>2. conversions[pipe[1]].first.n + Len(conversions[pipe[1]].lines) <= Read
          /\ conversions[pipe[1]].first.n > 3
      BY Current DEF Given
    <3>3. conversions[pipe[1]].first.n \in Nat /\ Len(conversions[pipe[1]].lines) \in Nat
      BY Current
    <3> QED BY <1>2, <3>2, <3>3
  <2> QED BY <2>1, <2>2
<1> QED BY <1>2, <1>3

LEMMA ClosePipeKeeps ==
  ASSUME VInv, ClosePipe(1)
  PROVE  VInv'
<1> DEFINE c == conversions[pipe[1]]
<1>1. PICK status : status = IF c.status = "quit" THEN c.status ELSE "closed"
  OBVIOUS
<1>2. PICK d : d = [c EXCEPT !.status = status]
  OBVIOUS
<1>3. /\ pc[1] = "copy" /\ EndsJob(line[1]) /\ Step(1, "wait")
      /\ conversions' = [conversions EXCEPT ![pipe[1]] = d]
      /\ UNCHANGED <<daemonvars, fifo, buf, line>> /\ UNCHANGED <<answers, eof, child>>
      /\ pipe' = pipe /\ flooded' = flooded
  BY <1>1, <1>2 DEF ClosePipe
<1>4. /\ pipe[1] # 0 /\ c.status \in {"open", "quit"}
      /\ NextOf(c) = IF eof[1] THEN Read + 1 ELSE Read
  BY <1>3 DEF VInv, Copying
<1>5. status \in {"closed", "quit"} /\ status \in Statuses /\ status # "open"
  BY <1>1, <1>4 DEF Statuses
<1>6. /\ Read \in Nat /\ Read <= Len(written) /\ line[1] = written[Read]
  BY <1>3, <1>4, LineInJob
<1>7. \/ NextOf(c) <= Len(written) /\ EndsJob(written[NextOf(c)])
      \/ EndsJob(c.first) /\ c.lines = <<>>
  <2>1. CASE ~ eof[1]
    BY <1>3, <1>4, <1>6, <2>1
  <2>2. CASE eof[1]
    <3>1. PICK f \in Nat, m \in Nat : f = c.first.n /\ m = Len(c.lines)
      BY <1>4, Current
    <3>2. f + m + 1 = Read + 1
      BY <1>4, <2>2, <3>1 DEF NextOf
    <3>3. f + m = Read
      BY <1>6, <3>2
    <3>4. /\ c.first = written[f]
          /\ \A k \in 1 .. m : c.lines[k] = written[f + k] /\ ~ EndsJob(c.lines[k])
      BY <1>4, <3>1, Current DEF Given, GivenTheStream
    <3>5. m = 0
      <4>1. SUFFICES ASSUME m # 0 PROVE FALSE
        OBVIOUS
      <4>2. m \in 1 .. m
        BY <4>1
      <4> QED BY <1>3, <1>6, <3>3, <3>4, <4>2
    <3>6. c.lines = <<>>
      BY <1>4, <3>1, <3>5, Current, EmptySeq
    <3>7. f = Read
      BY <3>3, <3>5
    <3> QED BY <1>3, <1>6, <3>4, <3>6, <3>7
  <2> QED BY <2>1, <2>2
<1>8. /\ d \in Conversion /\ Given(d) /\ d.first = c.first /\ d.lines = c.lines
      /\ d.status = status /\ NextOf(d) = NextOf(c)
  BY <1>2, <1>4, <1>5, <1>7, StatusChanges
<1>9. /\ pc'[1] = "wait" /\ \A p \in Readers : p # 1 => pc'[p] = pc[p]
      /\ pc' \in [Readers -> {"unborn", "open_r", "open_w", "top", "dispatch", "first",
                              "more", "copy", "wait"} \cup Over]
      /\ pipe \in [Readers -> Nat] /\ flooded \in [Readers -> BOOLEAN]
      /\ \A p \in Readers : p # 1 => ~ flooded[p]
  BY <1>3, StepTo DEF VInv, ReaderTypes, OneReader
<1>10. /\ Stream' /\ DaemonPlace' /\ DaemonTypes' /\ ReaderTypes' /\ OneReader'
       /\ Unread' /\ Exchange' /\ Converted'
       /\ dpc' = dpc /\ written' = written /\ Read' = Read
       /\ Len(conversions') = Len(conversions) /\ conversions'[pipe[1]] = d
  BY <1>3, <1>4, <1>5, <1>8, <1>9, ConversionKeeps
<1>11. Copying'
  <2>1. /\ NextOf(c)' = NextOf(c) /\ conversions'[pipe'[1]] = d
    BY <1>3, <1>8, <1>10 DEF NextOf
  <2>2. ~ flooded[1]
    BY <1>3 DEF VInv, Copying
  <2>3. /\ eof[1] => Read = Len(written) /\ dpc \in Gone
        /\ pipe[1] \in {0, Len(conversions)}
    BY DEF VInv, Copying
  <2> QED BY <1>3, <1>4, <1>5, <1>8, <1>9, <1>10, <2>1, <2>2, <2>3 DEF Copying
<1> QED BY <1>10, <1>11 DEF VInv

LEMMA WaitKeeps ==
  ASSUME VInv, Wait(1)
  PROVE  VInv'
<1> DEFINE c == conversions[pipe[1]]
<1>1. PICK status : status = IF c.status = "closed" /\ child[1] = 0 THEN "done" ELSE "lost"
  OBVIOUS
<1>2. PICK d : d = [c EXCEPT !.status = status]
  OBVIOUS
<1>3. /\ pc[1] = "wait" /\ Step(1, "top")
      /\ conversions' = [conversions EXCEPT ![pipe[1]] = d]
      /\ UNCHANGED <<daemonvars, fifo, buf, line>> /\ UNCHANGED <<answers, eof>>
      /\ pipe' = [pipe EXCEPT ![1] = 0] /\ child' = [child EXCEPT ![1] = 0]
      /\ flooded' = flooded
  BY <1>1, <1>2 DEF Wait
<1>4. /\ pipe[1] # 0 /\ c.status \in {"closed", "quit"} /\ EndsJob(line[1])
      /\ ~ eof[1] => NextOf(c) = Read
  BY <1>3 DEF VInv, Copying
<1>5. status \in Statuses /\ status # "open" /\ (status \in {"closed", "done"} => Ended(c))
  BY <1>1, <1>4 DEF Statuses, Ended
<1>6. Read \in Nat /\ Read > 3 /\ Read <= Len(written) /\ line[1] = written[Read]
  BY <1>3, <1>4, LineInJob
<1>7. /\ d \in Conversion /\ Given(d) /\ d.first = c.first /\ d.lines = c.lines
      /\ d.status = status /\ NextOf(d) = NextOf(c)
  BY <1>2, <1>4, <1>5, StatusChanges
<1>8. /\ pc'[1] = "top" /\ \A p \in Readers : p # 1 => pc'[p] = pc[p]
      /\ pc' \in [Readers -> {"unborn", "open_r", "open_w", "top", "dispatch", "first",
                              "more", "copy", "wait"} \cup Over]
      /\ flooded \in [Readers -> BOOLEAN] /\ \A p \in Readers : p # 1 => ~ flooded[p]
  BY <1>3, StepTo DEF VInv, ReaderTypes, OneReader
<1>9. /\ pipe' \in [Readers -> Nat] /\ pipe'[1] = 0
      /\ \A p \in Readers : p # 1 => pipe'[p] = pipe[p]
      /\ child' = child
  <2>1. /\ pipe \in [Readers -> Nat] /\ child \in [Readers -> Nat] /\ child[1] = 0
        /\ 1 \in Readers
    BY FirstReader DEF VInv, ReaderTypes, OneReader
  <2> QED BY <1>3, <2>1
<1>10. /\ Stream' /\ DaemonPlace' /\ DaemonTypes' /\ ReaderTypes' /\ OneReader'
       /\ Unread' /\ Exchange' /\ Converted'
       /\ dpc' = dpc /\ written' = written /\ Read' = Read
       /\ Len(conversions') = Len(conversions) /\ conversions'[pipe[1]] = d
       /\ \A k \in 1 .. Len(conversions) : k # pipe[1] => conversions'[k] = conversions[k]
       /\ OddBefore(Read)' <=> OddBefore(Read)
  BY <1>3, <1>4, <1>5, <1>7, <1>8, <1>9, ConversionKeeps
<1>11. Copying'
  <2>1. ASSUME ~ eof[1], NEW k \in 1 .. Len(conversions)
        PROVE  NextOf(conversions'[k]) <= Read
    <3>1. CASE k = pipe[1]
      <4>1. NextOf(conversions'[k]) = Read
        BY <1>4, <1>7, <1>10, <2>1, <3>1
      <4> QED BY <1>6, <4>1
    <3>2. CASE k # pipe[1]
      <4>1. /\ pipe[1] \in 1 .. Len(conversions) /\ pipe[1] = Len(conversions)
            /\ c.first.n \in Nat /\ Len(c.lines) \in Nat
        BY <1>4, Current
      <4>2. k < pipe[1]
        BY <3>2, <4>1
      <4>3. NextOf(conversions[k]) < c.first.n
        BY <4>1, <4>2 DEF VInv, Converted
      <4>4. NextOf(conversions[k]) \in Nat
        <5>1. conversions[k].first.n \in Nat /\ Len(conversions[k].lines) \in Nat
          BY ConversionIs DEF VInv
        <5> QED BY <5>1 DEF NextOf
      <4>5. c.first.n + Len(c.lines) + 1 = Read
        BY <1>4, <2>1 DEF NextOf
      <4>6. NextOf(conversions[k]) <= Read
        BY <1>6, <4>1, <4>3, <4>4, <4>5
      <4> QED BY <1>10, <3>2, <4>6
    <3> QED BY <3>1, <3>2
  <2>2. line[1].kind = "##END##" \/ OddBefore(Read)
    <3>1. line[1].kind = "##END##" \/ line[1].kind = "##END##text"
      BY <1>4 DEF EndsJob
    <3>2. Read \in 1 .. Read /\ "##END##text" \in OddKinds
      BY <1>6 DEF OddKinds
    <3> QED BY <1>6, <3>1, <3>2 DEF OddBefore
  <2>3. ~ flooded[1]
    BY <1>4 DEF VInv, Copying
  <2>4. eof[1] => Read = Len(written) /\ dpc \in Gone
    BY DEF VInv, Copying
  <2>5. \A k \in 1 .. Len(conversions') : ~ eof[1] => NextOf(conversions'[k]) <= Read
    BY <1>10, <2>1
  <2> QED BY <1>3, <1>8, <1>9, <1>10, <2>2, <2>3, <2>4, <2>5 DEF Copying
<1> QED BY <1>10, <1>11 DEF VInv

\* The line behind those that a conversion was given is of its job, if it is a
\* line of a file and no ##END## was hidden in front of it or begins it.
LEMMA NextOfJob ==
  ASSUME VInv, pipe[1] # 0, pc[1] = "copy", ~ eof[1], ~ EndsJob(line[1]), ~ OddBefore(Read)
  PROVE  /\ OfOneJob(conversions[pipe[1]])
         /\ line[1].kind = "text" /\ line[1].job = conversions[pipe[1]].first.job
<1> DEFINE c == conversions[pipe[1]]
<1>1. Given(c) /\ OfOneJob(c)
  BY Current DEF Given
<1>2. PICK f \in Nat, m \in Nat, r \in Nat, w \in Nat :
        /\ f = c.first.n /\ m = Len(c.lines) /\ r = Read /\ w = Len(written)
        /\ f + m + 1 = r /\ r > 3 /\ r <= w /\ line[1] = written[r] /\ f > 3
  <2>1. NextOf(c) = Read
    BY DEF VInv, Copying
  <2>2. c.first.n \in Nat /\ Len(c.lines) \in Nat
    BY Current
  <2>3. /\ Read \in Nat /\ Read > 3 /\ Read <= Len(written) /\ line[1] = written[Read]
        /\ Len(written) \in Nat
    BY LineInJob
  <2> QED BY <1>1, <2>1, <2>2, <2>3 DEF NextOf, Given
<1>3. r - 1 = f + m /\ r > 4 /\ r \in 1 .. w
  <2>1. f + m + 1 = r /\ r <= w /\ f > 3
    BY <1>2
  <2> QED BY <2>1
<1>4. written[r - 1].job = c.first.job /\ written[r - 1].kind \in {"##NAME:", "text"}
  <2>1. CASE m = 0
    <3>1. written[r - 1] = c.first
      <4>1. r - 1 = f
        BY <1>3, <2>1
      <4> QED BY <1>1, <1>2, <4>1 DEF Given
    <3> QED BY <1>1, <3>1 DEF OfOneJob
  <2>2. CASE m # 0
    <3>1. m \in 1 .. m
      BY <2>2
    <3>2. c.lines[m] = written[f + m]
      BY <1>1, <1>2, <3>1 DEF Given, GivenTheStream
    <3> QED BY <1>1, <1>2, <1>3, <3>1, <3>2 DEF OfOneJob
  <2> QED BY <2>1, <2>2
<1>5. /\ written[r].kind \in JobKinds
      /\ written[r].kind # "##NAME:" => written[r].job = written[r - 1].job
      /\ written[r].kind = "##NAME:" => written[r - 1].kind \in FileEnds
  BY <1>2, <1>3 DEF VInv, Stream
<1>6. written[r].kind \notin OddKinds
  <2>1. r \in 1 .. r
    BY <1>3
  <2> QED BY <1>2, <2>1 DEF OddBefore
<1>7. written[r].kind # "##NAME:"
  BY <1>4, <1>5, KindsDiffer
<1>8. written[r].kind # "##END##"
  BY <1>2 DEF EndsJob
<1>9. written[r].kind = "text"
  BY <1>5, <1>6, <1>7, <1>8 DEF JobKinds, FileKinds, OddKinds
<1> QED BY <1>1, <1>2, <1>4, <1>5, <1>9

LEMMA CopyKeeps ==
  ASSUME VInv, Copy(1)
  PROVE  VInv'
<1> DEFINE c == conversions[pipe[1]]
<1>1. /\ pc[1] = "copy" /\ ~ EndsJob(line[1])
      /\ UNCHANGED <<daemonvars, fifo, buf, line>> /\ UNCHANGED <<answers, eof, child>>
      /\ pipe' = pipe
  BY DEF Copy
<1>2. /\ pipe[1] # 0 /\ c.status \in {"open", "quit"}
      /\ pipe[1] \in {0, Len(conversions)}
      /\ NextOf(c) = IF eof[1] THEN Read + 1 ELSE Read
      /\ eof[1] => Read = Len(written) /\ dpc \in Gone
      /\ flooded[1] => eof[1] /\ Read > 3 /\ ~ EndsJob(line[1])
  BY <1>1 DEF VInv, Copying
<1>3. /\ Read \in Nat /\ Read > 3 /\ Read <= Len(written) /\ line[1] = written[Read]
  BY <1>1, <1>2, LineInJob
<1>4. /\ pipe \in [Readers -> Nat] /\ flooded \in [Readers -> BOOLEAN] /\ 1 \in Readers
      /\ \A p \in Readers : p # 1 => ~ flooded[p]
  BY FirstReader DEF VInv, ReaderTypes, OneReader
\* The conversion stays as it is: the pipe is broken, or past the end.
<1>5. CASE PipeBroken(1) \/ eof[1]
  <2>1. PICK next \in {"killed", "more"} :
          /\ Step(1, next) /\ UNCHANGED conversions
          /\ next = "killed" => flooded' = flooded
          /\ next = "more" => eof[1] /\ flooded' = [flooded EXCEPT ![1] = TRUE]
    BY <1>5 DEF Copy
  <2>2. next \in {"more"} \cup Over
    BY DEF Over
  <2>3. /\ pc'[1] = next /\ \A p \in Readers : p # 1 => pc'[p] = pc[p]
        /\ pc' \in [Readers -> {"unborn", "open_r", "open_w", "top", "dispatch", "first",
                                "more", "copy", "wait"} \cup Over]
    BY <2>1, <2>2, StepTo
  <2>4. /\ Stream' /\ DaemonPlace' /\ dpc' = dpc /\ asking' = asking /\ written' = written
        /\ answers' \in {<<>>, <<Question(asking)>>} => DaemonTypes'
        /\ Unread' /\ Read' = Read /\ Grows
    BY <1>1, StillReader
  <2>5. /\ flooded' \in [Readers -> BOOLEAN] /\ \A p \in Readers : p # 1 => ~ flooded'[p]
        /\ flooded'[1] => flooded[1] \/ eof[1]
    BY <1>4, <2>1
  <2>6. DaemonTypes'
    BY <1>1, <2>4 DEF VInv, DaemonTypes
  <2>7. ReaderTypes'
    BY <1>1, <2>1, <2>3, <2>5 DEF VInv, ReaderTypes
  <2>8. OneReader'
    BY <1>1, <2>3, <2>5 DEF VInv, OneReader
  <2>9. Exchange'
    <3>1. dpc \notin {"open_r", "open_w", "ask", "answer"}
      BY <1>1 DEF VInv, Exchange
    <3> QED BY <1>1, <2>3, <2>4, <3>1 DEF VInv, Exchange
  <2>10. Converted'
    BY <1>1, <2>1, <2>4, ConvertedStays DEF VInv
  <2>11. Copying'
    <3>1. flooded'[1] => eof[1]
      BY <1>2, <2>5
    <3>2. /\ conversions' = conversions /\ eof' = eof /\ line' = line /\ pipe' = pipe
          /\ NextOf(c)' = NextOf(c)
      BY <1>1, <2>1 DEF NextOf
    <3>3. CASE next = "killed"
      <4>1. pc'[1] = "killed"
        BY <2>3, <3>3
      <4> QED BY <1>1, <1>2, <1>3, <2>4, <3>1, <3>2, <4>1 DEF Copying
    <3>4. CASE next = "more"
      <4>1. pc'[1] = "more" /\ eof[1]
        BY <2>1, <2>3, <3>4
      <4> QED BY <1>1, <1>2, <1>3, <2>4, <3>1, <3>2, <4>1 DEF Copying
    <3> QED BY <3>3, <3>4
  <2> QED BY <2>4, <2>6, <2>7, <2>8, <2>9, <2>10, <2>11 DEF VInv
\* The line goes to ps2pdf.
<1>6. CASE ~ (PipeBroken(1) \/ eof[1])
  <2>1. PICK d : d = [c EXCEPT !.lines = Append(c.lines, line[1])]
    OBVIOUS
  <2>2. /\ ~ eof[1] /\ Step(1, "more") /\ flooded' = flooded
        /\ conversions' = [conversions EXCEPT ![pipe[1]] = d]
    BY <1>6, <2>1 DEF Copy
  <2>3. /\ Given(c) /\ c \in Conversion /\ c.first \in AnyLine /\ c.lines \in Seq(AnyLine)
    BY <1>2, Current
  <2>4. PICK f \in Nat, m \in Nat : f = c.first.n /\ m = Len(c.lines)
    BY <1>2, Current
  <2>5. f + m + 1 = Read
    BY <1>2, <2>2, <2>4 DEF NextOf
  <2>6. /\ d.first = c.first /\ d.status = c.status /\ d \in Conversion
        /\ Len(d.lines) = m + 1 /\ d.lines[m + 1] = line[1]
        /\ \A k \in 1 .. m : d.lines[k] = c.lines[k]
    <3>1. line[1] \in AnyLine
      BY Sizes DEF VInv
    <3>2. /\ Append(c.lines, line[1]) \in Seq(AnyLine)
          /\ Len(Append(c.lines, line[1])) = m + 1
          /\ Append(c.lines, line[1])[m + 1] = line[1]
          /\ \A k \in 1 .. m : Append(c.lines, line[1])[k] = c.lines[k]
      BY <2>3, <2>4, <3>1, AppendProperties
    <3>3. /\ d.first = c.first /\ d.status = c.status /\ d.lines = Append(c.lines, line[1])
      BY <2>1, <2>3 DEF Conversion
    <3>4. d \in Conversion
      BY <2>1, <2>3, <3>2 DEF Conversion
    <3> QED BY <3>2, <3>3, <3>4
  <2>7. \A k \in 1 .. m + 1 : d.lines[k] = written[f + k] /\ ~ EndsJob(d.lines[k])
    <3> SUFFICES ASSUME NEW k \in 1 .. m + 1
                 PROVE  d.lines[k] = written[f + k] /\ ~ EndsJob(d.lines[k])
      OBVIOUS
    <3>1. CASE k = m + 1
      <4>1. f + (m + 1) = Read
        BY <2>5
      <4> QED BY <1>1, <1>3, <2>6, <3>1, <4>1
    <3>2. CASE k # m + 1
      <4>1. k \in 1 .. m
        BY <3>2
      <4> QED BY <2>3, <2>4, <2>6, <4>1 DEF Given, GivenTheStream
    <3> QED BY <3>1, <3>2
  <2>8. Given(d)
    <3>1. ~ Ended(d)
      BY <1>2, <2>6 DEF Ended
    <3>2. GivenTheStream(d)
      BY <2>4, <2>6, <2>7, <3>1 DEF GivenTheStream
    <3>3. OfOneJob(d) \/ OddBefore(Read)
      <4> SUFFICES ASSUME ~ OddBefore(Read) PROVE OfOneJob(d)
        OBVIOUS
      <4>1. OfOneJob(c) /\ line[1].kind = "text" /\ line[1].job = c.first.job
        BY <1>1, <1>2, <2>2, NextOfJob
      <4>2. ASSUME NEW k \in 1 .. m + 1
            PROVE  d.lines[k].kind = "text" /\ d.lines[k].job = c.first.job
        <5>1. CASE k = m + 1
          BY <2>6, <4>1, <5>1
        <5>2. CASE k # m + 1
          <6>1. k \in 1 .. m
            BY <5>2
          <6> QED BY <2>4, <2>6, <4>1, <6>1 DEF OfOneJob
        <5> QED BY <5>1, <5>2
      <4> QED BY <2>6, <4>1, <4>2 DEF OfOneJob
    <3>4. d.first.n + Len(d.lines) <= Read /\ d.first.n > 3 /\ d.first = written[d.first.n]
      <4>1. f + (m + 1) <= Read
        BY <1>3, <2>5
      <4>2. f > 3 /\ c.first = written[f]
        BY <2>3, <2>4 DEF Given
      <4> QED BY <2>4, <2>6, <4>1, <4>2
    <3> QED BY <3>2, <3>3, <3>4 DEF Given
  <2>9. /\ pc'[1] = "more" /\ \A p \in Readers : p # 1 => pc'[p] = pc[p]
        /\ pc' \in [Readers -> {"unborn", "open_r", "open_w", "top", "dispatch", "first",
                                "more", "copy", "wait"} \cup Over]
    BY <2>2, StepTo
  <2>10. /\ Stream' /\ DaemonPlace' /\ DaemonTypes' /\ ReaderTypes' /\ OneReader'
         /\ Unread' /\ Exchange' /\ Converted'
         /\ dpc' = dpc /\ written' = written /\ Read' = Read
         /\ Len(conversions') = Len(conversions) /\ conversions'[pipe[1]] = d
    BY <1>1, <1>2, <1>4, <2>2, <2>6, <2>8, <2>9, ConversionKeeps
  <2>11. Copying'
    <3>1. NextOf(d) = Read + 1
      <4>1. f + (m + 1) + 1 = Read + 1
        BY <2>5
      <4> QED BY <2>4, <2>6, <4>1 DEF NextOf
    <3>2. NextOf(c)' = NextOf(d) /\ conversions'[pipe'[1]] = d /\ d.status \in {"open", "quit"}
      BY <1>1, <1>2, <2>6, <2>10 DEF NextOf
    <3>3. NextOf(c)' = Read' + 1
      BY <2>10, <3>1, <3>2
    <3> QED BY <1>1, <1>2, <2>2, <2>9, <2>10, <3>2, <3>3 DEF Copying
  <2> QED BY <2>10, <2>11 DEF VInv
<1> QED BY <1>5, <1>6

-----------------------------------------------------------------------------
(* The invariant, and the properties that follow from it.                  *)

LEMMA VInvInit ==
  ASSUME PrinterInit
  PROVE  VInv
<1>1. /\ dpc = "open_r" /\ asking = 1 /\ job = 0 /\ place = 0
      /\ written = <<>> /\ fifo = <<>> /\ answers = <<>> /\ conversions = <<>>
      /\ pc = [p \in Readers |-> IF p = 1 THEN "open_r" ELSE "unborn"]
      /\ buf = [p \in Readers |-> <<>>] /\ line = [p \in Readers |-> NoLine]
      /\ eof = [p \in Readers |-> FALSE] /\ pipe = [p \in Readers |-> 0]
      /\ child = [p \in Readers |-> 0] /\ flooded = [p \in Readers |-> FALSE]
  BY DEF PrinterInit
<1>2. /\ pc[1] = "open_r" /\ buf[1] = <<>> /\ line[1] = NoLine /\ ~ eof[1]
      /\ pipe[1] = 0 /\ ~ flooded[1] /\ 1 \in Readers
  BY <1>1, FirstReader
<1>3. Read = 0 /\ Len(written) = 0 /\ Len(conversions) = 0 /\ Buffered = <<>> /\ NoLine \in AnyLine
  BY <1>1, <1>2, QuestionsAre DEF Read, Buffered
<1>4. DaemonTypes
  <2>1. 0 \in 0 .. NJobs
    BY BoundsAssumption
  <2> QED BY <1>1, <2>1 DEF DaemonTypes
<1>5. ReaderTypes
  BY <1>1, <1>3 DEF ReaderTypes
<1>6. OneReader
  BY <1>1, <1>2 DEF OneReader
<1>7. Stream
  BY <1>3 DEF Stream
<1>8. DaemonPlace
  BY <1>1, <1>3 DEF DaemonPlace
<1>9. Unread
  BY <1>1, <1>2, <1>3 DEF Unread
<1>10. Exchange
  BY <1>1, <1>2 DEF Exchange
<1>11. Copying
  BY <1>2, <1>3 DEF Copying
<1>12. Converted
  BY <1>3 DEF Converted
<1> QED BY <1>4, <1>5, <1>6, <1>7, <1>8, <1>9, <1>10, <1>11, <1>12 DEF VInv

LEMMA VInvStep ==
  ASSUME VInv, [PrinterNext]_printerVars, Ps2pdf # "missing"
  PROVE  VInv'
<1>1. CASE UNCHANGED printerVars
  <2>1. UNCHANGED <<dpc, asking, job, place, written, fifo, answers>> /\ UNCHANGED readervars
    BY <1>1 DEF printerVars, daemonvars
  <2>2. UNCHANGED <<pc, buf, line, eof, pipe, child, conversions, flooded>>
    BY <2>1 DEF readervars
  <2>3. UNCHANGED daemonvars
    BY <2>1 DEF daemonvars
  <2>4. /\ Stream' /\ DaemonPlace' /\ dpc' = dpc /\ asking' = asking /\ written' = written
        /\ answers' \in {<<>>, <<Question(asking)>>} => DaemonTypes'
        /\ Unread' /\ Read' = Read /\ Grows
        /\ OddBefore(Read)' <=> OddBefore(Read)
    BY <2>1, <2>2, <2>3, StillReader
  <2>5. DaemonTypes'
    BY <2>1, <2>4 DEF VInv, DaemonTypes
  <2>6. ReaderTypes' /\ OneReader'
    BY <2>2 DEF VInv, ReaderTypes, OneReader
  <2>7. Exchange'
    BY <2>1, <2>2, <2>4 DEF VInv, Exchange
  <2>8. Copying'
    BY <2>2, <2>4 DEF VInv, Copying, NextOf
  <2>9. Converted'
    BY <2>2, <2>4, ConvertedStays DEF VInv
  <2> QED BY <2>4, <2>5, <2>6, <2>7, <2>8, <2>9 DEF VInv
<1>2. CASE OpenR \/ OpenW
  BY <1>2, OpeningKeeps
<1>3. CASE Daemon
  BY <1>3, AskKeeps, TakeAnswerKeeps, StartJobKeeps, PrintingKeeps, EndingKeeps DEF Daemon
<1>4. CASE Die
  BY <1>4, EndingKeeps
<1>5. ASSUME NEW p \in Readers, Reader(p) \/ Quit(p)
      PROVE  VInv'
  <2>1. p = 1
    BY <1>5, OnlyReader
  <2>2. CASE Quit(1)
    BY <2>2, QuitKeeps
  <2>3. CASE Reader(1)
    BY <2>3, FillKeeps, ReadCommandKeeps, FinishKeeps, AnswerKeeps, PassOverKeeps, ForkKeeps,
       ReadTextKeeps, CopyKeeps, ClosePipeKeeps, WaitKeeps DEF Reader
  <2> QED BY <1>5, <2>1, <2>2, <2>3
<1> QED BY <1>1, <1>2, <1>3, <1>4, <1>5 DEF PrinterNext

\* The invariant holds of every run in which ps2pdf can be executed: of the
\* exchange of printer_install, of the stream printer_print writes, and of the
\* loops of virt-printer.c that read it.
THEOREM Invariance == Ps2pdf # "missing" => (PrinterSpec => []VInv)
<1> SUFFICES ASSUME Ps2pdf # "missing" PROVE PrinterSpec => []VInv
  OBVIOUS
<1>1. PrinterInit => VInv
  BY VInvInit
<1>2. VInv /\ [PrinterNext]_printerVars => VInv'
  BY VInvStep
<1> QED BY <1>1, <1>2, PTL DEF PrinterSpec

\* The answer that comes to the daemon is to the question it waits on, however
\* the printer's stdio cuts the stream up and whenever either of the two ends:
\* printer_install reads one answer for each question, virt-printer writes one.
THEOREM QuestionsAreAnswered == Ps2pdf # "missing" => (PrinterSpec => []AnswersFitQuestions)
<1>1. VInv => AnswersFitQuestions
  <2> SUFFICES ASSUME VInv, answers # <<>> PROVE AnswersFitQuestions
    BY DEF AnswersFitQuestions
  <2>1. answers = <<Question(asking)>>
    BY DEF VInv, DaemonTypes
  <2>2. dpc \notin {"open_r", "open_w", "ask", "idle", "write"}
    BY DEF VInv, Exchange
  <2>3. dpc \in {"answer"} \cup Gone
    BY <2>2 DEF VInv, DaemonTypes
  <2> QED BY <2>1, <2>3 DEF AnswersFitQuestions
<1>2. []VInv => []AnswersFitQuestions
  BY <1>1, PTL
<1> QED BY <1>2, Invariance

\* A line is what its fields say.
LEMMA LineOf ==
  ASSUME NEW l \in AnyLine
  PROVE  l = Line(l.kind, l.job, l.n)
BY DEF AnyLine, Line

\* A conversion of files without ##END## in their lines is the file of one job.
LEMMA PlainConversion ==
  ASSUME VInv, FilesArePlain, NEW i \in 1 .. Len(conversions)
  PROVE  LET c == conversions[i] IN
           /\ c.first.kind = "##NAME:"
           /\ \A m \in 1 .. Len(c.lines) :
                c.lines[m] = Line("text", c.first.job, c.first.n + m)
           /\ Ended(c) => /\ NextOf(c) <= Len(written)
                          /\ written[NextOf(c)] = Line("##END##", c.first.job, NextOf(c))
<1> DEFINE c == conversions[i]
<1>1. Given(c) /\ c.first \in AnyLine /\ c.lines \in Seq(AnyLine)
  BY ConversionIs DEF VInv, Converted
<1>2. /\ Read \in Nat /\ Read <= Len(written) /\ Len(written) \in Nat
      /\ \A k \in 1 .. Len(written) : written[k] \in AnyLine
  BY Sizes DEF VInv
<1>3. PICK f \in Nat, m \in Nat : f = c.first.n /\ m = Len(c.lines)
  BY ConversionIs DEF VInv
<1>4. PICK w \in Nat : w = Len(written)
  BY <1>2
<1>5. f > 3 /\ f + m <= w /\ NextOf(c) = f + m + 1
  <2>1. f > 3 /\ f + m <= Read
    BY <1>1, <1>3 DEF Given
  <2> QED BY <1>2, <1>3, <1>4, <2>1 DEF NextOf
<1>6. OfOneJob(c)
  <2>1. ~ OddBefore(Read)
    <3>1. \A k \in 1 .. Read : k \in 1 .. Len(written)
      BY <1>2
    <3> QED BY <3>1 DEF OddBefore, FilesArePlain
  <2> QED BY <1>1, <2>1 DEF Given
<1>7. \A k \in 1 .. w : written[k].n = k /\ written[k] = Line(written[k].kind, written[k].job, k)
  BY <1>2, <1>4, LineOf DEF VInv, Stream
<1>8. ASSUME NEW k \in 1 .. m PROVE c.lines[k] = Line("text", c.first.job, f + k)
  <2>1. c.lines[k] = written[f + k]
    BY <1>1, <1>3 DEF Given, GivenTheStream
  <2>2. f + k \in 1 .. w
    BY <1>5
  <2>3. c.lines[k].kind = "text" /\ c.lines[k].job = c.first.job
    BY <1>3, <1>6 DEF OfOneJob
  <2> QED BY <1>7, <2>1, <2>2, <2>3
<1>9. ASSUME Ended(c)
      PROVE  /\ NextOf(c) <= Len(written)
             /\ written[NextOf(c)] = Line("##END##", c.first.job, NextOf(c))
  <2>1. ~ EndsJob(c.first)
    BY <1>6 DEF OfOneJob, EndsJob
  <2>2. NextOf(c) <= Len(written) /\ EndsJob(written[NextOf(c)])
    BY <1>1, <1>9, <2>1 DEF Given, GivenTheStream
  <2>3. PICK e \in 1 .. w : e = NextOf(c) /\ e = f + m + 1
    BY <1>4, <1>5, <2>2
  <2>4. e - 1 = f + m /\ e > 3
    <3>1. e = f + m + 1 /\ f > 3
      BY <1>5, <2>3
    <3> QED BY <3>1
  <2>5. written[e].kind = "##END##"
    BY <1>4, <2>2, <2>3 DEF EndsJob, FilesArePlain, OddKinds
  <2>6. written[e].job = written[e - 1].job
    BY <1>4, <2>4, <2>5 DEF VInv, Stream
  <2>7. written[e - 1].job = c.first.job
    <3>1. CASE m = 0
      <4>1. e - 1 = f
        BY <2>4, <3>1
      <4> QED BY <1>1, <1>3, <4>1 DEF Given
    <3>2. CASE m # 0
      <4>1. m \in 1 .. m
        BY <3>2
      <4>2. c.lines[m] = written[f + m] /\ c.lines[m].job = c.first.job
        BY <1>1, <1>3, <1>6, <4>1 DEF Given, GivenTheStream, OfOneJob
      <4> QED BY <2>4, <4>2
    <3> QED BY <3>1, <3>2
  <2>8. written[e] = Line("##END##", c.first.job, e)
    BY <1>7, <2>5, <2>6, <2>7
  <2> QED BY <2>2, <2>3, <2>8
<1> QED BY <1>3, <1>6, <1>8, <1>9 DEF OfOneJob

\* Each ps2pdf is given a part of what printer_print wrote, from the line it was
\* started for to the next that begins with ##END##; the parts follow each
\* other; and with files that end with a newline and have no line that begins
\* with ##END## each is the file of one job, from its name to its end.
THEOREM JobsAreKeptApart == Ps2pdf # "missing" => (PrinterSpec => []ConvertedInOrder)
<1>1. VInv => ConvertedInOrder
  <2> SUFFICES ASSUME VInv PROVE ConvertedInOrder
    OBVIOUS
  <2>1. \A c \in Conversions : GivenTheStream(c)
    BY DEF Conversions, VInv, Converted, Given
  <2>2. ASSUME NEW i \in 1 .. Len(conversions), NEW k \in 1 .. Len(conversions), i < k
        PROVE  /\ NextOf(conversions[i]) < conversions[k].first.n
               /\ conversions[i].status # "open"
    <3>1. i # pipe[1]
      <4>1. Len(conversions) \in Nat
        BY ConversionIs DEF VInv
      <4>2. i # Len(conversions) /\ i # 0
        BY <2>2, <4>1
      <4> QED BY <4>2 DEF VInv, Copying
    <3> QED BY <2>2, <3>1 DEF VInv, Converted
  <2>3. FilesArePlain => ConversionsAreJobs
    BY PlainConversion DEF ConversionsAreJobs, Conversions
  <2> QED BY <2>1, <2>2, <2>3 DEF ConvertedInOrder
<1>2. []VInv => []ConvertedInOrder
  BY <1>1, PTL
<1> QED BY <1>2, Invariance

\* The printer sends ps2pdf one line for ever only where the ##END## of a job
\* never comes: behind a daemon that ended in printer_print, or behind a file
\* whose last line hides it.
THEOREM FloodMeansCutOff == Ps2pdf # "missing" => (PrinterSpec => []FloodsOnlyWhenCutOff)
<1>1. VInv => FloodsOnlyWhenCutOff
  <2> SUFFICES ASSUME VInv, NEW p \in Readers, flooded[p]
               PROVE  dpc = "cut off" \/ (dpc = "gone" /\ EndIsHidden)
    BY DEF FloodsOnlyWhenCutOff
  <2>1. p = 1
    BY DEF VInv, OneReader
  <2>2. /\ Read > 3 /\ ~ EndsJob(line[1])
        /\ Read = Len(written) /\ dpc \in Gone
    BY <2>1 DEF VInv, Copying
  <2>3. /\ Len(written) \in Nat /\ Len(written) > 3
        /\ line[1] = written[Len(written)] /\ written # <<>>
    <3>1. Len(written) \in Nat /\ (Read # 0 => line[1] = written[Read])
      BY Sizes DEF VInv
    <3>2. Read # 0 /\ Len(written) # 0
      BY <2>2, <3>1
    <3>3. written # <<>>
      BY <3>2
    <3> QED BY <2>2, <3>1, <3>2, <3>3
  <2>4. CASE dpc = "gone"
    <3>1. written[Len(written)].kind \in FileEnds
      BY <2>3, <2>4 DEF VInv, DaemonPlace
    <3>2. written[Len(written)].kind = "text##END##"
      BY <2>2, <2>3, <3>1, KindsDiffer DEF EndsJob
    <3> QED BY <2>3, <2>4, <3>2 DEF EndIsHidden
  <2>5. dpc = "gone" \/ dpc = "cut off"
    BY <2>2 DEF Gone
  <2> QED BY <2>4, <2>5
<1>2. []VInv => []FloodsOnlyWhenCutOff
  BY <1>1, PTL
<1> QED BY <1>2, Invariance
=============================================================================
