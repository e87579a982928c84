------------------------- MODULE PrintServer_proofs -------------------------
(***************************************************************************)
(* Proofs about PrintServer, for every set of clients and of groups, every *)
(* order of the printers, every backlog and every bound on the jobs: the   *)
(* daemon works on the queues as JobQueues allows, so that what is proved  *)
(* of the queues holds of the daemon, and a job keeps its client, its      *)
(* group and its place from the connection to the printer.                 *)
(***************************************************************************)
EXTENDS PrintServer, SequenceTheorems, TLAPS

JQP == INSTANCE JobQueues_proofs

-----------------------------------------------------------------------------
(* The inductive invariant, in parts.                                      *)

Calls == {"idle", "connected", "asked", "waiting", "success", "killed",
          "failed", "listed", "garbled"}
Blocks == {"MKJOB", "GETDRIVERS", "job"}

ClientTypes ==
  /\ pc \in [Clients -> Calls]
  /\ request \in [Clients -> Inputs]
  /\ inbox \in [Clients -> Seq(Blocks)]
  /\ arrived \in Seq(Clients)
  /\ backlog \in Seq(Clients)

ServerTypes ==
  /\ spc \in {"accept", "read", "meta", "reply", "work", "consume", "crashed"}
  /\ connfd \in Clients \cup {NoClient}
  /\ produce \in BOOLEAN
  /\ cursor \in 1 .. Len(PrinterGroup) + 1
  /\ asked \in Seq(Clients)
  /\ job_number \in Nat
  /\ sent \in [Groups -> Seq(Nat)]

Types == ClientTypes /\ ServerTypes

\* How many connections the daemon has accepted.
Accepted == Len(arrived) - Len(backlog)

\* Each client connects once, and the backlog holds the latest connections.
Arrivals ==
  /\ Accepted \in Nat
  /\ \A i \in 1 .. Len(backlog) : backlog[i] = arrived[Accepted + i]
  /\ \A i, k \in 1 .. Len(arrived) : arrived[i] = arrived[k] => i = k
  /\ \A i \in 1 .. Len(arrived) : pc[arrived[i]] # "idle"

\* The daemon has read nothing of the client c so far.
Unread(c) ==
  \/ \A p \in 1 .. Accepted : arrived[p] # c
  \/ spc = "read" /\ connfd = c

\* What is in the inbox of the client c, by its place in the call: the fields
\* of a job come only after the command, and only from a call that succeeds.
Posted(c) ==
  /\ pc[c] \in {"idle", "connected"} => inbox[c] = <<>>
  /\ pc[c] \in {"asked", "success"} => request[c].cmd = "MKJOB"
  /\ pc[c] = "success" => request[c].description # "null"
  /\ \A i \in 1 .. Len(inbox[c]) : inbox[c][i] = "job" => pc[c] = "success"
  /\ \A i \in 2 .. Len(inbox[c]) : inbox[c][i] = "job"
  /\ Unread(c) /\ pc[c] \in {"asked", "success"}
       => inbox[c] # <<>> /\ inbox[c][1] = "MKJOB"

\* Where the daemon is between the two reads of a turn.
Reading ==
  /\ spc = "meta" =>
       /\ connfd \in Clients
       /\ pc[connfd] \notin {"idle", "connected"}
       /\ \A i \in 1 .. Len(inbox[connfd]) : inbox[connfd][i] = "job"
  /\ spc = "reply" =>
       /\ connfd \in Clients
       /\ pc[connfd] \notin {"idle", "connected", "asked", "success"}
  /\ spc \in {"read", "meta", "reply"} => jobstr = NoInput

\* Jobs are composed in the order of the connections, at most one for each.
Asking ==
  /\ \A i \in 1 .. Len(asked) : \E p \in 1 .. Accepted : arrived[p] = asked[i]
  /\ \A i, k \in 1 .. Len(asked) : \A p, q \in 1 .. Len(arrived) :
       i < k /\ arrived[p] = asked[i] /\ arrived[q] = asked[k] => p < q
  /\ spc \in {"read", "meta"} /\ connfd # NoClient =>
       /\ Accepted # 0 /\ connfd = arrived[Accepted]
       /\ \A i \in 1 .. Len(asked) : asked[i] # connfd

\* Input is composed of the fields of its client, or of none at all, and each
\* takes one job number.
Composition ==
  /\ Len(asked) = job_number + (IF Composing THEN 1 ELSE 0)
  /\ Composing =>
       \/ jobstr = Blank
       \/ LET c == asked[job_number + 1]
          IN  /\ pc[c] = "success"
              /\ jobstr = [group |-> request[c].group,
                           description |-> request[c].description]

\* Each job in a queue is the input of its own client.
SentAsAsked ==
  \A g \in Groups : \A i \in 1 .. Len(sent[g]) :
    /\ sent[g][i] < job_number
    /\ LET c == asked[sent[g][i] + 1]
       IN  /\ pc[c] = "success"
           /\ request[c].group = g /\ request[c].description = "text"

PSInv ==
  /\ Types
  /\ Arrivals
  /\ \A c \in Clients : Posted(c)
  /\ Reading
  /\ Asking
  /\ Composition
  /\ SentAsAsked

-----------------------------------------------------------------------------
(* The clients.                                                            *)

\* The lengths of the sequences and the inputs of the queued jobs.
LEMMA Sizes ==
  ASSUME Types
  PROVE  Len(arrived) \in Nat /\ Len(backlog) \in Nat /\ Len(asked) \in Nat
BY LenProperties DEF Types, ClientTypes, ServerTypes

\* A job that is queued was composed of the input of some client.
LEMMA InputOf ==
  ASSUME Types, Composition, SentAsAsked,
         NEW g \in Groups, NEW i \in 1 .. Len(sent[g])
  PROVE  sent[g][i] + 1 \in 1 .. Len(asked) /\ asked[sent[g][i] + 1] \in Clients
<1>1. sent[g][i] \in Nat /\ sent[g][i] < job_number
  BY ElementOfSeq DEF Types, ServerTypes, SentAsAsked
<1>2. job_number =< Len(asked) /\ Len(asked) \in Nat /\ job_number \in Nat
  BY Sizes DEF Types, ServerTypes, Composition
<1>3. sent[g][i] + 1 \in 1 .. Len(asked)
  BY <1>1, <1>2
<1> QED BY <1>3, ElementOfSeq DEF Types, ServerTypes

\* A call that goes on disturbs nothing but what is said of its own inbox, as
\* long as it has not succeeded and is not being answered.
LEMMA CallGoesOn ==
  ASSUME PSInv, NEW c \in Clients,
         NEW n \in Calls \ {"idle", "connected"}, NEW x \in Seq(Blocks),
         Go(c, n), inbox' = [inbox EXCEPT ![c] = x],
         UNCHANGED <<request, arrived, backlog, servervars, jqvars>>,
         pc[c] # "success",
         spc = "reply" => connfd # c,
         spc = "meta" /\ connfd = c => \A i \in 1 .. Len(x) : x[i] = "job",
         Posted(c)'
  PROVE  PSInv'
<1>1. /\ pc \in [Clients -> Calls] /\ inbox \in [Clients -> Seq(Blocks)]
      /\ pc'[c] = n /\ inbox'[c] = x
      /\ \A d \in Clients : d # c => pc'[d] = pc[d] /\ inbox'[d] = inbox[d]
  BY DEF PSInv, Types, ClientTypes, Go
<1>2. /\ request' = request /\ arrived' = arrived /\ backlog' = backlog
      /\ spc' = spc /\ connfd' = connfd /\ produce' = produce /\ jobstr' = jobstr
      /\ cursor' = cursor /\ asked' = asked
      /\ job_number' = job_number /\ sent' = sent
  BY DEF servervars, jqvars
<1>3. Types'
  <2>1. ClientTypes'
    BY <1>2 DEF PSInv, Types, ClientTypes, Go
  <2>2. ServerTypes'
    BY <1>2 DEF PSInv, Types, ServerTypes
  <2> QED BY <2>1, <2>2 DEF Types
<1>4. Arrivals'
  <2>1. \A i \in 1 .. Len(arrived) : pc'[arrived[i]] # "idle"
    <3>1. \A i \in 1 .. Len(arrived) : arrived[i] \in Clients
      BY ElementOfSeq DEF PSInv, Types, ClientTypes
    <3> QED BY <1>1, <3>1 DEF PSInv, Arrivals
  <2> QED BY <1>2, <2>1 DEF PSInv, Arrivals, Accepted
<1>5. ASSUME NEW d \in Clients PROVE Posted(d)'
  <2>1. CASE d = c
    BY <2>1
  <2>2. CASE d # c
    <3>1. Posted(d)
      BY DEF PSInv
    <3>2. Unread(d)' = Unread(d)
      BY <1>2 DEF Unread, Accepted
    <3> QED BY <1>1, <1>2, <2>2, <3>1, <3>2 DEF Posted
  <2> QED BY <2>1, <2>2
<1>6. Reading'
  BY <1>1, <1>2 DEF PSInv, Reading
<1>7. Asking'
  BY <1>2 DEF PSInv, Asking, Accepted
<1>8. \A d \in Clients : pc[d] = "success" => pc'[d] = "success"
  BY <1>1
<1>9. Composition'
  <2>1. Composing' = Composing
    BY <1>2 DEF Composing
  <2>2. Composing => asked[job_number + 1] \in Clients
    <3>1. Composing => job_number + 1 \in 1 .. Len(asked)
      BY Sizes DEF PSInv, Types, ServerTypes, Composition
    <3> QED BY <3>1, ElementOfSeq DEF PSInv, Types, ServerTypes
  <2> QED BY <1>2, <1>8, <2>1, <2>2 DEF PSInv, Composition
<1>10. SentAsAsked'
  <2>1. \A g \in Groups : \A i \in 1 .. Len(sent[g]) :
          asked[sent[g][i] + 1] \in Clients
    BY InputOf DEF PSInv
  <2> QED BY <1>2, <1>8, <2>1 DEF PSInv, SentAsAsked
<1> QED BY <1>3, <1>4, <1>5, <1>6, <1>7, <1>9, <1>10 DEF PSInv

\* A client that connects keeps the invariant.
LEMMA ConnectKeeps ==
  ASSUME PSInv, NEW c \in Clients, Connect(c)
  PROVE  PSInv'
<1>1. /\ pc \in [Clients -> Calls] /\ pc[c] = "idle" /\ pc'[c] = "connected"
      /\ \A d \in Clients : d # c => pc'[d] = pc[d]
      /\ arrived' = Append(arrived, c) /\ backlog' = Append(backlog, c)
      /\ request' = request /\ inbox' = inbox /\ spc' = spc /\ connfd' = connfd
      /\ produce' = produce /\ jobstr' = jobstr /\ cursor' = cursor
      /\ asked' = asked /\ job_number' = job_number /\ sent' = sent
  BY DEF PSInv, Types, ClientTypes, Connect, Go, servervars, jqvars
<1>2. arrived \in Seq(Clients) /\ backlog \in Seq(Clients) /\ asked \in Seq(Clients)
  BY DEF PSInv, Types, ClientTypes, ServerTypes
<1>3. PICK m \in Nat : m = Len(arrived)
  BY <1>2, LenProperties
<1>4. PICK b \in Nat : b = Len(backlog)
  BY <1>2, LenProperties
<1>5. /\ arrived' \in Seq(Clients) /\ Len(arrived') = m + 1 /\ arrived'[m + 1] = c
      /\ \A i \in 1 .. m : arrived'[i] = arrived[i] /\ arrived[i] \in Clients
  BY <1>1, <1>2, <1>3, AppendProperties, ElementOfSeq
<1>6. /\ backlog' \in Seq(Clients) /\ Len(backlog') = b + 1 /\ backlog'[b + 1] = c
      /\ \A i \in 1 .. b : backlog'[i] = backlog[i]
  BY <1>1, <1>2, <1>4, AppendProperties
<1>7. PICK a \in Nat : a = Accepted /\ a = m - b
  BY <1>3, <1>4 DEF PSInv, Arrivals, Accepted
<1>8. Accepted' = a
  BY <1>5, <1>6, <1>7 DEF Accepted
<1>9. \A i \in 1 .. m : arrived[i] # c
  BY <1>1, <1>3 DEF PSInv, Arrivals
<1>10. a =< m
  BY <1>7
<1>11. \A i \in 1 .. m + 1 : i \in 1 .. m \/ i = m + 1
  OBVIOUS
<1>12. Types'
  BY <1>1, <1>5, <1>6 DEF PSInv, Types, ClientTypes, ServerTypes, Connect, Go, Calls
<1>13. Arrivals'
  <2>1. Accepted' \in Nat
    BY <1>8
  <2>2. ASSUME NEW i \in 1 .. b + 1 PROVE backlog'[i] = arrived'[a + i]
    <3>1. CASE i \in 1 .. b
      <4>1. a + i \in 1 .. m
        BY <1>7, <3>1
      <4> QED BY <1>4, <1>5, <1>6, <1>7, <3>1, <4>1 DEF PSInv, Arrivals
    <3>2. CASE i = b + 1
      <4>1. a + i = m + 1
        BY <1>7, <3>2
      <4> QED BY <1>5, <1>6, <3>2, <4>1
    <3> QED BY <3>1, <3>2
  <2>3. ASSUME NEW i \in 1 .. m + 1, NEW k \in 1 .. m + 1, arrived'[i] = arrived'[k]
        PROVE  i = k
    <3>1. CASE i \in 1 .. m /\ k \in 1 .. m
      BY <1>3, <1>5, <2>3, <3>1 DEF PSInv, Arrivals
    <3>2. CASE i = m + 1 /\ k = m + 1
      BY <3>2
    <3>3. CASE i = m + 1 /\ k \in 1 .. m
      BY <1>5, <1>9, <2>3, <3>3
    <3>4. CASE i \in 1 .. m /\ k = m + 1
      BY <1>5, <1>9, <2>3, <3>4
    <3> QED BY <1>11, <3>1, <3>2, <3>3, <3>4
  <2>4. ASSUME NEW i \in 1 .. m + 1 PROVE pc'[arrived'[i]] # "idle"
    <3>1. CASE i = m + 1
      BY <1>1, <1>5, <3>1
    <3>2. CASE i \in 1 .. m
      BY <1>1, <1>3, <1>5, <1>9, <3>2 DEF PSInv, Arrivals
    <3> QED BY <1>11, <3>1, <3>2
  <2> QED BY <1>5, <1>6, <1>8, <2>1, <2>2, <2>3, <2>4 DEF Arrivals
<1>14. \A p \in 1 .. a : arrived'[p] = arrived[p]
  BY <1>5, <1>10
<1>15. ASSUME NEW d \in Clients PROVE Posted(d)'
  <2>1. Posted(d)
    BY DEF PSInv
  <2>2. Unread(d)' => Unread(d)
    BY <1>1, <1>7, <1>8, <1>14 DEF Unread
  <2>3. pc'[d] = pc[d] \/ (pc[d] = "idle" /\ pc'[d] = "connected")
    BY <1>1
  <2>4. \A i \in 1 .. Len(inbox[d]) : inbox[d][i] = "job" => pc'[d] = "success"
    BY <2>1, <2>3 DEF Posted
  <2> QED BY <1>1, <2>1, <2>2, <2>3, <2>4 DEF Posted
<1>16. Reading'
  BY <1>1 DEF PSInv, Reading
<1>17. Asking'
  <2>1. \A i \in 1 .. Len(asked) : \E p \in 1 .. a : arrived'[p] = asked[i]
    BY <1>7, <1>14 DEF PSInv, Asking
  <2>2. ASSUME NEW i \in 1 .. Len(asked) PROVE asked[i] # c
    <3>1. PICK p \in 1 .. a : arrived[p] = asked[i]
      BY <1>7 DEF PSInv, Asking
    <3>2. p \in 1 .. m
      BY <1>10, <3>1
    <3> QED BY <1>9, <3>1, <3>2
  <2>3. ASSUME NEW i \in 1 .. Len(asked), NEW k \in 1 .. Len(asked),
               NEW p \in 1 .. m + 1, NEW q \in 1 .. m + 1,
               i < k, arrived'[p] = asked[i], arrived'[q] = asked[k]
        PROVE  p < q
    <3>1. p \in 1 .. m /\ q \in 1 .. m
      BY <1>5, <1>11, <2>2, <2>3
    <3> QED BY <1>3, <1>5, <2>3, <3>1 DEF PSInv, Asking
  <2>4. spc \in {"read", "meta"} /\ connfd # NoClient => a # 0 /\ connfd = arrived'[a]
    BY <1>7, <1>14 DEF PSInv, Asking
  <2>5. spc \in {"read", "meta"} /\ connfd # NoClient =>
          \A i \in 1 .. Len(asked) : asked[i] # connfd
    BY DEF PSInv, Asking
  <2>6. /\ Len(asked') = Len(asked) /\ Len(arrived') = m + 1 /\ Accepted' = a
        /\ asked' = asked /\ spc' = spc /\ connfd' = connfd
    BY <1>1, <1>5, <1>8
  <2>7. \A i \in 1 .. Len(asked') : \E p \in 1 .. Accepted' : arrived'[p] = asked'[i]
    BY <2>1, <2>6
  <2>8. \A i, k \in 1 .. Len(asked') : \A p, q \in 1 .. Len(arrived') :
          i < k /\ arrived'[p] = asked'[i] /\ arrived'[q] = asked'[k] => p < q
    BY <2>3, <2>6
  <2>9. spc' \in {"read", "meta"} /\ connfd' # NoClient =>
          /\ Accepted' # 0 /\ connfd' = arrived'[Accepted']
          /\ \A i \in 1 .. Len(asked') : asked'[i] # connfd'
    BY <2>4, <2>5, <2>6
  <2> QED BY <2>7, <2>8, <2>9, Zenon DEF Asking
<1>18. \A d \in Clients : pc[d] = "success" => pc'[d] = "success"
  BY <1>1
<1>19. Composition'
  <2>1. Composing' = Composing
    BY <1>1 DEF Composing
  <2>2. Composing => asked[job_number + 1] \in Clients
    <3>1. Composing => job_number + 1 \in 1 .. Len(asked)
      BY Sizes DEF PSInv, Types, ServerTypes, Composition
    <3> QED BY <3>1, ElementOfSeq DEF PSInv, Types, ServerTypes
  <2> QED BY <1>1, <1>18, <2>1, <2>2 DEF PSInv, Composition
<1>20. SentAsAsked'
  <2>1. \A g \in Groups : \A i \in 1 .. Len(sent[g]) :
          asked[sent[g][i] + 1] \in Clients
    BY InputOf DEF PSInv
  <2> QED BY <1>1, <1>18, <2>1 DEF PSInv, SentAsAsked
<1> QED BY <1>12, <1>13, <1>15, <1>16, <1>17, <1>19, <1>20 DEF PSInv

\* A client that sends its command keeps the invariant.
LEMMA SendCommandKeeps ==
  ASSUME PSInv, NEW c \in Clients, SendCommand(c)
  PROVE  PSInv'
<1> DEFINE x == <<request[c].cmd>>
<1> DEFINE n == IF request[c].cmd = "MKJOB" THEN "asked" ELSE "waiting"
<1>1. /\ pc \in [Clients -> Calls] /\ inbox \in [Clients -> Seq(Blocks)]
      /\ pc[c] = "connected" /\ spc # "crashed" /\ Go(c, n)
      /\ UNCHANGED <<request, arrived, backlog, servervars, jqvars>>
  BY DEF PSInv, Types, ClientTypes, SendCommand
<1>2. inbox[c] = <<>>
  BY <1>1 DEF PSInv, Posted
<1>3. request[c].cmd \in {"MKJOB", "GETDRIVERS"}
  BY InputsAssumption DEF PSInv, Types, ClientTypes, Requests
<1>4. x \in Seq(Blocks) /\ Len(x) = 1 /\ x[1] = request[c].cmd
  BY <1>3 DEF Blocks
<1>5. inbox' = [inbox EXCEPT ![c] = x]
  <2>1. Append(<<>>, request[c].cmd) = x
    OBVIOUS
  <2> QED BY <1>2, <2>1 DEF SendCommand
<1>6. n \in Calls \ {"idle", "connected"}
  BY DEF Calls
<1>7. Posted(c)'
  <2>1. pc'[c] = n /\ inbox'[c] = x /\ request' = request
    BY <1>1, <1>5 DEF Go
  <2>2. x # <<>>
    OBVIOUS
  <2> QED BY <1>3, <1>4, <2>1, <2>2 DEF Posted
<1>8. (spc = "reply" => connfd # c) /\ (spc = "meta" => connfd # c)
  BY <1>1 DEF PSInv, Reading
<1> HIDE DEF x, n
<1> QED BY <1>1, <1>4, <1>5, <1>6, <1>7, <1>8, CallGoesOn

\* A client that sends its job keeps the invariant.
LEMMA SendJobKeeps ==
  ASSUME PSInv, NEW c \in Clients, SendJob(c)
  PROVE  PSInv'
<1> DEFINE x == Append(inbox[c], "job")
<1>1. /\ pc \in [Clients -> Calls] /\ inbox \in [Clients -> Seq(Blocks)]
      /\ pc[c] = "asked" /\ Go(c, "success") /\ request[c].description # "null"
      /\ inbox' = [inbox EXCEPT ![c] = x]
      /\ UNCHANGED <<request, arrived, backlog, servervars, jqvars>>
  BY DEF PSInv, Types, ClientTypes, SendJob
<1>2. PICK m \in Nat : m = Len(inbox[c])
  BY <1>1, LenProperties
<1>3. /\ x \in Seq(Blocks) /\ Len(x) = m + 1 /\ x[m + 1] = "job"
      /\ \A i \in 1 .. m : x[i] = inbox[c][i]
  BY <1>1, <1>2, AppendProperties DEF Blocks
<1>4. Posted(c)
  BY DEF PSInv
<1>5. \A i \in 1 .. m + 1 : i \in 1 .. m \/ i = m + 1
  OBVIOUS
<1>6. \A i \in 2 .. m + 1 : x[i] = "job"
  <2>1. \A i \in 2 .. m + 1 : (i \in 2 .. m /\ i \in 1 .. m) \/ i = m + 1
    OBVIOUS
  <2> QED BY <1>2, <1>3, <1>4, <2>1 DEF Posted
<1>7. pc'[c] = "success" /\ inbox'[c] = x /\ request' = request
  BY <1>1 DEF Go
<1>8. Unread(c)' => x # <<>> /\ x[1] = "MKJOB"
  <2>1. Unread(c)' = Unread(c)
    BY <1>1 DEF Unread, Accepted, servervars
  <2>2. Unread(c) => inbox[c] # <<>> /\ inbox[c][1] = "MKJOB"
    BY <1>1, <1>4 DEF Posted
  <2>3. inbox[c] # <<>> => 1 \in 1 .. m
    BY <1>1, <1>2, EmptySeq
  <2>4. x # <<>>
    <3>1. Len(x) # 0
      BY <1>3
    <3> QED BY <3>1, EmptySeq
  <2> QED BY <1>3, <2>1, <2>2, <2>3, <2>4
<1>9. Posted(c)'
  <2> HIDE DEF x
  <2>1. request[c].cmd = "MKJOB"
    BY <1>1, <1>4 DEF Posted
  <2> QED BY <1>1, <1>3, <1>6, <1>7, <1>8, <2>1 DEF Posted
<1>10. spc = "reply" => connfd # c
  BY <1>1 DEF PSInv, Reading
<1>11. spc = "meta" /\ connfd = c => \A i \in 1 .. m + 1 : x[i] = "job"
  BY <1>2, <1>3, <1>5 DEF PSInv, Reading
<1>12. "success" \in Calls \ {"idle", "connected"}
  BY DEF Calls
<1> HIDE DEF x
<1> QED BY <1>1, <1>3, <1>9, <1>10, <1>11, <1>12, CallGoesOn

\* A call that ends without sending: the null description, or no daemon.
LEMMA EndKeeps ==
  ASSUME PSInv, NEW c \in Clients, DescriptionIsNull(c) \/ Fail(c)
  PROVE  PSInv'
<1> DEFINE n == IF DescriptionIsNull(c) THEN "killed" ELSE "failed"
<1>1. /\ pc \in [Clients -> Calls] /\ inbox \in [Clients -> Seq(Blocks)]
      /\ pc[c] \in {"idle", "connected", "asked", "waiting"}
      /\ pc[c] = "asked" \/ spc = "crashed"
      /\ Go(c, n) /\ inbox' = inbox
      /\ UNCHANGED <<request, arrived, backlog, servervars, jqvars>>
  BY DEF PSInv, Types, ClientTypes, DescriptionIsNull, Fail
<1>2. n \in Calls \ {"idle", "connected"} /\ n \notin {"asked", "success"}
  BY DEF Calls
<1>3. inbox[c] \in Seq(Blocks) /\ inbox' = [inbox EXCEPT ![c] = inbox[c]]
  BY <1>1
<1>4. Posted(c)'
  <2>1. pc'[c] = n /\ inbox'[c] = inbox[c] /\ request' = request
    BY <1>1 DEF Go
  <2>2. Posted(c)
    BY DEF PSInv
  <2> HIDE DEF n
  <2> QED BY <1>1, <1>2, <2>1, <2>2 DEF Posted
<1>5. /\ spc = "reply" => connfd # c
      /\ spc = "meta" /\ connfd = c => \A i \in 1 .. Len(inbox[c]) : inbox[c][i] = "job"
  BY <1>1 DEF PSInv, Reading
<1> HIDE DEF n
<1> QED BY <1>1, <1>2, <1>3, <1>4, <1>5, CallGoesOn

-----------------------------------------------------------------------------
(* The daemon.                                                             *)

\* A step of the daemon that reads nothing disturbs only what is said of the
\* input and of the queues.
LEMMA WorkGoesOn ==
  ASSUME PSInv, UNCHANGED <<clientvars, inbox, backlog, connfd, asked>>,
         spc' \in {"accept", "work", "consume", "crashed"},
         produce' \in BOOLEAN, cursor' \in 1 .. Len(PrinterGroup) + 1,
         job_number' \in Nat, sent' \in [Groups -> Seq(Nat)],
         Composition', SentAsAsked'
  PROVE  PSInv'
<1>1. /\ pc' = pc /\ request' = request /\ inbox' = inbox /\ arrived' = arrived
      /\ backlog' = backlog /\ connfd' = connfd /\ asked' = asked
      /\ spc' \notin {"read", "meta", "reply"}
  BY DEF clientvars
<1>2. Types'
  BY <1>1 DEF PSInv, Types, ClientTypes, ServerTypes
<1>3. Accepted' = Accepted
  BY <1>1 DEF Accepted
<1>4. Arrivals'
  BY <1>1, <1>3 DEF PSInv, Arrivals
<1>5. ASSUME NEW c \in Clients PROVE Posted(c)'
  <2>1. Unread(c)' => Unread(c)
    BY <1>1, <1>3 DEF Unread
  <2> QED BY <1>1, <2>1 DEF PSInv, Posted
<1>6. Reading'
  BY <1>1 DEF Reading
<1>7. Asking'
  BY <1>1, <1>3 DEF PSInv, Asking
<1> QED BY <1>2, <1>4, <1>5, <1>6, <1>7 DEF PSInv

\* Without input composed before or after it, a step that gives no job a
\* number or a place in a queue keeps what is said of those.
LEMMA NothingComposed ==
  ASSUME PSInv, UNCHANGED <<clientvars, asked, job_number, sent>>,
         ~ Composing, ~ Composing'
  PROVE  Composition' /\ SentAsAsked' /\ job_number' \in Nat
           /\ sent' \in [Groups -> Seq(Nat)]
<1>1. /\ pc' = pc /\ request' = request /\ asked' = asked
      /\ job_number' = job_number /\ sent' = sent
  BY DEF clientvars
<1>2. Composition'
  BY <1>1 DEF PSInv, Composition
<1>3. SentAsAsked'
  BY <1>1 DEF PSInv, SentAsAsked
<1> QED BY <1>1, <1>2, <1>3 DEF PSInv, Types, ServerTypes

\* Accepting a connection keeps the invariant.
LEMMA AcceptKeeps ==
  ASSUME PSInv, Accept
  PROVE  PSInv'
<1>1. /\ spc = "accept" /\ spc' = "read" /\ jobstr' = NoInput
      /\ pc' = pc /\ request' = request /\ inbox' = inbox /\ arrived' = arrived
      /\ asked' = asked /\ produce' = produce /\ cursor' = cursor
      /\ job_number' = job_number /\ sent' = sent
  BY DEF Accept, clientvars, jqvars
<1>2. arrived \in Seq(Clients) /\ backlog \in Seq(Clients) /\ asked \in Seq(Clients)
  BY DEF PSInv, Types, ClientTypes, ServerTypes
<1>3. PICK m \in Nat : m = Len(arrived)
  BY <1>2, LenProperties
<1>4. PICK b \in Nat : b = Len(backlog)
  BY <1>2, LenProperties
<1>5. PICK a \in Nat : a = Accepted /\ a = m - b
  BY <1>3, <1>4 DEF PSInv, Arrivals, Accepted
<1>6. ~ Composing /\ ~ Composing'
  BY <1>1 DEF Composing
<1>7. Composition' /\ SentAsAsked'
  BY <1>1, <1>6, NothingComposed DEF clientvars
<1>8. Reading'
  BY <1>1 DEF Reading
<1>9. \A i, k \in 1 .. m : arrived[i] = arrived[k] => i = k
  BY <1>3 DEF PSInv, Arrivals
<1>10. \A i \in 1 .. Len(asked) : \E p \in 1 .. a : arrived[p] = asked[i]
  BY <1>5 DEF PSInv, Asking
<1>11. CASE backlog = <<>>
  <2>1. connfd' = NoClient /\ backlog' = backlog
    BY <1>11 DEF Accept
  <2>2. Accepted' = a
    BY <1>1, <1>5, <2>1 DEF Accepted
  <2>3. Types'
    BY <1>1, <2>1 DEF PSInv, Types, ClientTypes, ServerTypes
  <2>4. Arrivals'
    BY <1>1, <1>5, <2>1, <2>2 DEF PSInv, Arrivals
  <2>5. ASSUME NEW c \in Clients PROVE Posted(c)'
    <3>1. c # NoClient
      BY ConfigAssumption
    <3>2. Unread(c)' => Unread(c)
      BY <1>1, <1>5, <2>1, <2>2, <3>1 DEF Unread
    <3> QED BY <1>1, <3>2 DEF PSInv, Posted
  <2>6. Asking'
    BY <1>1, <1>5, <2>1, <2>2 DEF PSInv, Asking
  <2> QED BY <1>7, <1>8, <2>3, <2>4, <2>5, <2>6 DEF PSInv
<1>12. CASE backlog # <<>>
  <2>1. connfd' = Head(backlog) /\ backlog' = Tail(backlog)
    BY <1>12 DEF Accept
  <2>2. b # 0 /\ Head(backlog) = backlog[1]
    BY <1>2, <1>4, <1>12, EmptySeq
  <2>3. /\ backlog' \in Seq(Clients) /\ Len(backlog') = b - 1
        /\ \A i \in 1 .. b - 1 : backlog'[i] = backlog[i + 1]
    BY <1>2, <1>4, <1>12, <2>1, HeadTailProperties
  <2>4. Accepted' = a + 1
    BY <1>1, <1>3, <1>5, <2>2, <2>3, SMTT(30) DEF Accepted
  <2>5. a + 1 \in 1 .. m
    BY <1>5, <2>2
  <2>6. connfd' = arrived[a + 1]
    <3>1. 1 \in 1 .. b
      BY <2>2
    <3> QED BY <1>4, <1>5, <2>1, <2>2, <3>1 DEF PSInv, Arrivals
  <2>7. connfd' \in Clients
    BY <1>2, <1>3, <2>5, <2>6, ElementOfSeq
  <2>8. \A p \in 1 .. a : arrived[p] # connfd'
    <3>1. \A p \in 1 .. a : p \in 1 .. m /\ p # a + 1
      BY <2>5
    <3> QED BY <1>9, <2>5, <2>6, <3>1
  <2>9. \A p \in 1 .. a : p \in 1 .. a + 1
    OBVIOUS
  <2>10. Types'
    BY <1>1, <2>3, <2>7 DEF PSInv, Types, ClientTypes, ServerTypes
  <2>11. Arrivals'
    <3>1. ASSUME NEW i \in 1 .. b - 1
          PROVE  backlog'[i] = arrived[(a + 1) + i]
      <4>1. i + 1 \in 1 .. b /\ a + (i + 1) = (a + 1) + i
        OBVIOUS
      <4>2. backlog[i + 1] = arrived[a + (i + 1)]
        BY <1>4, <1>5, <4>1 DEF PSInv, Arrivals
      <4> QED BY <2>3, <4>1, <4>2
    <3>2. Accepted' \in Nat
      BY <2>4
    <3> QED BY <1>1, <2>3, <2>4, <3>1, <3>2 DEF PSInv, Arrivals
  <2>12. ASSUME NEW c \in Clients PROVE Posted(c)'
    <3>1. Unread(c)' => Unread(c)
      BY <1>1, <1>5, <2>4, <2>8, <2>9 DEF Unread
    <3> QED BY <1>1, <3>1 DEF PSInv, Posted
  <2>13. Asking'
    <3>1. \A i \in 1 .. Len(asked) : \E p \in 1 .. Accepted' : arrived[p] = asked[i]
      BY <1>10, <2>4, <2>9
    <3>2. Accepted' # 0 /\ connfd' = arrived[Accepted']
      BY <2>4, <2>6
    <3>3. \A i \in 1 .. Len(asked) : asked[i] # connfd'
      BY <1>10, <2>8
    <3> QED BY <1>1, <3>1, <3>2, <3>3 DEF PSInv, Asking
  <2> QED BY <1>7, <1>8, <2>10, <2>11, <2>12, <2>13 DEF PSInv
<1> QED BY <1>11, <1>12

\* Reading a command keeps the invariant.
LEMMA ReadCommandKeeps ==
  ASSUME PSInv, ReadCommand
  PROVE  PSInv'
<1>1. /\ spc = "read" /\ jobstr = NoInput
      /\ pc' = pc /\ request' = request /\ arrived' = arrived /\ backlog' = backlog
      /\ connfd' = connfd /\ produce' = produce /\ jobstr' = jobstr
      /\ cursor' = cursor /\ asked' = asked /\ job_number' = job_number /\ sent' = sent
  BY DEF ReadCommand, clientvars, jqvars, PSInv, Reading
<1>2. ~ Composing /\ ~ Composing'
  BY <1>1 DEF Composing
<1>3. Composition' /\ SentAsAsked' /\ job_number' \in Nat
        /\ sent' \in [Groups -> Seq(Nat)]
  BY <1>1, <1>2, NothingComposed DEF clientvars
<1>4. CASE ~ Readable
  <2>1. spc' = "work" /\ inbox' = inbox
    BY <1>4 DEF ReadCommand
  <2>2. produce' \in BOOLEAN /\ cursor' \in 1 .. Len(PrinterGroup) + 1
    BY <1>1 DEF PSInv, Types, ServerTypes
  <2> QED BY <1>1, <1>3, <2>1, <2>2, WorkGoesOn DEF clientvars
<1>5. CASE Readable
  <2> DEFINE c == connfd
  <2>1. /\ c \in Clients /\ inbox[c] \in Seq(Blocks) /\ inbox[c] # <<>>
        /\ inbox \in [Clients -> Seq(Blocks)]
    BY <1>5 DEF Readable, PSInv, Types, ClientTypes, ServerTypes
  <2>2. PICK m \in Nat : m = Len(inbox[c])
    BY <2>1, LenProperties
  <2>3. /\ Tail(inbox[c]) \in Seq(Blocks) /\ Len(Tail(inbox[c])) = m - 1
        /\ \A i \in 1 .. m - 1 : Tail(inbox[c])[i] = inbox[c][i + 1]
        /\ Head(inbox[c]) = inbox[c][1]
    BY <2>1, <2>2, HeadTailProperties
  <2>4. Posted(c) /\ Unread(c)
    BY <1>1, <2>1 DEF PSInv, Unread
  <2>5. pc[c] \in {"asked", "success"} => Head(inbox[c]) = "MKJOB"
    BY <2>3, <2>4 DEF Posted
  <2>6. pc[c] \notin {"idle", "connected"}
    BY <2>1, <2>4 DEF Posted
  <2>7. \A i \in 1 .. m - 1 : Tail(inbox[c])[i] = "job"
    <3>1. \A i \in 1 .. m - 1 : i + 1 \in 2 .. m
      BY <2>2
    <3> QED BY <2>2, <2>3, <2>4, <3>1 DEF Posted
  <2>8. /\ inbox'[c] = Tail(inbox[c]) /\ inbox' \in [Clients -> Seq(Blocks)]
        /\ \A d \in Clients : d # c => inbox'[d] = inbox[d]
        /\ spc' = IF Head(inbox[c]) = "MKJOB" THEN "meta" ELSE "reply"
    BY <1>5, <2>1, <2>3 DEF ReadCommand
  <2>9. Accepted' = Accepted
    BY <1>1 DEF Accepted
  <2>10. Types'
    BY <1>1, <2>8 DEF PSInv, Types, ClientTypes, ServerTypes
  <2>11. Arrivals'
    BY <1>1, <2>9 DEF PSInv, Arrivals
  <2>12. ASSUME NEW d \in Clients PROVE Posted(d)'
    <3>1. Posted(d)
      BY DEF PSInv
    <3>2. Unread(d)' => Unread(d)
      BY <1>1, <2>8, <2>9 DEF Unread
    <3>3. CASE d # c
      BY <1>1, <2>8, <3>1, <3>2, <3>3 DEF Posted
    <3>4. CASE d = c
      <4>1. ~ Unread(c)'
        <5>1. Accepted # 0 /\ c = arrived[Accepted] /\ Accepted \in Nat
          BY <1>1, <2>1, ConfigAssumption DEF PSInv, Asking, Arrivals
        <5>2. Accepted \in 1 .. Accepted
          BY <5>1
        <5> QED BY <1>1, <2>8, <2>9, <5>1, <5>2 DEF Unread
      <4>2. \A i \in 1 .. Len(inbox'[c]) : inbox'[c][i] = "job" => pc'[c] = "success"
        <5>1. \A i \in 1 .. m - 1 : i + 1 \in 1 .. m
          BY <2>2
        <5> QED BY <1>1, <2>2, <2>3, <2>4, <2>8, <5>1 DEF Posted
      <4>3. \A i \in 2 .. Len(inbox'[c]) : inbox'[c][i] = "job"
        BY <2>3, <2>7, <2>8
      <4> QED BY <1>1, <2>4, <2>6, <3>4, <4>1, <4>2, <4>3 DEF Posted
    <3> QED BY <3>3, <3>4
  <2>13. Reading'
    <3>1. spc' = "reply" => pc[c] \notin {"idle", "connected", "asked", "success"}
      BY <2>5, <2>6, <2>8
    <3>2. spc' = "meta" => \A i \in 1 .. Len(inbox'[c]) : inbox'[c][i] = "job"
      BY <2>3, <2>7, <2>8
    <3> QED BY <1>1, <2>1, <2>6, <3>1, <3>2 DEF Reading
  <2>14. Asking'
    BY <1>1, <2>8, <2>9 DEF PSInv, Asking
  <2> QED BY <1>3, <2>10, <2>11, <2>12, <2>13, <2>14 DEF PSInv
<1> QED BY <1>4, <1>5

\* Reading a job keeps the invariant.
LEMMA ReadJobKeeps ==
  ASSUME PSInv, ReadJob
  PROVE  PSInv'
<1> DEFINE c == connfd
<1>1. /\ spc = "meta" /\ spc' = "work" /\ produce' = TRUE
      /\ pc' = pc /\ request' = request /\ arrived' = arrived /\ backlog' = backlog
      /\ connfd' = connfd /\ cursor' = cursor /\ job_number' = job_number
      /\ sent' = sent /\ asked' = Append(asked, c)
      /\ inbox' = [inbox EXCEPT ![c] = <<>>]
  BY DEF ReadJob, clientvars, jqvars
<1>2. /\ c \in Clients /\ c # NoClient /\ inbox \in [Clients -> Seq(Blocks)]
      /\ asked \in Seq(Clients) /\ arrived \in Seq(Clients) /\ job_number \in Nat
  BY <1>1, ConfigAssumption
     DEF PSInv, Reading, Types, ClientTypes, ServerTypes
<1>3. PICK n \in Nat : n = Len(asked)
  BY <1>2, LenProperties
<1>4. /\ asked' \in Seq(Clients) /\ Len(asked') = n + 1 /\ asked'[n + 1] = c
      /\ \A i \in 1 .. n : asked'[i] = asked[i]
  BY <1>1, <1>2, <1>3, AppendProperties
<1>5. /\ inbox'[c] = <<>> /\ inbox' \in [Clients -> Seq(Blocks)]
      /\ \A d \in Clients : d # c => inbox'[d] = inbox[d]
  BY <1>1, <1>2, EmptySeq
<1>6. n = job_number
  <2>1. ~ Composing
    BY <1>1 DEF Composing
  <2> QED BY <1>2, <1>3, <2>1 DEF PSInv, Composition
<1>7. Accepted' = Accepted
  BY <1>1 DEF Accepted
<1>8. PICK a \in Nat : a = Accepted /\ a # 0 /\ c = arrived[a]
  BY <1>1, <1>2 DEF PSInv, Asking, Arrivals
<1>9. \A i \in 1 .. n + 1 : i \in 1 .. n \/ i = n + 1
  OBVIOUS
<1>10. Types'
  BY <1>1, <1>4, <1>5 DEF PSInv, Types, ClientTypes, ServerTypes
<1>11. Arrivals'
  BY <1>1, <1>7 DEF PSInv, Arrivals
<1>12. ASSUME NEW d \in Clients PROVE Posted(d)'
  <2>1. Posted(d)
    BY DEF PSInv
  <2>2. Unread(d)' => Unread(d) /\ d # c
    <3>1. a \in 1 .. a
      BY <1>8
    <3> QED BY <1>1, <1>7, <1>8, <3>1 DEF Unread
  <2>3. CASE d # c
    BY <1>1, <1>5, <2>1, <2>2, <2>3 DEF Posted
  <2>4. CASE d = c
    <3>1. Len(inbox'[c]) = 0
      BY <1>5, EmptySeq
    <3>2. \A i : i \notin 1 .. 0 /\ i \notin 2 .. 0
      OBVIOUS
    <3> QED BY <1>1, <1>5, <2>1, <2>2, <2>4, <3>1, <3>2 DEF Posted
  <2> QED BY <2>3, <2>4
<1>13. Reading'
  BY <1>1 DEF Reading
<1>14. Asking'
  <2>1. ASSUME NEW i \in 1 .. n + 1
        PROVE  \E p \in 1 .. a : arrived[p] = asked'[i]
    <3>1. CASE i = n + 1
      <4>1. a \in 1 .. a
        BY <1>8
      <4> QED BY <1>4, <1>8, <3>1, <4>1
    <3>2. CASE i \in 1 .. n
      BY <1>3, <1>4, <1>8, <3>2 DEF PSInv, Asking
    <3> QED BY <1>9, <3>1, <3>2
  <2>2. ASSUME NEW i \in 1 .. n + 1, NEW k \in 1 .. n + 1,
               NEW p \in 1 .. Len(arrived), NEW q \in 1 .. Len(arrived),
               i < k, arrived[p] = asked'[i], arrived[q] = asked'[k]
        PROVE  p < q
    <3>1. i \in 1 .. n
      BY <2>2
    <3>2. CASE k \in 1 .. n
      BY <1>3, <1>4, <2>2, <3>1, <3>2 DEF PSInv, Asking
    <3>3. CASE k = n + 1
      <4>1. arrived[p] = asked[i] /\ arrived[q] = c /\ asked[i] # c
        BY <1>1, <1>2, <1>3, <1>4, <2>2, <3>1, <3>3 DEF PSInv, Asking
      <4>2. PICK r \in 1 .. a : arrived[r] = asked[i]
        BY <1>3, <1>8, <3>1 DEF PSInv, Asking
      <4>3. /\ a =< Len(arrived) /\ Len(arrived) \in Nat
        BY <1>8, Sizes DEF PSInv, Arrivals, Accepted
      <4>4. r \in 1 .. Len(arrived) /\ a \in 1 .. Len(arrived)
        BY <1>8, <4>2, <4>3
      <4>5. p = r /\ q = a
        BY <1>8, <4>1, <4>2, <4>4 DEF PSInv, Arrivals
      <4>6. r # a
        BY <1>8, <4>1, <4>2
      <4> QED BY <4>2, <4>5, <4>6
    <3> QED BY <1>9, <3>2, <3>3
  <2>3. /\ Len(asked') = n + 1 /\ arrived' = arrived /\ Accepted' = a
        /\ spc' \notin {"read", "meta"}
    BY <1>1, <1>4, <1>7, <1>8
  <2>4. \A i \in 1 .. Len(asked') : \E p \in 1 .. Accepted' : arrived'[p] = asked'[i]
    BY <2>1, <2>3
  <2>5. \A i, k \in 1 .. Len(asked') : \A p, q \in 1 .. Len(arrived') :
          i < k /\ arrived'[p] = asked'[i] /\ arrived'[q] = asked'[k] => p < q
    BY <2>2, <2>3
  <2> QED BY <2>3, <2>4, <2>5, Zenon DEF Asking
<1>15. Composition'
  <2>1. CASE ~ Readable
    <3>1. jobstr' = Blank
      BY <1>2, <2>1 DEF ReadJob, Readable
    <3>2. Composing'
      BY <1>1, <3>1 DEF Composing, Blank, NoInput
    <3> QED BY <1>1, <1>4, <1>6, <3>1, <3>2 DEF Composition
  <2>2. CASE Readable
    <3>1. jobstr' = [group |-> request[c].group, description |-> request[c].description]
      BY <2>2 DEF ReadJob
    <3>2. pc[c] = "success" /\ request[c].cmd = "MKJOB"
      <4>1. inbox[c] # <<>> /\ inbox[c] \in Seq(Blocks)
        BY <1>2, <2>2 DEF Readable
      <4>2. 1 \in 1 .. Len(inbox[c])
        BY <4>1, EmptySeq
      <4>3. inbox[c][1] = "job"
        BY <1>1, <4>2 DEF PSInv, Reading
      <4> QED BY <1>2, <4>2, <4>3 DEF PSInv, Posted
    <3>3. request[c].description \in Descriptions
      BY <1>2, <3>2, InputsAssumption DEF PSInv, Types, ClientTypes, Requests
    <3>4. Composing'
      BY <1>1, <3>1, <3>3 DEF Composing, NoInput, Descriptions
    <3>5. asked'[job_number' + 1] = c
      BY <1>1, <1>4, <1>6
    <3>6. Len(asked') = job_number' + 1
      BY <1>1, <1>4, <1>6
    <3> QED BY <1>1, <3>1, <3>2, <3>4, <3>5, <3>6 DEF Composition
  <2> QED BY <2>1, <2>2
<1>16. SentAsAsked'
  <2>1. ASSUME NEW g \in Groups, NEW i \in 1 .. Len(sent[g])
        PROVE  asked'[sent[g][i] + 1] = asked[sent[g][i] + 1]
    <3>1. sent[g][i] + 1 \in 1 .. n
      BY <1>3, InputOf DEF PSInv
    <3> QED BY <1>4, <3>1, Zenon
  <2>2. /\ sent' = sent /\ pc' = pc /\ request' = request
        /\ job_number' = job_number
    BY <1>1
  <2>3. SentAsAsked
    BY DEF PSInv
  <2> QED BY <2>1, <2>2, <2>3 DEF SentAsAsked
<1> QED BY <1>10, <1>11, <1>12, <1>13, <1>14, <1>15, <1>16 DEF PSInv

\* Answering GETDRIVERS keeps the invariant.
LEMMA ReplyKeeps ==
  ASSUME PSInv, Reply
  PROVE  PSInv'
<1> DEFINE c == connfd
<1>1. /\ spc = "reply" /\ spc' = "work" /\ jobstr = NoInput
      /\ c \in Clients /\ pc[c] \notin {"idle", "connected", "asked", "success"}
      /\ request' = request /\ inbox' = inbox /\ arrived' = arrived
      /\ backlog' = backlog /\ connfd' = connfd /\ produce' = produce
      /\ jobstr' = jobstr /\ cursor' = cursor /\ asked' = asked
      /\ job_number' = job_number /\ sent' = sent
  BY DEF Reply, jqvars, PSInv, Reading
<1>2. PICK n \in {"listed", "garbled"} : pc' = [pc EXCEPT ![c] = n]
  BY DEF Reply, Go
<1>3. /\ pc \in [Clients -> Calls] /\ pc' \in [Clients -> Calls] /\ pc'[c] = n
      /\ \A d \in Clients : d # c => pc'[d] = pc[d]
  BY <1>1, <1>2 DEF PSInv, Types, ClientTypes, Calls
<1>4. Accepted' = Accepted
  BY <1>1 DEF Accepted
<1>5. Types'
  BY <1>1, <1>3 DEF PSInv, Types, ClientTypes, ServerTypes
<1>6. Arrivals'
  <2>1. \A i \in 1 .. Len(arrived) : pc'[arrived[i]] # "idle"
    <3>1. \A i \in 1 .. Len(arrived) : arrived[i] \in Clients
      BY ElementOfSeq DEF PSInv, Types, ClientTypes
    <3> QED BY <1>3, <3>1 DEF PSInv, Arrivals
  <2> QED BY <1>1, <1>4, <2>1 DEF PSInv, Arrivals
<1>7. ASSUME NEW d \in Clients PROVE Posted(d)'
  <2>1. Posted(d)
    BY DEF PSInv
  <2>2. Unread(d)' => Unread(d)
    BY <1>1, <1>4 DEF Unread
  <2>3. CASE d = c
    BY <1>1, <1>3, <2>1, <2>3 DEF Posted
  <2>4. CASE d # c
    BY <1>1, <1>3, <2>1, <2>2, <2>4 DEF Posted
  <2> QED BY <2>3, <2>4
<1>8. Reading'
  BY <1>1 DEF Reading
<1>9. Asking'
  BY <1>1, <1>4 DEF PSInv, Asking
<1>10. ~ Composing /\ ~ Composing'
  BY <1>1 DEF Composing
<1>11. Composition'
  BY <1>1, <1>10 DEF PSInv, Composition
<1>12. SentAsAsked'
  <2>1. \A g \in Groups : \A i \in 1 .. Len(sent[g]) :
          asked[sent[g][i] + 1] \in Clients
    BY InputOf DEF PSInv
  <2>2. \A d \in Clients : pc[d] = "success" => pc'[d] = "success"
    BY <1>1, <1>3
  <2> QED BY <1>1, <2>1, <2>2 DEF PSInv, SentAsAsked
<1> QED BY <1>5, <1>6, <1>7, <1>8, <1>9, <1>11, <1>12 DEF PSInv

\* Composing a job keeps the invariant: it is what its client asked for.
LEMMA ProduceJobKeeps ==
  ASSUME PSInv, ProduceJob
  PROVE  PSInv'
<1>1. /\ Composing /\ ~ produce' /\ spc' \in {"accept", "crashed"}
      /\ job_number' = job_number + 1
      /\ pc' = pc /\ request' = request /\ inbox' = inbox /\ arrived' = arrived
      /\ backlog' = backlog /\ connfd' = connfd /\ cursor' = cursor /\ asked' = asked
      /\ \/ sent' = sent
         \/ /\ jobstr.description # "empty" /\ jobstr.group \in Groups
            /\ sent' = [sent EXCEPT ![jobstr.group] = Append(@, job_number)]
  BY DEF ProduceJob, Composing, clientvars, JQ!Discard, JQ!Enqueue, JQ!NewJob
<1>2. /\ job_number \in Nat /\ sent \in [Groups -> Seq(Nat)]
      /\ asked \in Seq(Clients) /\ Len(asked) = job_number + 1
  BY <1>1 DEF PSInv, Types, ServerTypes, Composition
<1>3. /\ job_number' \in Nat /\ produce' \in BOOLEAN
      /\ cursor' \in 1 .. Len(PrinterGroup) + 1
  <2>1. job_number' \in Nat
    BY <1>1, <1>2
  <2>2. produce' = FALSE
    BY DEF ProduceJob
  <2> QED BY <1>1, <2>1, <2>2 DEF PSInv, Types, ServerTypes
<1>4. Composition'
  <2>1. ~ Composing'
    BY <1>1 DEF Composing
  <2> QED BY <1>1, <1>2, <2>1 DEF Composition
<1>5. \A g \in Groups : \A i \in 1 .. Len(sent[g]) :
        sent[g][i] \in Nat /\ sent[g][i] < job_number
  BY <1>2, ElementOfSeq DEF PSInv, SentAsAsked
<1>6. \A x \in Nat : x < job_number => x < job_number'
  BY <1>1, <1>2
<1>7. CASE sent' = sent
  <2>1. SentAsAsked'
    BY <1>1, <1>5, <1>6, <1>7 DEF PSInv, SentAsAsked
  <2> QED BY <1>1, <1>2, <1>3, <1>4, <1>7, <2>1, WorkGoesOn DEF clientvars
<1>8. CASE /\ jobstr.description # "empty" /\ jobstr.group \in Groups
           /\ sent' = [sent EXCEPT ![jobstr.group] = Append(@, job_number)]
  <2> DEFINE h == jobstr.group
             c == asked[job_number + 1]
  <2>1. jobstr # Blank
    BY <1>8, ConfigAssumption DEF Blank
  <2>2. /\ pc[c] = "success"
        /\ jobstr = [group |-> request[c].group,
                     description |-> request[c].description]
    BY <1>1, <2>1 DEF PSInv, Composition
  <2>3. c \in Clients
    <3>1. job_number + 1 \in 1 .. Len(asked)
      BY <1>2
    <3> QED BY <1>2, <3>1, ElementOfSeq
  <2>4. request[c].description = "text" /\ request[c].group = h
    <3>1. request[c].cmd = "MKJOB" /\ request[c].description # "null"
      BY <2>2, <2>3 DEF PSInv, Posted
    <3>2. request[c].description \in Descriptions
      BY <2>3, <3>1, InputsAssumption DEF PSInv, Types, ClientTypes, Requests
    <3>3. request[c].description # "empty" /\ request[c].group = h
      BY <1>8, <2>2
    <3> QED BY <3>1, <3>2, <3>3 DEF Descriptions
  <2>5. h \in Groups
    BY <1>8
  <2> HIDE DEF h, c
  <2>6. PICK m \in Nat : m = Len(sent[h])
    BY <1>2, <2>5, LenProperties
  <2>7. /\ Append(sent[h], job_number) \in Seq(Nat)
        /\ Len(Append(sent[h], job_number)) = m + 1
        /\ Append(sent[h], job_number)[m + 1] = job_number
        /\ \A i \in 1 .. m : Append(sent[h], job_number)[i] = sent[h][i]
    BY <1>2, <2>5, <2>6, AppendProperties
  <2>8. /\ sent' \in [Groups -> Seq(Nat)] /\ sent'[h] = Append(sent[h], job_number)
        /\ \A g \in Groups : g # h => sent'[g] = sent[g]
    BY <1>2, <1>8, <2>5, <2>7 DEF h
  <2>9. SentAsAsked'
    <3> SUFFICES ASSUME NEW g \in Groups, NEW i \in 1 .. Len(sent'[g])
                 PROVE  /\ sent'[g][i] < job_number'
                        /\ pc[asked[sent'[g][i] + 1]] = "success"
                        /\ request[asked[sent'[g][i] + 1]].group = g
                        /\ request[asked[sent'[g][i] + 1]].description = "text"
      BY <1>1 DEF SentAsAsked
    <3>1. CASE g = h /\ i = m + 1
      <4>1. sent'[g][i] = job_number
        BY <2>7, <2>8, <3>1
      <4>2. job_number < job_number'
        BY <1>1, <1>2
      <4> QED BY <2>2, <2>4, <3>1, <4>1, <4>2 DEF c
    <3>2. CASE ~ (g = h /\ i = m + 1)
      <4>1. i \in 1 .. Len(sent[g]) /\ sent'[g][i] = sent[g][i]
        <5>1. CASE g # h
          BY <2>8, <5>1
        <5>2. CASE g = h
          <6>1. i \in 1 .. m + 1 /\ i # m + 1
            BY <2>7, <2>8, <3>2, <5>2
          <6>2. i \in 1 .. m
            BY <6>1
          <6> QED BY <2>6, <2>7, <2>8, <5>2, <6>2
        <5> QED BY <5>1, <5>2
      <4> QED BY <1>5, <1>6, <4>1 DEF PSInv, SentAsAsked
    <3> QED BY <3>1, <3>2
  <2> QED BY <1>1, <1>3, <1>4, <2>8, <2>9, WorkGoesOn DEF clientvars
<1> QED BY <1>1, <1>7, <1>8

\* Production of nothing and consumption keep the invariant.
LEMMA TurnKeeps ==
  ASSUME PSInv, ProduceNothing \/ StartConsuming \/ ConsumeTurn \/ StopConsuming
  PROVE  PSInv'
<1>1. /\ UNCHANGED <<clientvars, inbox, backlog, connfd, asked, job_number, sent>>
      /\ spc' \in {"accept", "consume"} /\ jobstr' = jobstr
      /\ produce' \in {produce, TRUE, FALSE}
  BY DEF ProduceNothing, StartConsuming, ConsumeTurn, StopConsuming, jqvars, JQ!Consume
<1>2. ~ Composing /\ ~ Composing'
  BY <1>1 DEF Composing, ProduceNothing, StartConsuming, ConsumeTurn, StopConsuming
<1>3. produce' \in BOOLEAN
  BY <1>1 DEF PSInv, Types, ServerTypes
<1>4. cursor' \in 1 .. Len(PrinterGroup) + 1
  <2>1. cursor \in 1 .. Len(PrinterGroup) + 1 /\ Len(PrinterGroup) \in Nat
    BY ConfigAssumption, LenProperties DEF PSInv, Types, ServerTypes
  <2>2. \/ cursor' = cursor
        \/ cursor' = 1
        \/ (cursor =< Len(PrinterGroup) /\ cursor' = cursor + 1)
    BY DEF ProduceNothing, StartConsuming, ConsumeTurn, StopConsuming
  <2> QED BY <2>1, <2>2
<1> QED BY <1>1, <1>2, <1>3, <1>4, NothingComposed, WorkGoesOn DEF clientvars

-----------------------------------------------------------------------------
(* The theorems.                                                           *)

\* What is known of types, inboxes, connections, input and queued jobs holds in
\* every state of the daemon and its clients.
THEOREM Invariance == Spec => []PSInv
<1>1. Init => PSInv
  <2> SUFFICES ASSUME Init PROVE PSInv
    OBVIOUS
  <2>1. /\ request \in [Clients -> Inputs] /\ pc = [c \in Clients |-> "idle"]
        /\ inbox = [c \in Clients |-> <<>>] /\ arrived = <<>> /\ backlog = <<>>
        /\ spc = "accept" /\ connfd = NoClient /\ produce = FALSE
        /\ jobstr = NoInput /\ cursor = 1 /\ asked = <<>>
        /\ job_number = 0 /\ sent = [g \in Groups |-> <<>>]
    BY DEF Init, JQ!Init
  <2>2. /\ <<>> \in Seq(Clients) /\ <<>> \in Seq(Blocks) /\ <<>> \in Seq(Nat)
        /\ Len(<<>>) = 0 /\ 1 .. 0 = {} /\ 2 .. 0 = {}
    OBVIOUS
  <2>3. Len(PrinterGroup) \in Nat
    BY ConfigAssumption, LenProperties
  <2>4. cursor \in 1 .. Len(PrinterGroup) + 1
    BY <2>1, <2>3
  <2>5. Types
    BY <2>1, <2>2, <2>4 DEF Types, ClientTypes, ServerTypes, Calls
  <2>6. Accepted = 0
    BY <2>1, <2>2 DEF Accepted
  <2>7. Arrivals
    BY <2>1, <2>2, <2>6 DEF Arrivals
  <2>8. \A c \in Clients : Posted(c)
    BY <2>1, <2>2 DEF Posted
  <2>9. Reading /\ ~ Composing
    BY <2>1 DEF Reading, Composing
  <2>10. Asking
    BY <2>1, <2>2 DEF Asking
  <2>11. Composition
    BY <2>1, <2>2, <2>9 DEF Composition
  <2>12. SentAsAsked
    BY <2>1, <2>2 DEF SentAsAsked
  <2> QED BY <2>5, <2>7, <2>8, <2>9, <2>10, <2>11, <2>12 DEF PSInv
<1>2. PSInv /\ [Next]_vars => PSInv'
  <2> SUFFICES ASSUME PSInv, [Next]_vars PROVE PSInv'
    OBVIOUS
  <2>1. CASE Daemon
    <3>1. CASE Accept
      BY <3>1, AcceptKeeps
    <3>2. CASE ReadCommand
      BY <3>2, ReadCommandKeeps
    <3>3. CASE ReadJob
      BY <3>3, ReadJobKeeps
    <3>4. CASE Reply
      BY <3>4, ReplyKeeps
    <3>5. CASE ProduceJob
      BY <3>5, ProduceJobKeeps
    <3>6. CASE ProduceNothing \/ StartConsuming \/ ConsumeTurn \/ StopConsuming
      BY <3>6, TurnKeeps
    <3> QED BY <2>1, <3>1, <3>2, <3>3, <3>4, <3>5, <3>6 DEF Daemon
  <2>2. ASSUME NEW c \in Clients, Client(c) PROVE PSInv'
    <3>1. CASE Connect(c)
      BY <3>1, ConnectKeeps
    <3>2. CASE SendCommand(c)
      BY <3>2, SendCommandKeeps
    <3>3. CASE SendJob(c)
      BY <3>3, SendJobKeeps
    <3>4. CASE DescriptionIsNull(c) \/ Fail(c)
      BY <3>4, EndKeeps
    <3> QED BY <2>2, <3>1, <3>2, <3>3, <3>4 DEF Client
  <2>3. CASE UNCHANGED vars
    <3>1. /\ UNCHANGED <<clientvars, inbox, backlog, servervars, job_number, sent>>
          /\ UNCHANGED <<pc, request, arrived, spc, connfd, produce, jobstr, cursor, asked>>
      BY <2>3 DEF vars, clientvars, servervars, jqvars
    <3>2. Types' /\ Arrivals' /\ Reading' /\ Asking'
      BY <3>1 DEF PSInv, Types, ClientTypes, ServerTypes, Arrivals, Accepted,
                  Reading, Asking
    <3>3. \A c \in Clients : Posted(c)'
      BY <3>1 DEF PSInv, Posted, Unread, Accepted
    <3>4. Composition' /\ SentAsAsked'
      BY <3>1 DEF PSInv, Composition, Composing, SentAsAsked
    <3> QED BY <3>2, <3>3, <3>4 DEF PSInv
  <2> QED BY <2>1, <2>2, <2>3 DEF Next
<1> QED BY <1>1, <1>2, PTL DEF Spec

\* The job a client is told it has queued is the job its group is given, with
\* the client's own fields, and each composed input takes one number, however
\* the turns of the daemon and the calls of the clients interleave.
THEOREM JobsAreAsAsked == Spec => []QueuedAsAsked
<1>1. PSInv => QueuedAsAsked
  BY DEF PSInv, Composition, SentAsAsked, QueuedAsAsked
<1> QED BY <1>1, Invariance, PTL

\* The daemon works on the queues with the actions of JobQueues, so that what is
\* proved of those carries over to it.
LEMMA DaemonUsesQueues == Spec => JQ!Spec
<1>1. Init => JQ!Init
  BY DEF Init
<1>2. PSInv /\ [Next]_vars => [JQ!Next]_JQ!vars
  <2> SUFFICES ASSUME PSInv, Next PROVE JQ!Next \/ UNCHANGED jqvars
    BY DEF vars, jqvars, JQ!vars
  <2>1. CASE ProduceJob
    BY <2>1 DEF ProduceJob, JQ!Next
  <2>2. CASE ConsumeTurn
    <3>1. PrinterGroup[cursor] \in Groups
      <4>1. cursor \in 1 .. Len(PrinterGroup)
        BY <2>2 DEF PSInv, Types, ServerTypes, ConsumeTurn
      <4> QED BY <4>1, ConfigAssumption, ElementOfSeq
    <3> QED BY <2>2, <3>1 DEF ConsumeTurn, JQ!Next
  <2>3. CASE \/ Accept \/ ReadCommand \/ ReadJob \/ Reply
             \/ ProduceNothing \/ StartConsuming \/ StopConsuming
    BY <2>3 DEF Accept, ReadCommand, ReadJob, Reply, ProduceNothing,
                StartConsuming, StopConsuming
  <2>4. ASSUME NEW c \in Clients, Client(c) PROVE UNCHANGED jqvars
    BY <2>4 DEF Client, Connect, SendCommand, SendJob, DescriptionIsNull, Fail
  <2> QED BY <2>1, <2>2, <2>3, <2>4 DEF Next, Daemon
<1> QED BY <1>1, <1>2, Invariance, PTL DEF Spec, JQ!Spec

\* What is proved of the queues alone is thereby proved of the daemon.
LEMMA QueuesAreTheSame == JQ!Spec => JQP!Spec
<1>1. JQ!Init => JQP!Init
  BY DEF JQ!Init, JQP!Init, JQ!NoJob, JQP!NoJob
<1>2. [JQ!Next]_JQ!vars => [JQP!Next]_JQP!vars
  BY DEF JQ!Next, JQP!Next, JQ!vars, JQP!vars, JQ!Discard, JQP!Discard,
         JQ!NewJob, JQP!NewJob, JQ!Enqueue, JQP!Enqueue, JQ!Consume, JQP!Consume,
         JQ!CutBehind, JQP!CutBehind, JQ!PrevAfterWalk, JQP!PrevAfterWalk,
         JQ!NoJob, JQP!NoJob
<1> QED BY <1>1, <1>2, PTL DEF JQ!Spec, JQP!Spec

\* So a walk of the daemon never starts at a null head, a job that has not been
\* printed is still linked, and a group's printers get its jobs in order.
THEOREM DaemonKeepsQueues ==
  Spec => [](JQ!NoNullWalk /\ JQ!NoJobLost /\ JQ!PrintedInOrder)
<1>1. JQP!Spec => []JQP!NoNullWalk
  BY JQP!NeverWalksNull, ConfigAssumption
<1>2. JQP!Spec => []JQP!NoJobLost
  BY JQP!LosesNoJob, ConfigAssumption
<1>3. JQP!Spec => []JQP!PrintedInOrder
  BY JQP!PrintsInOrder, ConfigAssumption
<1>4. JQP!NoNullWalk => JQ!NoNullWalk
  BY DEF JQP!NoNullWalk, JQ!NoNullWalk
<1>5. JQP!NoJobLost => JQ!NoJobLost
  BY DEF JQP!NoJobLost, JQ!NoJobLost
<1>6. JQP!PrintedInOrder => JQ!PrintedInOrder
  BY DEF JQP!PrintedInOrder, JQ!PrintedInOrder
<1>7. Spec => JQ!Spec
  BY DaemonUsesQueues
<1> QED BY <1>1, <1>2, <1>3, <1>4, <1>5, <1>6, <1>7, QueuesAreTheSame, PTL

\* To its clients the daemon is a spool that prints in order and repeats at most
\* one job per group.
THEOREM DaemonImplementsSpool == Spec => JQP!ImplementsSpool
<1>1. JQP!Spec => JQP!ImplementsSpool
  BY JQP!QueuesImplementSpool, ConfigAssumption
<1>2. Spec => JQ!Spec
  BY DaemonUsesQueues
<1> QED BY <1>1, <1>2, QueuesAreTheSame, PTL

\* Two inputs of one group, or one and the same, keep the order of their
\* connections.
LEMMA PlacesInOrder ==
  ASSUME PSInv, NEW i \in 1 .. Len(asked), NEW k \in 1 .. Len(asked), i =< k
  PROVE  Place(arrived, asked[i]) =< Place(arrived, asked[k])
<1>1. Len(arrived) \in Nat /\ Accepted \in Nat /\ Accepted =< Len(arrived)
  BY Sizes DEF PSInv, Arrivals, Accepted
<1>2. ASSUME NEW n \in 1 .. Len(asked)
      PROVE  /\ Place(arrived, asked[n]) \in 1 .. Len(arrived)
             /\ arrived[Place(arrived, asked[n])] = asked[n]
  <2>1. PICK p \in 1 .. Accepted : arrived[p] = asked[n]
    BY DEF PSInv, Asking
  <2>2. p \in 1 .. Len(arrived)
    BY <1>1, <2>1
  <2> QED BY <2>1, <2>2 DEF Place
<1>3. CASE i = k
  <2>1. Place(arrived, asked[i]) \in Int
    BY <1>1, <1>2
  <2> QED BY <1>3, <2>1
<1>4. CASE i # k
  <2>1. i < k
    BY <1>4
  <2>2. PICK p \in 1 .. Len(arrived) :
          p = Place(arrived, asked[i]) /\ arrived[p] = asked[i]
    BY <1>2
  <2>3. PICK q \in 1 .. Len(arrived) :
          q = Place(arrived, asked[k]) /\ arrived[q] = asked[k]
    BY <1>2
  <2>4. p < q
    BY <2>1, <2>2, <2>3 DEF PSInv, Asking
  <2> QED BY <1>1, <2>2, <2>3, <2>4
<1> QED BY <1>3, <1>4

\* From the connection to the printer no job of a group overtakes another,
\* although the list is a stack of pointers cut at its end and a job may be
\* printed twice.
THEOREM PrintsInArrivalOrder == Spec => []PrintedInArrivalOrder
<1>1. JQP!Spec => []JQP!PrintedInOrder
  BY JQP!PrintsInOrder, ConfigAssumption
<1>2. JQP!Spec => []JQP!SentInOrder
  BY JQP!SendsInOrder, ConfigAssumption
<1>3. Spec => JQ!Spec
  BY DaemonUsesQueues
<1>4. PSInv /\ JQP!PrintedInOrder /\ JQP!SentInOrder => PrintedInArrivalOrder
  <2> SUFFICES ASSUME PSInv, JQP!PrintedInOrder, JQP!SentInOrder, NEW g \in Groups,
                      NEW i \in 1 .. Len(printed[g]), NEW k \in 1 .. Len(printed[g]),
                      i < k
               PROVE  Place(arrived, asked[printed[g][i] + 1])
                        =< Place(arrived, asked[printed[g][k] + 1])
    BY DEF PrintedInArrivalOrder
  <2>1. PICK r \in 0 .. Len(printed[g]) : \A n \in 1 .. Len(printed[g]) :
          /\ (IF n <= r THEN n ELSE n - 1) \in 1 .. Len(sent[g])
          /\ printed[g][n] = sent[g][IF n <= r THEN n ELSE n - 1]
    BY DEF JQP!PrintedInOrder
  <2>2. PICK x \in 1 .. Len(sent[g]) :
          x = (IF i <= r THEN i ELSE i - 1) /\ printed[g][i] = sent[g][x]
    BY <2>1
  <2>3. PICK y \in 1 .. Len(sent[g]) :
          y = (IF k <= r THEN k ELSE k - 1) /\ printed[g][k] = sent[g][y]
    BY <2>1
  <2>4. x =< y
    BY <2>2, <2>3
  <2>5. sent[g][x] \in Nat /\ sent[g][y] \in Nat
    BY ElementOfSeq DEF PSInv, Types, ServerTypes
  <2>6. sent[g][x] =< sent[g][y]
    <3>1. CASE x = y
      BY <2>5, <3>1
    <3>2. CASE x < y
      BY <2>5, <3>2 DEF JQP!SentInOrder
    <3> QED BY <2>4, <3>1, <3>2
  <2>7. sent[g][x] + 1 \in 1 .. Len(asked) /\ sent[g][y] + 1 \in 1 .. Len(asked)
    BY InputOf DEF PSInv
  <2>8. sent[g][x] + 1 =< sent[g][y] + 1
    BY <2>5, <2>6
  <2>9. Place(arrived, asked[sent[g][x] + 1]) =< Place(arrived, asked[sent[g][y] + 1])
    BY <2>7, <2>8, PlacesInOrder
  <2> QED BY <2>2, <2>3, <2>9
<1> QED BY <1>1, <1>2, <1>3, <1>4, Invariance, QueuesAreTheSame, PTL
=============================================================================
