--------------------------- MODULE MCPrintServer ---------------------------
(* PrintServer for TLC: the groups and printers of config.rc, in its order. *)
EXTENDS PrintServer, TLC

CONSTANTS c1, c2, c3, black_white, color

ConfigRc == <<black_white, color>>

Job(group, description) ==
  [cmd |-> "MKJOB", group |-> group, description |-> description]
ListDrivers == [cmd |-> "GETDRIVERS"]

\* Every kind of request, each way to go wrong once.
Kinds == <<Job(black_white, "text"), Job(color, "text"),
           Job(UnknownGroup, "text"), ListDrivers, Job(color, "null"), Job(black_white, "empty")>>
EveryKind == {Kinds[i] : i \in DOMAIN Kinds}
\* Jobs for one group.
OneGroup == {Job(black_white, "text")}
\* A job without a description, from cli-printer.
NoDescription == {Job(black_white, "empty")}

\* The requests of three clients.  Clients are alike, so of the assignments that
\* differ only in who makes which request there is one; jobs for the two groups
\* come any number of times, the other kinds once.
Mixes == {m \in [1 .. 3 -> DOMAIN Kinds] :
            \A i \in 1 .. 2 : m[i] < m[i + 1] \/ (m[i] = m[i + 1] /\ m[i] <= 2)}
MixedInit ==
  /\ Init
  /\ \E m \in Mixes : request = (c1 :> Kinds[m[1]]) @@ (c2 :> Kinds[m[2]]) @@ (c3 :> Kinds[m[3]])
MixedSpec == MixedInit /\ [][Next]_vars /\ Fairness
=============================================================================
