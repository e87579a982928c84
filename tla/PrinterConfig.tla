--------------------------- MODULE PrinterConfig ---------------------------
(* The printers of a print server: read from config.rc (parse_rc_file), told  *)
(* to a client that asks for the drivers (print_server_single.c), taken apart *)
(* by the client library (printer_list_drivers).  A name is its characters;   *)
(* that of a printer is what its driver answers to ##NAME##.                  *)
EXTENDS Integers, Sequences, SequencesExt

CONSTANTS GroupNames, PrinterNames, \* bound: the names
          MaxLines,   \* bound: lines of config.rc
          MaxName,    \* MAXNAME: the room for a field, its end included
          SRVSIZE,    \* the room for a reply, its end included
          Residues,   \* bound: what uninitialised memory holds
          MaxRequests \* bound: clients that ask
VARIABLES at, rc,     \* the lines that were read, what each printer answered with them
          groups,     \* printer_group_head, each group with its printer_queue
          buffer,     \* the reply
          str, mode, driven, i, drivers,   \* the client's variables
          arrays      \* how often they were used, what buf and str hold
clientVars == <<str, mode, driven, i, drivers>>
configVars == <<at, rc, groups, buffer, clientVars, arrays>>

Nobody == <<"NULL">>
NUL == "NUL"
ConfigInit ==
    /\ at = "config" /\ rc = <<>> /\ groups = <<>> /\ buffer = <<>>
    /\ arrays = [used |-> 0, buf |-> <<>>, str |-> <<>>]
    /\ str = <<>> /\ mode = 0 /\ driven = 0 /\ i = 1 /\ drivers = <<>>

\* Mutant of AddGroup: the group becomes the head of the list.
AddGroupFirst(n) == groups' = <<[name |-> n, printers |-> <<>>]>> \o groups
AddGroup(n) == groups' = Append(groups, [name |-> n, printers |-> <<>>])
\* The printer goes behind the others of the group read last; printer_install may
\* fail, which is not looked at, and leaves it without a name.
AddPrinter(n) ==
    groups' = [groups EXCEPT ![Len(groups)].printers = Append(@, n)]
\* One line.  Comments and what else there is count for nothing; without a name,
\* or for a printer without a group, the server does not survive.
ReadLine ==
    /\ at = "config" /\ Len(rc) < MaxLines
    /\ \/ \E n \in GroupNames : AddGroup(n) /\ rc' = Append(rc, <<"group", n>>) /\ at' = at
       \/ \E n \in PrinterNames \cup {Nobody} :
            /\ rc' = Append(rc, <<"printer", n>>)
            /\ IF groups = <<>> THEN at' = "killed" /\ UNCHANGED groups
                                ELSE at' = at /\ AddPrinter(n)
       \/ rc' = Append(rc, <<"other">>) /\ UNCHANGED <<at, groups>>
       \/ rc' = Append(rc, <<"nameless">>) /\ at' = "killed" /\ UNCHANGED groups
    /\ UNCHANGED <<buffer, clientVars, arrays>>

Fields(g) == FoldSeq(LAMBDA n, text : n \o <<"~">> \o g.name \o <<"~", "v", "0", "~">> \o text,
                     <<>>, g.printers)
Digit == <<"0", "1", "2", "3", "4", "5", "6", "7", "8", "9">>
\* What a request finds in an array that nothing sets: anything the first time,
\* then what the last request left there.
Held(left) == IF arrays.used = 0 THEN Residues ELSE {left}
\* GETDRIVERS: strcat of each printer behind what str holds, and of their number
\* and str behind what buf holds.  All SRVSIZE bytes are sent, those behind the
\* end too.  What a text that does not fit does to the daemon is undefined.
Reply ==
    /\ at \in {"config", "listed"} /\ arrays.used < MaxRequests
    /\ LET all == FlattenSeq([k \in DOMAIN groups |-> groups[k].printers])
           fields == FlattenSeq([k \in DOMAIN groups |-> Fields(groups[k])])
       IN  \/ Contains(all, Nobody) /\ at' = "killed" /\ UNCHANGED <<buffer, clientVars, arrays>>
           \/ \E inBuf \in Held(arrays.buf), inStr \in Held(arrays.str), behind \in Residues :
                LET text == inStr \o fields
                    reply == inBuf \o <<Digit[Len(all) + 1], "~">> \o text
                IN  /\ ~Contains(all, Nobody)
                    /\ arrays' = [used |-> arrays.used + 1, buf |-> reply, str |-> text]
                    /\ IF Len(reply) >= SRVSIZE
                         THEN at' = "overflow" /\ UNCHANGED <<buffer, clientVars>>
                         ELSE /\ at' = "count" /\ str' = <<>> /\ mode' = 0 /\ driven' = 0
                              /\ i' = 1 /\ drivers' = <<>>
                              /\ LET bytes == reply \o <<NUL>> \o behind
                                 IN  buffer' = SubSeq(bytes, 1, Min({Len(bytes), SRVSIZE}))
    /\ UNCHANGED <<rc, groups>>

\* atoi of at most two digits: those at the front.
Value(s) ==
    LET D(c) == CHOOSE n \in 0 .. 9 : Digit[n + 1] = c
    IN  IF s = <<>> \/ ~Contains(Digit, s[1]) THEN 0
        ELSE IF Len(s) > 1 /\ Contains(Digit, s[2]) THEN 10 * D(s[1]) + D(s[2]) ELSE D(s[1])
\* printer_list_drivers: the number up to the first ~, which is looked for in
\* MaxName characters, and that many empty drivers; nothing behind the last.
Count ==
    /\ at = "count" /\ at' = "fields"
    /\ LET ends == {k \in DOMAIN buffer : k <= MaxName /\ buffer[k] = "~"}
           end == IF ends = {} THEN MaxName ELSE Min(ends)
       IN  /\ drivers' = [k \in 1 .. Value(SubSeq(buffer, 1, end)) |-> <<>>]
           /\ i' = end + 1
    /\ UNCHANGED <<rc, groups, buffer, str, mode, driven, arrays>>
\* strcpy takes what stands before a NUL.
Copied(s) == LET end == SelectInSeq(s, LAMBDA c : c = NUL)
             IN  IF end = 0 THEN s ELSE SubSeq(s, 1, end - 1)
\* The next character: one more of a field, or its end.  A field that fills str
\* ends the loop, as does the last driver; so do the zeros that are left of the
\* SRVSIZE bytes, which fill str.
Field ==
    /\ at = "fields"
    /\ IF i > Len(buffer) \/ driven >= Len(drivers) \/ Len(str) >= MaxName
         THEN at' = "listed" /\ UNCHANGED clientVars
         ELSE /\ i' = i + 1 /\ at' = at
              /\ IF buffer[i] = "~"
                 THEN /\ drivers' = [drivers EXCEPT ![driven + 1] = Append(@, Copied(str))]
                      /\ str' = <<>> /\ mode' = (mode + 1) % 3
                      /\ driven' = IF mode = 2 THEN driven + 1 ELSE driven
                 ELSE /\ str' = Append(str, buffer[i]) /\ UNCHANGED <<mode, driven, drivers>>
    /\ UNCHANGED <<rc, groups, buffer, arrays>>

ConfigNext == ReadLine \/ Reply \/ Count \/ Field
-----------------------------------------------------------------------------
Version == <<"v", "0">>
\* The printers of config.rc in its order, each with the group above it.
Configured ==
    LET printers == SelectSeq([k \in DOMAIN rc |-> k], LAMBDA k : rc[k][1] = "printer")
        GroupOf(k) == CHOOSE n \in 1 .. k : /\ rc[n][1] = "group"
                                            /\ \A m \in n + 1 .. k : rc[m][1] # "group"
    IN  [k \in DOMAIN printers |-> <<rc[printers[k]][2], rc[GroupOf(printers[k])][2], Version>>]
\* A text taken apart: what stands before each ~ of it.
Parts(text) ==
    LET ends == SelectSeq([k \in DOMAIN text |-> k], LAMBDA k : text[k] = "~")
    IN  [n \in DOMAIN ends |-> SubSeq(text, IF n = 1 THEN 1 ELSE ends[n - 1] + 1, ends[n] - 1)]
\* Whatever the arrays of the daemon held, each reply ends with the printers of
\* config.rc, in its order and with their groups, and only the first name may
\* have grown; and the client takes a reply for what it says, driver by driver:
\* the number in front and, field by field from there on, the very parts of it.
\* That these need not be the printers: README, "What does not agree".
ToldInOrder ==
    at \in {"fields", "listed"} =>
      LET said == Parts(Copied(buffer))
          parts == Parts(buffer)
          first == Len(said) - 3 * Len(Configured)
      IN  /\ \A k \in DOMAIN Configured, f \in 1 .. 3 :
               LET part == said[first + 3 * (k - 1) + f]
               IN  IF k = 1 /\ f = 1 THEN IsSuffix(Configured[1][1], part)
                                     ELSE part = Configured[k][f]
          /\ Len(drivers) = Value(parts[1])
          /\ \A k \in DOMAIN drivers : \A f \in DOMAIN drivers[k] :
               drivers[k][f] = Copied(parts[1 + 3 * (k - 1) + f])
=============================================================================
