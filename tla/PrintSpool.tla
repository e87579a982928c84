----------------------------- MODULE PrintSpool -----------------------------
(***************************************************************************)
(* What a print server promises its users, with neither lists, nor locks,  *)
(* nor sockets: a job submitted to a printer group waits its turn, jobs of *)
(* a group come out of its printers in the order they were submitted, and  *)
(* each comes out once.  The servers of the repository fall short of the   *)
(* last point by what MaxReprints allows: the job that came out last may   *)
(* come out again, at most MaxReprints times in the life of a group.       *)
(***************************************************************************)
EXTENDS Naturals, Sequences

CONSTANTS Groups, Jobs, MaxReprints

VARIABLES waiting,   \* group -> jobs that have not come out, oldest first
          out,       \* group -> jobs that came out, in order
          reprints   \* group -> how often a job came out again

vars == <<waiting, out, reprints>>

Init ==
  /\ waiting = [g \in Groups |-> <<>>]
  /\ out = [g \in Groups |-> <<>>]
  /\ reprints = [g \in Groups |-> 0]

Submit(g, j) ==
  /\ waiting' = [waiting EXCEPT ![g] = Append(@, j)]
  /\ UNCHANGED <<out, reprints>>

Deliver(g) ==
  /\ Len(waiting[g]) > 0
  /\ out' = [out EXCEPT ![g] = Append(@, waiting[g][1])]
  /\ waiting' = [waiting EXCEPT ![g] = Tail(@)]
  /\ UNCHANGED reprints

Reprint(g) ==
  /\ reprints[g] < MaxReprints
  /\ Len(out[g]) > 0
  /\ out' = [out EXCEPT ![g] = Append(@, out[g][Len(out[g])])]
  /\ reprints' = [reprints EXCEPT ![g] = @ + 1]
  /\ UNCHANGED waiting

Next ==
  \E g \in Groups : Deliver(g) \/ Reprint(g) \/ \E j \in Jobs : Submit(g, j)

Spec == Init /\ [][Next]_vars
=============================================================================
