------------------------------- MODULE Paging -------------------------------
(* Page replacement (lab7/src/memory_mgmt.c): handle_page_accesses with the   *)
(* four algorithms on the three workloads.  The program runs the algorithms   *)
(* one after the other on the same accesses; here they run side by side, one  *)
(* access at a time.  A random number is any number of its range.             *)
EXTENDS Naturals, Integers, Sequences, SequencesExt, FiniteSets

CONSTANTS NUM_FRAMES, NUM_PAGES, NUM_ACCESSES,   \* 16, 128 and 10000
          History                                \* how far the LR workload looks back: 5

\* With a single frame PRAlgo_OPT would return a page, not the index of a frame.
ASSUME PagingAssumption ==
    /\ NUM_FRAMES \in Nat /\ NUM_FRAMES > 1
    /\ NUM_PAGES \in Nat \ {0} /\ NUM_ACCESSES \in Nat /\ History \in Nat

VARIABLES algo,          \* the workload: alg_rand, alg_seq or alg_work
          PageAccesses,  \* the accesses so far
          PageFrames,    \* of each algorithm
          faults, victim \* of each algorithm: page_faults; the last index replaced
pagingVars == <<algo, PageAccesses, PageFrames, faults, victim>>

Algorithms == {"FIFO", "LRU", "OPT", "CUST"}
NoPage == -1
Frames == 0 .. NUM_FRAMES - 1
EmptyFrame == [page_id |-> NoPage, time_of_access |-> -1, time_of_arrival |-> -1]
PagingInit ==
    /\ algo \in {"rand", "seq", "work"} /\ PageAccesses = <<>>
    /\ PageFrames = [a \in Algorithms |-> [i \in Frames |-> EmptyFrame]]
    /\ faults = [a \in Algorithms |-> 0] /\ victim = [a \in Algorithms |-> 0]

now == Len(PageAccesses)   \* current_access
AccessesRand == 1 .. NUM_PAGES
AccessesSeq == {(now % NUM_PAGES) + 1}
AccessesWork == IF now < History THEN AccessesRand
                ELSE AccessesRand \cup {PageAccesses[now - k] : k \in 0 .. History - 1}

\* The first frame with the least of the times.
Oldest(times) ==
    CHOOSE i \in Frames : \A j \in Frames :
        times[i] < times[j] \/ (times[i] = times[j] /\ i <= j)
Arrivals(f) == [i \in Frames |-> f[i].time_of_arrival]
Accesses(f) == [i \in Frames |-> f[i].time_of_access]
PRAlgo_FIFO(f) == Oldest(Arrivals(f))
\* Mutant of PRAlgo_LRU: it looks at the arrivals.
PRAlgo_LRA(f) == Oldest(Arrivals(f))

PRAlgo_LRU(f) == Oldest(Accesses(f))
\* maxid behind each turn of the loop: it starts as a page and goes on as an index.
MaxIds(f) ==
    LET maxid[i \in Frames] == IF i = 0 THEN f[0].page_id
                               ELSE IF f[i].page_id > maxid[i - 1] THEN i ELSE maxid[i - 1]
    IN  maxid
LastPage(f) == MaxIds(f)[NUM_FRAMES - 1]
PRAlgo_OPT(f) ==
    CASE algo = "seq" -> {LastPage(f)}
      [] algo = "rand" -> Frames
      [] algo = "work" -> {Oldest(Accesses(f))}
\* The frame that was not used for the longest time.
PRAlgo_CUST(f) ==
    CASE algo = "seq" -> {LastPage(f)}
      [] algo = "rand" -> Frames
      [] algo = "work" -> {CHOOSE i \in Frames : \A j \in Frames :
                         LET age(k) == now - f[k].time_of_access
                         IN  age(i) > age(j) \/ (age(i) = age(j) /\ i <= j)}

\* One turn of handle_page_accesses: a hit, a free frame, or a replacement.
Loaded(page) == [page_id |-> page, time_of_access |-> now, time_of_arrival |-> now]
FrameOf(f, page) == {i \in Frames : f[i].page_id = page}
FirstOf(s) == CHOOSE i \in s : \A j \in s : i <= j
After(f, page, v) ==
    LET hit == FrameOf(f, page)
        free == FrameOf(f, NoPage)
    IN  IF hit # {} THEN [f EXCEPT ![FirstOf(hit)].time_of_access = now]
        ELSE IF free # {} THEN [f EXCEPT ![FirstOf(free)] = Loaded(page)]
        ELSE [f EXCEPT ![v] = Loaded(page)]
\* What replaces a page, where one must be: any of the frames a handler may name.
Victims(a, handler, page) ==
    IF FrameOf(PageFrames[a], page) = {} /\ FrameOf(PageFrames[a], NoPage) = {}
      THEN handler ELSE {victim[a]}
Access ==
    /\ now < NUM_ACCESSES
    /\ \E page \in CASE algo = "rand" -> AccessesRand [] algo = "seq" -> AccessesSeq
                     [] algo = "work" -> AccessesWork :
       \E fifo \in Victims("FIFO", {PRAlgo_FIFO(PageFrames["FIFO"])}, page),
          lru \in Victims("LRU", {PRAlgo_LRU(PageFrames["LRU"])}, page),
          opt \in Victims("OPT", PRAlgo_OPT(PageFrames["OPT"]), page),
          cust \in Victims("CUST", PRAlgo_CUST(PageFrames["CUST"]), page) :
         /\ victim' = [FIFO |-> fifo, LRU |-> lru, OPT |-> opt, CUST |-> cust]
         /\ PageAccesses' = Append(PageAccesses, page)
         /\ PageFrames' = [a \in Algorithms |-> After(PageFrames[a], page, victim'[a])]
         /\ faults' = [a \in Algorithms |-> faults[a] +
                         IF FrameOf(PageFrames[a], page) = {} THEN 1 ELSE 0]
    /\ UNCHANGED algo
PagingNext == Access

----------------------------------------------------------------------------
Pages(a) == {PageFrames[a][i].page_id : i \in Frames} \ {NoPage}
Recent(s) == \* its last NUM_FRAMES different pages
    LET since(i) == {s[j] : j \in i .. Len(s)}
    IN  UNION {since(i) : i \in {k \in DOMAIN s : Cardinality(since(k)) <= NUM_FRAMES}}
Enter(q, page) == IF page \in ToSet(q) THEN q
                  ELSE Append(IF Len(q) = NUM_FRAMES THEN Tail(q) ELSE q, page)
Queues(s) == \* a queue of that many pages, behind each access
    LET queue[k \in 0 .. Len(s)] == IF k = 0 THEN <<>> ELSE Enter(queue[k - 1], s[k]) IN queue

\* Whatever the accesses were, LRU holds the pages used last, and FIFO those of
\* a queue; a victim is always the index of a frame, and no page is in two.
LRUIsRecent == Pages("LRU") = Recent(PageAccesses)
FIFOIsQueue == Pages("FIFO") = ToSet(Queues(PageAccesses)[now])
PagesAreApart ==
    \A a \in Algorithms :
      /\ victim[a] \in Frames
      /\ \A i, j \in Frames : PageFrames[a][i].page_id = PageFrames[a][j].page_id =>
                                i = j \/ PageFrames[a][i].page_id = NoPage

\* On the LR workload OPT and CUST are LRU, the comments at memory_mgmt.c:336
\* and 378 say so; on the sequential one, where LRU and FIFO fault on the same
\* accesses, they never fault more.
SameAsLRU ==
    /\ algo = "work" => /\ PageFrames["OPT"] = PageFrames["LRU"] /\ faults["OPT"] = faults["LRU"]
                        /\ PageFrames["CUST"] = PageFrames["LRU"] /\ faults["CUST"] = faults["LRU"]
    /\ algo = "seq" => /\ faults["FIFO"] = faults["LRU"]
                       /\ faults["OPT"] <= faults["LRU"] /\ faults["CUST"] = faults["OPT"]

\* The page frames hold what the policy says, and OPT and CUST do not fault more
\* than LRU, or just as it.
FramesFollowPolicy == LRUIsRecent /\ FIFOIsQueue /\ PagesAreApart /\ SameAsLRU
=============================================================================
