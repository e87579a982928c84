--------------------------- MODULE Paging_proofs ----------------------------
(***************************************************************************)
(* Proofs about Paging, for any number of pages, any two frames or more    *)
(* and any accesses: the frames hold what the policy says.                 *)
(***************************************************************************)
EXTENDS Paging, PlaceTheorems

-----------------------------------------------------------------------------
(* Frames.                                                                 *)

PageNumbers == 1 .. NUM_PAGES
Frame == [page_id : Int, time_of_access : Int, time_of_arrival : Int]

\* A frame that was loaded knows the last access of its page.
Holds(r, s) ==
  /\ r.page_id \in PageNumbers
  /\ r.time_of_access \in 0 .. Len(s) - 1
  /\ r.time_of_arrival \in 0 .. r.time_of_access
  /\ s[r.time_of_access + 1] = r.page_id
  /\ \A k \in 1 .. Len(s) : s[k] = r.page_id => k <= r.time_of_access + 1

Framed(f, s) ==
  /\ f \in [Frames -> Frame]
  /\ \A i \in Frames : f[i] = EmptyFrame \/ Holds(f[i], s)
  /\ \A i, j \in Frames : f[i].page_id = f[j].page_id => i = j \/ f[i].page_id = NoPage

\* Page p is in no frame, no frame is free, and so a page must leave.
Missing(f, p) == \A i \in Frames : f[i].page_id # p
Full(f) == \A i \in Frames : f[i].page_id # NoPage
Replaces(f, p) == Missing(f, p) /\ Full(f)

\* Access number n, of page p, makes g of the frames f and touches frame h, which
\* has the page, or is the first that is free, or the victim.
Turn(f, g, h, p, n, v) ==
  /\ g \in [Frames -> Frame] /\ h \in Frames
  /\ \A i \in Frames : i # h => g[i] = f[i] /\ f[i].page_id # p
  /\ g[h].page_id = p /\ g[h].time_of_access = n
  /\ g[h].time_of_arrival = IF f[h].page_id = p THEN f[h].time_of_arrival ELSE n
  /\ \/ f[h].page_id = p
     \/ Missing(f, p) /\ f[h].page_id = NoPage /\ \A i \in Frames : i < h => f[i].page_id # NoPage
     \/ Replaces(f, p) /\ h = v

\* A set of frames has a first one.
LEMMA FirstFrame ==
  ASSUME NEW T \in SUBSET Frames, T # {}
  PROVE  FirstOf(T) \in T /\ \A j \in T : FirstOf(T) <= j
<1>1. PICK n \in Nat : n = NUM_FRAMES
  BY PagingAssumption
<1>2. \A i \in T : i \in 0 .. n - 1
  BY <1>1 DEF Frames
<1> DEFINE U == {k \in 1 .. n : k - 1 \in T}
<1>3. U \in SUBSET (1 .. n)
  OBVIOUS
<1>4. U # {}
  <2>1. PICK i \in T : TRUE
    OBVIOUS
  <2>2. i + 1 \in 1 .. n /\ (i + 1) - 1 = i
    BY <1>2
  <2>3. i + 1 \in U
    BY <2>2
  <2> QED BY <2>3
<1> HIDE DEF U
<1>5. PICK k \in U : \A l \in U : k <= l
  BY <1>3, <1>4, Least
<1>6. k \in 1 .. n /\ k - 1 \in T
  BY <1>5 DEF U
<1>7. ASSUME NEW j \in T PROVE k - 1 <= j
  <2>1. j \in 0 .. n - 1 /\ j + 1 \in 1 .. n /\ (j + 1) - 1 = j
    BY <1>2
  <2>2. j + 1 \in U
    BY <2>1 DEF U
  <2>3. k <= j + 1
    BY <1>5, <2>2
  <2> QED BY <1>6, <2>1, <2>3
<1>8. \E i \in T : \A j \in T : i <= j
  BY <1>6, <1>7
<1> QED BY <1>8 DEF FirstOf

\* There is one frame with the least of the times that comes before the others.
LEMMA OldestIs ==
  ASSUME NEW times, NEW n \in Nat, \A i \in Frames : times[i] \in -1 .. n
  PROVE  /\ Oldest(times) \in Frames
         /\ \A j \in Frames : \/ times[Oldest(times)] < times[j]
                              \/ times[Oldest(times)] = times[j] /\ Oldest(times) <= j
<1> DEFINE U == {k \in 1 .. n + 2 : \E i \in Frames : times[i] = k - 2}
<1>1. 0 \in Frames
  BY PagingAssumption DEF Frames
<1>2. ASSUME NEW i \in Frames PROVE times[i] + 2 \in U
  <2>1. PICK t \in -1 .. n : t = times[i]
    BY <1>2
  <2>2. t + 2 \in 1 .. n + 2 /\ (t + 2) - 2 = t
    OBVIOUS
  <2> QED BY <2>1, <2>2
<1>3. U # {} /\ U \in SUBSET (1 .. n + 2) /\ n + 2 \in Nat
  BY <1>1, <1>2
<1>4. \A k \in U : k \in 1 .. n + 2 /\ \E i \in Frames : times[i] = k - 2
  OBVIOUS
<1> HIDE DEF U
<1>5. PICK k \in U : \A l \in U : k <= l
  BY <1>3, Least
<1> DEFINE T == {i \in Frames : times[i] = k - 2}
<1>6. T \in SUBSET Frames /\ T # {}
  BY <1>4, <1>5
<1>7. PICK o \in T : \A j \in T : o <= j
  BY <1>6, FirstFrame
<1>8. o \in Frames /\ times[o] = k - 2
  BY <1>7
<1>9. ASSUME NEW j \in Frames
      PROVE  times[o] < times[j] \/ (times[o] = times[j] /\ o <= j)
  <2>1. CASE times[j] = k - 2
    <3>1. j \in T
      BY <2>1
    <3> QED BY <1>7, <1>8, <2>1, <3>1
  <2>2. CASE times[j] # k - 2
    <3>1. PICK t \in -1 .. n : t = times[j]
      BY <1>9
    <3>2. k <= t + 2 /\ k \in 1 .. n + 2
      BY <1>2, <1>4, <1>5, <3>1
    <3>3. k - 2 < t
      BY <2>2, <3>1, <3>2
    <3> QED BY <1>8, <3>1, <3>3
  <2> QED BY <2>1, <2>2
<1>10. \E i \in Frames : \A j \in Frames :
         times[i] < times[j] \/ (times[i] = times[j] /\ i <= j)
  BY <1>8, <1>9
<1> QED BY <1>10 DEF Oldest

\* No other frame is like that.
LEMMA OldestOnly ==
  ASSUME NEW times, NEW n \in Nat, \A i \in Frames : times[i] \in -1 .. n,
         NEW i \in Frames,
         \A j \in Frames : times[i] < times[j] \/ (times[i] = times[j] /\ i <= j)
  PROVE  i = Oldest(times)
<1>1. PICK o \in Frames : o = Oldest(times)
  BY OldestIs
<1>2. times[o] < times[i] \/ (times[o] = times[i] /\ o <= i)
  BY <1>1, OldestIs
<1>3. times[i] < times[o] \/ (times[i] = times[o] /\ i <= o)
  OBVIOUS
<1>4. i \in Int /\ o \in Int /\ times[i] \in Int /\ times[o] \in Int
  <2>1. \A k \in Frames : k \in Int
    BY PagingAssumption DEF Frames
  <2> QED BY <2>1
<1> QED BY <1>1, <1>2, <1>3, <1>4

\* The times of frames are those of accesses, or -1.
LEMMA TimesOf ==
  ASSUME NEW f, NEW s, NEW n \in Nat, n = Len(s), Framed(f, s)
  PROVE  /\ \A i \in Frames : Accesses(f)[i] = f[i].time_of_access
                           /\ Arrivals(f)[i] = f[i].time_of_arrival
         /\ \A i \in Frames : Accesses(f)[i] \in -1 .. n /\ Arrivals(f)[i] \in -1 .. n
<1>1. \A i \in Frames : Accesses(f)[i] = f[i].time_of_access
                     /\ Arrivals(f)[i] = f[i].time_of_arrival
  BY DEF Accesses, Arrivals
<1>2. ASSUME NEW i \in Frames
      PROVE  f[i].time_of_access \in -1 .. n /\ f[i].time_of_arrival \in -1 .. n
  <2>1. CASE f[i] = EmptyFrame
    BY <2>1 DEF EmptyFrame
  <2>2. CASE Holds(f[i], s)
    BY <2>2 DEF Holds
  <2> QED BY <2>1, <2>2 DEF Framed
<1> QED BY <1>1, <1>2

\* A frame whose page is not NoPage holds one.
LEMMA LoadedHolds ==
  ASSUME NEW f, NEW s, Framed(f, s), NEW i \in Frames
  PROVE  /\ f[i].page_id # NoPage => Holds(f[i], s)
         /\ f[i].page_id = NoPage => f[i] = EmptyFrame
<1>1. f[i] = EmptyFrame => f[i].page_id = NoPage
  BY DEF EmptyFrame
<1>2. Holds(f[i], s) => f[i].page_id # NoPage
  BY PagingAssumption DEF Holds, PageNumbers, NoPage
<1> QED BY <1>1, <1>2 DEF Framed

\* The oldest frame by accesses, and by arrivals.
LEMMA VictimIs ==
  ASSUME NEW f, NEW s, NEW n \in Nat, n = Len(s), Framed(f, s)
  PROVE  /\ PRAlgo_LRU(f) \in Frames /\ PRAlgo_FIFO(f) \in Frames
         /\ \A i \in Frames : f[PRAlgo_LRU(f)].time_of_access <= f[i].time_of_access
         /\ \A i \in Frames : f[PRAlgo_FIFO(f)].time_of_arrival <= f[i].time_of_arrival
<1>1. /\ \A i \in Frames : Accesses(f)[i] = f[i].time_of_access
                        /\ Arrivals(f)[i] = f[i].time_of_arrival
      /\ \A i \in Frames : Accesses(f)[i] \in -1 .. n /\ Arrivals(f)[i] \in -1 .. n
  BY TimesOf
<1> DEFINE t == Accesses(f)
           u == Arrivals(f)
<1> HIDE DEF t, u
<1>2. (\A i \in Frames : t[i] \in -1 .. n) /\ (\A i \in Frames : u[i] \in -1 .. n)
  BY <1>1 DEF t, u
<1>3. /\ Oldest(t) \in Frames
      /\ \A j \in Frames : t[Oldest(t)] < t[j] \/ (t[Oldest(t)] = t[j] /\ Oldest(t) <= j)
  BY <1>2, OldestIs
<1>4. /\ Oldest(u) \in Frames
      /\ \A j \in Frames : u[Oldest(u)] < u[j] \/ (u[Oldest(u)] = u[j] /\ Oldest(u) <= j)
  BY <1>2, OldestIs
<1>5. \A j \in Frames : t[Oldest(t)] <= t[j] /\ u[Oldest(u)] <= u[j]
  <2>1. \A j \in Frames : t[j] \in Int /\ u[j] \in Int
    BY <1>2
  <2> QED BY <1>3, <1>4, <2>1
<1> QED BY <1>1, <1>3, <1>4, <1>5 DEF PRAlgo_LRU, PRAlgo_FIFO, t, u

\* What handle_page_accesses makes of the frames is a turn.
LEMMA AfterTurns ==
  ASSUME NEW f, NEW s, Framed(f, s), NEW p \in PageNumbers, NEW v, now \in Nat,
         Replaces(f, p) => v \in Frames
  PROVE  \E h \in Frames : Turn(f, After(f, p, v), h, p, now, v)
<1>1. f \in [Frames -> Frame] /\ p \in Int /\ p # NoPage /\ NoPage \in Int
  BY PagingAssumption DEF Framed, PageNumbers, NoPage
<1>2. /\ \A i \in FrameOf(f, p) : i \in Frames /\ f[i].page_id = p
      /\ \A i \in Frames : f[i].page_id = p => i \in FrameOf(f, p)
      /\ FrameOf(f, p) \in SUBSET Frames
  BY DEF FrameOf
<1>3. /\ \A i \in FrameOf(f, NoPage) : i \in Frames /\ f[i].page_id = NoPage
      /\ \A i \in Frames : f[i].page_id = NoPage => i \in FrameOf(f, NoPage)
      /\ FrameOf(f, NoPage) \in SUBSET Frames
  BY DEF FrameOf
<1>4. PICK hit, free : hit = FrameOf(f, p) /\ free = FrameOf(f, NoPage)
  OBVIOUS
<1>5. After(f, p, v) = IF hit # {} THEN [f EXCEPT ![FirstOf(hit)].time_of_access = now]
                       ELSE IF free # {} THEN [f EXCEPT ![FirstOf(free)] = Loaded(p)]
                       ELSE [f EXCEPT ![v] = Loaded(p)]
  BY <1>4 DEF After
<1>6. PICK n \in Nat : n = now
  OBVIOUS
<1>7. PICK r : r = [page_id |-> p, time_of_access |-> n, time_of_arrival |-> n]
  OBVIOUS
<1>8. Loaded(p) = r /\ r \in Frame /\ r.page_id = p /\ r.time_of_access = n /\ r.time_of_arrival = n
  BY <1>1, <1>6, <1>7 DEF Loaded, Frame
<1>9. CASE hit # {}
  <2>1. PICK h \in Frames : h = FirstOf(hit) /\ f[h].page_id = p
    BY <1>2, <1>4, <1>9, FirstFrame
  <2>2. PICK g : g = [f EXCEPT ![h].time_of_access = n]
    OBVIOUS
  <2>3. After(f, p, v) = g
    BY <1>5, <1>6, <1>9, <2>1, <2>2
  <2>4. f[h] \in Frame
    BY <1>1
  <2>5. /\ g \in [Frames -> Frame] /\ \A i \in Frames : i # h => g[i] = f[i]
        /\ g[h].page_id = p /\ g[h].time_of_access = n
        /\ g[h].time_of_arrival = f[h].time_of_arrival
    BY <1>1, <2>1, <2>2, <2>4 DEF Frame
  <2>6. \A i \in Frames : i # h => f[i].page_id # p
    BY <1>1, <2>1 DEF Framed
  <2>7. Turn(f, g, h, p, n, v)
    BY <2>1, <2>5, <2>6 DEF Turn
  <2> QED BY <1>6, <2>3, <2>7
<1>10. CASE hit = {}
  <2>1. Missing(f, p)
    BY <1>2, <1>4, <1>10 DEF Missing
  <2>2. ASSUME NEW h \in Frames, After(f, p, v) = [f EXCEPT ![h] = r]
        PROVE  /\ After(f, p, v) \in [Frames -> Frame]
               /\ \A i \in Frames : i # h => After(f, p, v)[i] = f[i] /\ f[i].page_id # p
               /\ After(f, p, v)[h] = r
    <3>1. PICK g : g = [f EXCEPT ![h] = r]
      OBVIOUS
    <3>2. g \in [Frames -> Frame] /\ (\A i \in Frames : i # h => g[i] = f[i]) /\ g[h] = r
      BY <1>1, <1>8, <3>1
    <3> QED BY <2>1, <2>2, <3>1, <3>2 DEF Missing
  <2>3. CASE free # {}
    <3>1. PICK h \in Frames : h = FirstOf(free) /\ f[h].page_id = NoPage /\ \A j \in free : h <= j
      BY <1>3, <1>4, <2>3, FirstFrame
    <3>2. \A i \in Frames : i < h => f[i].page_id # NoPage
      <4>1. \A i \in Frames : i \in Int
        BY PagingAssumption DEF Frames
      <4>2. \A i \in Frames : i < h => ~ (h <= i)
        BY <4>1
      <4> QED BY <1>3, <1>4, <3>1, <4>2
    <3>3. After(f, p, v) = [f EXCEPT ![h] = r]
      BY <1>5, <1>8, <1>10, <2>3, <3>1
    <3>4. /\ After(f, p, v) \in [Frames -> Frame] /\ After(f, p, v)[h] = r
          /\ \A i \in Frames : i # h => After(f, p, v)[i] = f[i] /\ f[i].page_id # p
      BY <2>2, <3>3
    <3> QED BY <1>1, <1>6, <1>8, <2>1, <3>1, <3>2, <3>4 DEF Turn
  <2>4. CASE free = {}
    <3>1. Full(f)
      BY <1>3, <1>4, <2>4 DEF Full
    <3>2. Replaces(f, p) /\ v \in Frames
      BY <2>1, <3>1 DEF Replaces
    <3>3. After(f, p, v) = [f EXCEPT ![v] = r]
      BY <1>5, <1>8, <1>10, <2>4
    <3>4. /\ After(f, p, v) \in [Frames -> Frame] /\ After(f, p, v)[v] = r
          /\ \A i \in Frames : i # v => After(f, p, v)[i] = f[i] /\ f[i].page_id # p
      BY <2>2, <3>2, <3>3
    <3>5. f[v].page_id # p
      BY <2>1, <3>2 DEF Missing
    <3> QED BY <1>6, <1>8, <3>2, <3>4, <3>5 DEF Turn
  <2> QED BY <2>3, <2>4
<1> QED BY <1>9, <1>10

\* A turn leaves the frames as frames should be.
LEMMA FramedAfter ==
  ASSUME NEW s \in Seq(PageNumbers), NEW n \in Nat, n = Len(s), NEW f, NEW g,
         NEW h, NEW p \in PageNumbers, NEW v, Framed(f, s), Turn(f, g, h, p, n, v)
  PROVE  Framed(g, Append(s, p))
<1>1. PICK t : t = Append(s, p)
  OBVIOUS
<1>2. /\ t \in Seq(PageNumbers) /\ Len(t) = n + 1 /\ t[n + 1] = p
      /\ \A i \in 1 .. n : t[i] = s[i]
  BY <1>1, AppendProperties
<1>3. /\ g \in [Frames -> Frame] /\ h \in Frames
      /\ \A i \in Frames : i # h => g[i] = f[i] /\ f[i].page_id # p
      /\ g[h].page_id = p /\ g[h].time_of_access = n
      /\ g[h].time_of_arrival = IF f[h].page_id = p THEN f[h].time_of_arrival ELSE n
  BY DEF Turn
<1>4. p # NoPage
  BY PagingAssumption DEF NoPage, PageNumbers
<1>5. ASSUME NEW i \in Frames, i # h PROVE g[i] = EmptyFrame \/ Holds(g[i], t)
  <2>1. CASE f[i] = EmptyFrame
    BY <1>3, <1>5, <2>1
  <2>2. CASE Holds(f[i], s)
    <3>1. PICK r : r = g[i]
      OBVIOUS
    <3>2. r = f[i] /\ r.page_id # p /\ Holds(r, s)
      BY <1>3, <1>5, <2>2, <3>1
    <3>3. PICK a \in 0 .. n - 1 : a = r.time_of_access
      BY <3>2 DEF Holds
    <3>4. r.page_id \in PageNumbers /\ r.time_of_arrival \in 0 .. a
          /\ s[a + 1] = r.page_id /\ \A k \in 1 .. n : s[k] = r.page_id => k <= a + 1
      BY <3>2, <3>3 DEF Holds
    <3>5. a + 1 \in 1 .. n /\ a \in 0 .. (n + 1) - 1
          /\ \A k \in 1 .. n + 1 : k \in 1 .. n \/ k = n + 1
      BY <3>3
    <3>6. t[a + 1] = r.page_id /\ \A k \in 1 .. n + 1 : t[k] = r.page_id => k <= a + 1
      BY <1>2, <3>2, <3>4, <3>5
    <3> QED BY <1>2, <3>1, <3>3, <3>4, <3>5, <3>6 DEF Holds
  <2> QED BY <2>1, <2>2 DEF Framed
<1>6. Holds(g[h], t)
  <2>1. PICK r : r = g[h]
    OBVIOUS
  <2>2. r.page_id = p /\ r.time_of_access = n
    BY <1>3, <2>1
  <2>3. r.time_of_arrival \in 0 .. n
    <3>1. CASE f[h].page_id = p
      <4>1. Holds(f[h], s)
        BY <1>3, <1>4, <3>1, LoadedHolds
      <4>2. PICK a \in 0 .. n - 1 : f[h].time_of_arrival \in 0 .. a
        BY <4>1 DEF Holds
      <4>3. 0 .. a \subseteq 0 .. n
        OBVIOUS
      <4> QED BY <1>3, <2>1, <3>1, <4>2, <4>3
    <3>2. CASE f[h].page_id # p
      BY <1>3, <2>1, <3>2
    <3> QED BY <3>1, <3>2
  <2>4. n \in 0 .. (n + 1) - 1 /\ \A k \in 1 .. n + 1 : k <= n + 1
    OBVIOUS
  <2> QED BY <1>2, <2>1, <2>2, <2>3, <2>4 DEF Holds
<1>7. ASSUME NEW i \in Frames, NEW j \in Frames, g[i].page_id = g[j].page_id
      PROVE  i = j \/ g[i].page_id = NoPage
  BY <1>3, <1>7 DEF Framed
<1> QED BY <1>1, <1>3, <1>5, <1>6, <1>7 DEF Framed

-----------------------------------------------------------------------------
(* LRU holds the pages used last.                                          *)

\* The page of access k is in a frame, or those of all frames were used since.
Kept(f, s) ==
  \A k \in 1 .. Len(s) : \/ \E i \in Frames : f[i].page_id = s[k]
                         \/ Full(f) /\ \A i \in Frames : k <= f[i].time_of_access

\* The frames were last used at different times.
LEMMA TimesApart ==
  ASSUME NEW s, NEW n \in Nat, n = Len(s), NEW f, Framed(f, s), NEW i \in Frames, NEW j \in Frames,
         f[i].page_id # NoPage, f[j].page_id # NoPage, f[i].time_of_access = f[j].time_of_access
  PROVE  i = j
<1>1. Holds(f[i], s) /\ Holds(f[j], s)
  BY LoadedHolds
<1>2. f[i].page_id = f[j].page_id
  BY <1>1 DEF Holds
<1> QED BY <1>2 DEF Framed

\* It stays so when the frame used longest ago is replaced.
LEMMA KeptAfter ==
  ASSUME NEW s \in Seq(PageNumbers), NEW n \in Nat, n = Len(s), NEW f, NEW g,
         NEW h, NEW p \in PageNumbers, NEW v, Framed(f, s), Turn(f, g, h, p, n, v), Kept(f, s),
         Replaces(f, p) => v = PRAlgo_LRU(f)
  PROVE  Kept(g, Append(s, p))
<1>1. PICK t : t = Append(s, p)
  OBVIOUS
<1>2. /\ t \in Seq(PageNumbers) /\ Len(t) = n + 1 /\ t[n + 1] = p
      /\ \A i \in 1 .. n : t[i] = s[i] /\ s[i] \in PageNumbers
  BY <1>1, AppendProperties, ElementOfSeq
<1>3. /\ g \in [Frames -> Frame] /\ h \in Frames
      /\ \A i \in Frames : i # h => g[i] = f[i] /\ f[i].page_id # p
      /\ g[h].page_id = p /\ g[h].time_of_access = n
  BY DEF Turn
<1>4. p # NoPage
  BY PagingAssumption DEF NoPage, PageNumbers
<1>5. ASSUME NEW k \in 1 .. n, Full(f), \A i \in Frames : k <= f[i].time_of_access
      PROVE  Full(g) /\ \A i \in Frames : k <= g[i].time_of_access
  <2>1. ASSUME NEW i \in Frames PROVE g[i].page_id # NoPage /\ k <= g[i].time_of_access
    <3>1. CASE i = h
      BY <1>3, <1>4, <3>1
    <3>2. CASE i # h
      BY <1>3, <1>5, <3>2 DEF Full
    <3> QED BY <3>1, <3>2
  <2> QED BY <2>1 DEF Full
<1>6. ASSUME NEW k \in 1 .. n, NEW i \in Frames, f[i].page_id = s[k]
      PROVE  \/ \E j \in Frames : g[j].page_id = s[k]
             \/ Full(g) /\ \A j \in Frames : k <= g[j].time_of_access
  <2>1. CASE i # h
    BY <1>3, <1>6, <2>1
  <2>2. CASE i = h /\ f[h].page_id = p
    BY <1>3, <1>6, <2>2
  <2>3. CASE i = h /\ f[h].page_id # p
    <3>1. f[h].page_id # NoPage
      <4>1. s[k] \in PageNumbers
        BY <1>2
      <4> QED BY <1>6, <2>3, <4>1, PagingAssumption DEF NoPage, PageNumbers
    <3>2. Replaces(f, p) /\ h = v
      BY <2>3, <3>1 DEF Turn
    <3>3. Full(f) /\ \A j \in Frames : f[h].time_of_access <= f[j].time_of_access
      BY <3>2, VictimIs DEF Replaces
    <3>4. PICK a \in 0 .. n - 1 : a = f[h].time_of_access
      BY <1>3, <3>1, LoadedHolds DEF Holds
    <3>5. k <= a + 1
      BY <1>3, <1>6, <2>3, <3>1, <3>4, LoadedHolds DEF Holds
    <3>6. ASSUME NEW j \in Frames PROVE g[j].page_id # NoPage /\ k <= g[j].time_of_access
      <4>1. CASE j = h
        BY <1>3, <1>4, <4>1
      <4>2. CASE j # h
        <5>1. PICK b \in 0 .. n - 1 : b = f[j].time_of_access
          BY <3>3, LoadedHolds DEF Holds, Full
        <5>2. a # b
          BY <1>3, <3>1, <3>3, <3>4, <4>2, <5>1, TimesApart DEF Full
        <5>3. a <= b
          BY <3>3, <3>4, <5>1
        <5>4. k <= b
          BY <3>4, <3>5, <5>1, <5>2, <5>3
        <5> QED BY <1>3, <3>3, <4>2, <5>1, <5>4 DEF Full
      <4> QED BY <4>1, <4>2
    <3> QED BY <3>6 DEF Full
  <2> QED BY <2>1, <2>2, <2>3
<1>7. ASSUME NEW k \in 1 .. n + 1
      PROVE  \/ \E j \in Frames : g[j].page_id = t[k]
             \/ Full(g) /\ \A j \in Frames : k <= g[j].time_of_access
  <2>1. CASE k = n + 1
    BY <1>2, <1>3, <2>1
  <2>2. CASE k # n + 1
    <3>1. k \in 1 .. n
      BY <2>2
    <3>2. t[k] = s[k]
      BY <1>2, <3>1
    <3>3. \/ \E i \in Frames : f[i].page_id = s[k]
          \/ Full(f) /\ \A i \in Frames : k <= f[i].time_of_access
      BY <3>1 DEF Kept
    <3> QED BY <1>5, <1>6, <3>1, <3>2, <3>3
  <2> QED BY <2>1, <2>2
<1> QED BY <1>1, <1>2, <1>7 DEF Kept

PagesOf(f) == {f[i].page_id : i \in Frames} \ {NoPage}

\* There are as many pages as frames, when they are full, and at most as many.
LEMMA PagesCount ==
  ASSUME NEW s, NEW f, Framed(f, s)
  PROVE  /\ IsFiniteSet(PagesOf(f)) /\ Cardinality(PagesOf(f)) <= NUM_FRAMES
         /\ Full(f) => Cardinality(PagesOf(f)) = NUM_FRAMES
<1>1. IsFiniteSet(Frames) /\ Cardinality(Frames) = NUM_FRAMES /\ NUM_FRAMES \in Nat
  <2>1. 0 \in Int /\ NUM_FRAMES - 1 \in Int /\ ~ (0 > NUM_FRAMES - 1)
        /\ (NUM_FRAMES - 1) - 0 + 1 = NUM_FRAMES
    BY PagingAssumption
  <2> QED BY <2>1, FS_Interval, PagingAssumption DEF Frames
<1> DEFINE S == {f[i].page_id : i \in Frames}
           page == [i \in Frames |-> f[i].page_id]
<1>2. page \in Surjection(Frames, S)
  BY DEF Surjection
<1> HIDE DEF page
<1>3. /\ IsFiniteSet(S) /\ Cardinality(S) <= NUM_FRAMES
      /\ Cardinality(S) = NUM_FRAMES <=> page \in Injection(Frames, S)
  BY <1>1, <1>2, FS_Surjection
<1>4. PagesOf(f) \in SUBSET S
  BY DEF PagesOf
<1>5. IsFiniteSet(PagesOf(f)) /\ Cardinality(PagesOf(f)) <= Cardinality(S)
  BY <1>3, <1>4, FS_Subset
<1>6. Cardinality(PagesOf(f)) <= NUM_FRAMES
  <2>1. Cardinality(PagesOf(f)) \in Nat /\ Cardinality(S) \in Nat
    BY <1>3, <1>5, FS_CardinalityType
  <2> QED BY <1>1, <1>3, <1>5, <2>1
<1>7. ASSUME Full(f) PROVE Cardinality(PagesOf(f)) = NUM_FRAMES
  <2>1. PagesOf(f) = S
    BY <1>7 DEF PagesOf, Full
  <2>2. page \in Injection(Frames, S)
    <3>1. page \in [Frames -> S]
      BY <1>2 DEF Surjection
    <3>2. ASSUME NEW i \in Frames, NEW j \in Frames, page[i] = page[j] PROVE i = j
      BY <1>7, <3>2 DEF page, Full, Framed
    <3>3. DOMAIN page = Frames
      BY <3>1
    <3> QED BY <3>1, <3>2, <3>3 DEF Injection, IsInjective
  <2> QED BY <1>3, <2>1, <2>2
<1> QED BY <1>5, <1>6, <1>7

\* The pages in the frames are the last different ones.
LEMMA KeptIsRecent ==
  ASSUME NEW s \in Seq(PageNumbers), NEW f, Framed(f, s), Kept(f, s)
  PROVE  PagesOf(f) = Recent(s)
<1>1. PICK n \in Nat : n = Len(s) /\ DOMAIN s = 1 .. n
  BY LenProperties
<1>2. \A k \in 1 .. n : s[k] \in PageNumbers /\ s[k] # NoPage
  BY <1>1, ElementOfSeq, PagingAssumption DEF NoPage, PageNumbers
<1> DEFINE since(k) == {s[j] : j \in k .. n}
<1>3. \A q : q \in Recent(s) <=>
        \E k \in 1 .. n : Cardinality(since(k)) <= NUM_FRAMES /\ q \in since(k)
  BY <1>1 DEF Recent
<1>4. ASSUME NEW i \in Frames, f[i].page_id # NoPage PROVE f[i].page_id \in Recent(s)
  <2>1. PICK a \in 0 .. n - 1 : a = f[i].time_of_access /\ s[a + 1] = f[i].page_id
    BY <1>1, <1>4, LoadedHolds DEF Holds
  <2>2. a + 1 \in 1 .. n /\ a + 1 \in a + 1 .. n
    OBVIOUS
  <2>3. ASSUME NEW j \in a + 1 .. n PROVE s[j] \in PagesOf(f)
    <3>1. j \in 1 .. n /\ ~ (j <= a)
      BY <2>1
    <3>2. PICK k \in Frames : f[k].page_id = s[j]
      BY <1>1, <2>1, <3>1 DEF Kept
    <3> QED BY <1>2, <3>1, <3>2 DEF PagesOf
  <2>4. since(a + 1) \in SUBSET PagesOf(f)
    BY <2>3
  <2>5. Cardinality(since(a + 1)) <= NUM_FRAMES
    <3> HIDE DEF since
    <3>1. /\ IsFiniteSet(PagesOf(f)) /\ Cardinality(PagesOf(f)) <= NUM_FRAMES
      BY PagesCount
    <3>2. IsFiniteSet(since(a + 1)) /\ Cardinality(since(a + 1)) <= Cardinality(PagesOf(f))
      BY <2>4, <3>1, FS_Subset
    <3>3. Cardinality(PagesOf(f)) \in Nat /\ Cardinality(since(a + 1)) \in Nat /\ NUM_FRAMES \in Nat
      BY <3>1, <3>2, FS_CardinalityType, PagingAssumption
    <3> QED BY <3>1, <3>2, <3>3
  <2>6. f[i].page_id \in since(a + 1)
    BY <2>1, <2>2
  <2> QED BY <1>3, <2>2, <2>5, <2>6
<1>5. ASSUME NEW k \in 1 .. n, Cardinality(since(k)) <= NUM_FRAMES, NEW j \in k .. n
      PROVE  s[j] \in PagesOf(f)
  <2>1. j \in 1 .. n
    OBVIOUS
  <2>2. SUFFICES ASSUME ~ \E i \in Frames : f[i].page_id = s[j] PROVE FALSE
    BY <1>2, <2>1 DEF PagesOf
  <2>3. Full(f) /\ \A i \in Frames : j <= f[i].time_of_access
    BY <1>1, <2>1, <2>2 DEF Kept
  <2>4. ASSUME NEW i \in Frames PROVE f[i].page_id \in since(k)
    <3>1. PICK a \in 0 .. n - 1 : a = f[i].time_of_access /\ s[a + 1] = f[i].page_id
      BY <1>1, <2>3, LoadedHolds DEF Holds, Full
    <3>2. a + 1 \in k .. n
      BY <2>3, <3>1
    <3> QED BY <3>1, <3>2
  <2>5. PagesOf(f) \cup {s[j]} \in SUBSET since(k) /\ s[j] \notin PagesOf(f)
    BY <2>2, <2>4 DEF PagesOf
  <2>6. IsFiniteSet(since(k))
    <3>1. IsFiniteSet(PageNumbers)
      <4>1. 1 \in Int /\ NUM_PAGES \in Int
        BY PagingAssumption
      <4> QED BY <4>1, FS_Interval DEF PageNumbers
    <3>2. since(k) \in SUBSET PageNumbers
      <4>1. \A l \in k .. n : l \in 1 .. n
        OBVIOUS
      <4> QED BY <1>2, <4>1
    <3> HIDE DEF since
    <3> QED BY <3>1, <3>2, FS_Subset
  <2> HIDE DEF since
  <2>7. IsFiniteSet(PagesOf(f)) /\ Cardinality(PagesOf(f)) = NUM_FRAMES
    BY <2>3, PagesCount
  <2>8. Cardinality(PagesOf(f) \cup {s[j]}) = Cardinality(PagesOf(f)) + 1
    BY <2>5, <2>7, FS_AddElement
  <2>9. Cardinality(PagesOf(f) \cup {s[j]}) <= Cardinality(since(k))
    BY <2>5, <2>6, FS_Subset
  <2>10. Cardinality(since(k)) \in Nat /\ NUM_FRAMES \in Nat
    BY <2>6, FS_CardinalityType, PagingAssumption
  <2> QED BY <1>5, <2>7, <2>8, <2>9, <2>10
<1>6. \A q \in PagesOf(f) : q \in Recent(s)
  BY <1>4 DEF PagesOf
<1>7. \A q \in Recent(s) : q \in PagesOf(f)
  BY <1>3, <1>5
<1> QED BY <1>6, <1>7

-----------------------------------------------------------------------------
(* FIFO holds the pages of a queue.                                        *)

Taken(f) == {i \in Frames : f[i].page_id # NoPage}

\* The pages of the frames in the order of their arrival.
Queued(f, q) ==
  /\ q \in Seq(PageNumbers) /\ Len(q) = Cardinality(Taken(f))
  /\ \A i \in Taken(f) : \E k \in 1 .. Len(q) : q[k] = f[i].page_id
  /\ \A k \in 1 .. Len(q) : \E i \in Frames : f[i].page_id = q[k]
  /\ \A i, j \in Frames, k, l \in 1 .. Len(q) :
       f[i].page_id = q[k] /\ f[j].page_id = q[l] /\ k < l =>
         f[i].time_of_arrival < f[j].time_of_arrival

\* There are NUM_FRAMES of them when the frames are full.
LEMMA TakenCount ==
  ASSUME NEW f
  PROVE  /\ IsFiniteSet(Taken(f)) /\ Cardinality(Taken(f)) \in 0 .. NUM_FRAMES
         /\ Full(f) <=> Cardinality(Taken(f)) = NUM_FRAMES
<1>1. IsFiniteSet(Frames) /\ Cardinality(Frames) = NUM_FRAMES /\ NUM_FRAMES \in Nat
  <2>1. 0 \in Int /\ NUM_FRAMES - 1 \in Int /\ ~ (0 > NUM_FRAMES - 1)
        /\ (NUM_FRAMES - 1) - 0 + 1 = NUM_FRAMES
    BY PagingAssumption
  <2> QED BY <2>1, FS_Interval, PagingAssumption DEF Frames
<1>2. Taken(f) \in SUBSET Frames /\ (Full(f) <=> Taken(f) = Frames)
  BY DEF Taken, Full
<1>3. /\ IsFiniteSet(Taken(f)) /\ Cardinality(Taken(f)) <= NUM_FRAMES
      /\ NUM_FRAMES = Cardinality(Taken(f)) => Frames = Taken(f)
  BY <1>1, <1>2, FS_Subset
<1>4. Cardinality(Taken(f)) \in Nat
  BY <1>3, FS_CardinalityType
<1> QED BY <1>1, <1>2, <1>3, <1>4

\* A page that enters stays in the order of its arrival, and the one that leaves
\* is the first.
LEMMA QueuedAfter ==
  ASSUME NEW s \in Seq(PageNumbers), NEW n \in Nat, n = Len(s), NEW f, NEW g, NEW q,
         NEW h, NEW p \in PageNumbers, NEW v, Framed(f, s), Turn(f, g, h, p, n, v), Queued(f, q),
         Replaces(f, p) => v = PRAlgo_FIFO(f)
  PROVE  Queued(g, Enter(q, p))
<1>1. /\ g \in [Frames -> Frame] /\ h \in Frames
      /\ \A i \in Frames : i # h => g[i] = f[i] /\ f[i].page_id # p
      /\ g[h].page_id = p
      /\ g[h].time_of_arrival = IF f[h].page_id = p THEN f[h].time_of_arrival ELSE n
  BY DEF Turn
<1>2. p # NoPage
  BY PagingAssumption DEF NoPage, PageNumbers
<1>3. PICK m \in Nat : m = Len(q) /\ DOMAIN q = 1 .. m
  BY LenProperties DEF Queued
<1>4. /\ q \in Seq(PageNumbers) /\ m = Cardinality(Taken(f))
      /\ \A i \in Taken(f) : \E k \in 1 .. m : q[k] = f[i].page_id
      /\ \A k \in 1 .. m : \E i \in Frames : f[i].page_id = q[k]
      /\ \A i, j \in Frames, k, l \in 1 .. m :
           f[i].page_id = q[k] /\ f[j].page_id = q[l] /\ k < l =>
             f[i].time_of_arrival < f[j].time_of_arrival
  BY <1>3 DEF Queued
<1>5. \A k \in 1 .. m : q[k] \in PageNumbers /\ q[k] # NoPage
  BY <1>3, <1>4, ElementOfSeq, PagingAssumption DEF NoPage, PageNumbers
<1>6. \A i \in Frames : f[i].page_id # NoPage => f[i].time_of_arrival < n
  <2>1. ASSUME NEW i \in Frames, f[i].page_id # NoPage PROVE f[i].time_of_arrival < n
    <3>1. Holds(f[i], s)
      BY <2>1, LoadedHolds
    <3>2. PICK a \in 0 .. n - 1 : f[i].time_of_arrival \in 0 .. a
      BY <3>1 DEF Holds
    <3> QED BY <3>2
  <2> QED BY <2>1
<1>7. CASE f[h].page_id = p
  <2>1. p \in ToSet(q)
    <3>1. PICK k \in 1 .. m : q[k] = f[h].page_id
      BY <1>1, <1>2, <1>4, <1>7 DEF Taken
    <3> QED BY <1>3, <1>7, <3>1 DEF ToSet
  <2>2. Enter(q, p) = q
    BY <2>1 DEF Enter
  <2>3. \A i \in Frames : g[i].page_id = f[i].page_id /\ g[i].time_of_arrival = f[i].time_of_arrival
    BY <1>1, <1>7
  <2>4. Taken(g) = Taken(f)
    BY <2>3 DEF Taken
  <2>5. /\ \A i \in Taken(g) : \E k \in 1 .. m : q[k] = g[i].page_id
        /\ \A k \in 1 .. m : \E i \in Frames : g[i].page_id = q[k]
        /\ \A i, j \in Frames, k, l \in 1 .. m :
             g[i].page_id = q[k] /\ g[j].page_id = q[l] /\ k < l =>
               g[i].time_of_arrival < g[j].time_of_arrival
    <3>1. \A i \in Taken(f) : i \in Frames
      BY DEF Taken
    <3> QED BY <1>4, <2>3, <2>4, <3>1
  <2> QED BY <1>3, <1>4, <2>2, <2>4, <2>5 DEF Queued
<1>8. CASE f[h].page_id # p
  <2>1. Missing(f, p)
    BY <1>8 DEF Turn, Replaces
  <2>2. p \notin ToSet(q)
    BY <1>3, <1>4, <2>1 DEF ToSet, Missing
  <2>3. g[h].time_of_arrival = n
    BY <1>1, <1>8
  <2>4. CASE f[h].page_id = NoPage
    <3>1. m # NUM_FRAMES
      BY <1>1, <1>4, <2>4, TakenCount DEF Full
    <3>2. PICK r : r = Enter(q, p)
      OBVIOUS
    <3>3. r = Append(q, p)
      BY <1>3, <2>2, <3>1, <3>2 DEF Enter
    <3>4. r \in Seq(PageNumbers) /\ Len(r) = m + 1 /\ r[m + 1] = p /\ \A k \in 1 .. m : r[k] = q[k]
      BY <1>3, <1>4, <3>3, AppendProperties
    <3>5. Taken(g) = Taken(f) \cup {h} /\ h \notin Taken(f)
      BY <1>1, <1>2, <2>4 DEF Taken
    <3>6. Cardinality(Taken(g)) = m + 1
      BY <1>4, <3>5, TakenCount, FS_AddElement
    <3>7. m + 1 \in 1 .. m + 1 /\ (\A k \in 1 .. m : k \in 1 .. m + 1)
          /\ \A k \in 1 .. m + 1 : k \in 1 .. m \/ k = m + 1
      OBVIOUS
    <3>8. ASSUME NEW i \in Taken(g) PROVE \E k \in 1 .. m + 1 : r[k] = g[i].page_id
      <4>1. CASE i = h
        BY <1>1, <3>4, <3>7, <4>1
      <4>2. CASE i # h
        <5>1. i \in Taken(f) /\ g[i] = f[i]
          BY <1>1, <3>5, <4>2 DEF Taken
        <5> QED BY <1>4, <3>4, <3>7, <5>1
      <4> QED BY <4>1, <4>2
    <3>9. ASSUME NEW k \in 1 .. m + 1 PROVE \E i \in Frames : g[i].page_id = r[k]
      <4>1. CASE k = m + 1
        BY <1>1, <3>4, <4>1
      <4>2. CASE k # m + 1
        <5>1. k \in 1 .. m /\ r[k] = q[k]
          BY <3>4, <3>7, <4>2
        <5>2. PICK i \in Frames : f[i].page_id = q[k]
          BY <1>4, <5>1
        <5>3. i # h
          BY <1>5, <2>4, <5>1, <5>2
        <5> QED BY <1>1, <5>1, <5>2, <5>3
      <4> QED BY <4>1, <4>2
    <3>10. ASSUME NEW i \in Frames, NEW j \in Frames, NEW k \in 1 .. m + 1, NEW l \in 1 .. m + 1,
                  g[i].page_id = r[k], g[j].page_id = r[l], k < l
           PROVE  g[i].time_of_arrival < g[j].time_of_arrival
      <4>1. k \in 1 .. m /\ r[k] = q[k]
        <5>1. k \in 1 .. m
          BY <3>10
        <5> QED BY <3>4, <5>1
      <4>2. q[k] # p /\ i # h
        BY <1>1, <1>3, <2>2, <3>10, <4>1 DEF ToSet
      <4>3. f[i].page_id = q[k] /\ g[i] = f[i] /\ f[i].page_id # NoPage
        BY <1>1, <1>5, <3>10, <4>1, <4>2
      <4>4. CASE l = m + 1
        <5>1. j = h
          BY <1>1, <3>4, <3>10, <4>4
        <5> QED BY <1>6, <2>3, <4>3, <5>1
      <4>5. CASE l # m + 1
        <5>1. l \in 1 .. m /\ r[l] = q[l]
          BY <3>4, <3>7, <4>5
        <5>2. q[l] # p /\ j # h
          BY <1>1, <1>3, <2>2, <3>10, <5>1 DEF ToSet
        <5>3. f[j].page_id = q[l] /\ g[j] = f[j]
          BY <1>1, <3>10, <5>1, <5>2
        <5> QED BY <1>4, <3>10, <4>1, <4>3, <5>1, <5>3
      <4> QED BY <4>4, <4>5
    <3> QED BY <3>2, <3>4, <3>6, <3>8, <3>9, <3>10 DEF Queued
  <2>5. CASE f[h].page_id # NoPage
    <3>1. Full(f) /\ h = v /\ v = PRAlgo_FIFO(f)
      BY <1>8, <2>5 DEF Turn, Replaces
    <3>2. m = NUM_FRAMES /\ m - 1 \in Nat /\ m > 1
      BY <1>4, <3>1, TakenCount, PagingAssumption
    <3>3. q # <<>>
      BY <1>3, <1>4, <3>2, EmptySeq
    <3>4. PICK u : u = Tail(q)
      OBVIOUS
    <3>5. /\ u \in Seq(PageNumbers) /\ Len(u) = m - 1
          /\ \A k \in 1 .. m - 1 : u[k] = q[k + 1]
      BY <1>3, <1>4, <3>3, <3>4, HeadTailProperties
    <3>6. PICK r : r = Enter(q, p)
      OBVIOUS
    <3>7. r = Append(u, p)
      BY <1>3, <2>2, <3>2, <3>4, <3>6 DEF Enter
    <3>8. /\ r \in Seq(PageNumbers) /\ Len(r) = m /\ r[m] = p
          /\ \A k \in 1 .. m - 1 : r[k] = u[k]
      <4>1. m - 1 + 1 = m /\ m - 1 \in Nat
        BY <3>2
      <4> QED BY <3>5, <3>7, <4>1, AppendProperties
    <3>9. \A k \in 1 .. m - 1 : r[k] = q[k + 1] /\ k + 1 \in 1 .. m /\ k \in 1 .. m
      <4>1. \A k \in 1 .. m - 1 : k + 1 \in 1 .. m /\ k \in 1 .. m
        OBVIOUS
      <4> QED BY <3>5, <3>8, <4>1
    <3>10. f[h].page_id = q[1]
      <4>1. 1 \in 1 .. m
        BY <3>2
      <4>2. PICK i \in Frames : f[i].page_id = q[1]
        BY <1>4, <4>1
      <4>3. PICK k \in 1 .. m : q[k] = f[h].page_id
        BY <1>1, <1>4, <2>5 DEF Taken
      <4>4. CASE k = 1
        BY <4>3, <4>4
      <4>5. CASE k # 1
        <5>1. 1 < k
          BY <4>5
        <5>2. f[i].time_of_arrival < f[h].time_of_arrival
          BY <1>1, <1>4, <4>1, <4>2, <4>3, <5>1
        <5>3. f[h].time_of_arrival <= f[i].time_of_arrival
          BY <3>1, VictimIs
        <5>4. f[h].time_of_arrival \in Int /\ f[i].time_of_arrival \in Int
          BY <1>1 DEF Framed, Frame
        <5> QED BY <5>2, <5>3, <5>4
      <4> QED BY <4>4, <4>5
    <3>11. Taken(g) = Taken(f)
      BY <1>1, <1>2, <2>5 DEF Taken
    <3>12. ASSUME NEW i \in Taken(g) PROVE \E k \in 1 .. m : r[k] = g[i].page_id
      <4>1. CASE i = h
        <5>1. m \in 1 .. m
          BY <3>2
        <5> QED BY <1>1, <3>8, <4>1, <5>1
      <4>2. CASE i # h
        <5>1. i \in Frames /\ i \in Taken(f) /\ g[i] = f[i]
          BY <1>1, <3>11, <4>2 DEF Taken
        <5>2. PICK k \in 1 .. m : q[k] = f[i].page_id
          BY <1>4, <5>1
        <5>3. k # 1
          <6>1. f[i].page_id # NoPage
            BY <5>1 DEF Taken
          <6> QED BY <1>1, <3>10, <4>2, <5>1, <5>2, <6>1 DEF Framed
        <5>4. k - 1 \in 1 .. m - 1 /\ (k - 1) + 1 = k
          BY <5>3
        <5> QED BY <3>9, <5>1, <5>2, <5>4
      <4> QED BY <4>1, <4>2
    <3>13. ASSUME NEW k \in 1 .. m - 1, NEW i \in Frames, f[i].page_id = q[k + 1]
           PROVE  i # h
      <4>1. CASE i = h
        <5>1. 1 \in 1 .. m /\ 1 < k + 1 /\ k + 1 \in 1 .. m
          BY <3>2
        <5>2. f[h].time_of_arrival < f[h].time_of_arrival
          BY <1>1, <1>4, <3>10, <3>13, <4>1, <5>1
        <5>3. f[h].time_of_arrival \in Int
          BY <1>1 DEF Framed, Frame
        <5> QED BY <5>2, <5>3
      <4> QED BY <4>1
    <3>14. ASSUME NEW k \in 1 .. m PROVE \E i \in Frames : g[i].page_id = r[k]
      <4>1. CASE k = m
        BY <1>1, <3>8, <4>1
      <4>2. CASE k # m
        <5>1. k \in 1 .. m - 1
          BY <4>2
        <5>2. r[k] = q[k + 1] /\ k + 1 \in 1 .. m
          BY <3>9, <5>1
        <5>3. PICK i \in Frames : f[i].page_id = q[k + 1]
          BY <1>4, <5>2
        <5>4. i # h
          BY <3>13, <5>1, <5>3
        <5> QED BY <1>1, <5>2, <5>3, <5>4
      <4> QED BY <4>1, <4>2
    <3>15. ASSUME NEW i \in Frames, NEW j \in Frames, NEW k \in 1 .. m, NEW l \in 1 .. m,
                  g[i].page_id = r[k], g[j].page_id = r[l], k < l
           PROVE  g[i].time_of_arrival < g[j].time_of_arrival
      <4>1. k \in 1 .. m - 1 /\ k + 1 \in 1 .. m
        BY <3>15
      <4>2. r[k] = q[k + 1]
        BY <3>9, <4>1
      <4>3. q[k + 1] # p /\ i # h
        BY <1>1, <1>3, <2>2, <3>15, <4>1, <4>2 DEF ToSet
      <4>4. f[i].page_id = q[k + 1] /\ g[i] = f[i] /\ f[i].page_id # NoPage
        BY <1>1, <1>5, <3>15, <4>1, <4>2, <4>3
      <4>5. CASE l = m
        <5>1. j = h
          BY <1>1, <3>8, <3>15, <4>5
        <5> QED BY <1>6, <2>3, <4>4, <5>1
      <4>6. CASE l # m
        <5>1. l \in 1 .. m - 1 /\ l + 1 \in 1 .. m /\ k + 1 < l + 1
          BY <3>15, <4>6
        <5>2. r[l] = q[l + 1]
          BY <3>9, <5>1
        <5>3. q[l + 1] # p /\ j # h
          BY <1>1, <1>3, <2>2, <3>15, <5>1, <5>2 DEF ToSet
        <5>4. f[j].page_id = q[l + 1] /\ g[j] = f[j]
          BY <1>1, <3>15, <5>2, <5>3
        <5> QED BY <1>4, <4>1, <4>4, <5>1, <5>4
      <4> QED BY <4>5, <4>6
    <3> QED BY <1>4, <3>6, <3>8, <3>11, <3>12, <3>14, <3>15 DEF Queued
  <2> QED BY <2>4, <2>5
<1> QED BY <1>7, <1>8

\* The pages in the frames are those in the queue.
LEMMA QueuedPages ==
  ASSUME NEW f, NEW q, Queued(f, q)
  PROVE  PagesOf(f) = ToSet(q)
<1>1. PICK m \in Nat : m = Len(q) /\ DOMAIN q = 1 .. m
  BY LenProperties DEF Queued
<1>2. \A k \in 1 .. m : q[k] \in PageNumbers /\ q[k] # NoPage
  BY <1>1, ElementOfSeq, PagingAssumption DEF Queued, NoPage, PageNumbers
<1>3. \A x : x \in ToSet(q) <=> \E k \in 1 .. m : x = q[k]
  BY <1>1 DEF ToSet
<1>4. \A x \in PagesOf(f) : x \in ToSet(q)
  BY <1>1, <1>3 DEF Queued, PagesOf, Taken
<1>5. ASSUME NEW k \in 1 .. m PROVE q[k] \in PagesOf(f)
  <2>1. PICK i \in Frames : f[i].page_id = q[k]
    BY <1>1 DEF Queued
  <2> QED BY <1>2, <2>1 DEF PagesOf
<1>6. \A x \in ToSet(q) : x \in PagesOf(f)
  BY <1>3, <1>5
<1> QED BY <1>4, <1>6

\* A page that enters a queue makes a queue of it.
LEMMA EnterType ==
  ASSUME NEW q \in Seq(PageNumbers), NEW p \in PageNumbers
  PROVE  Enter(q, p) \in Seq(PageNumbers)
<1>1. ASSUME Len(q) = NUM_FRAMES PROVE Tail(q) \in Seq(PageNumbers)
  <2>1. q # <<>>
    BY <1>1, EmptySeq, PagingAssumption
  <2> QED BY <2>1, HeadTailProperties
<1>2. PICK u \in Seq(PageNumbers) : u = IF Len(q) = NUM_FRAMES THEN Tail(q) ELSE q
  BY <1>1
<1>3. Append(u, p) \in Seq(PageNumbers)
  BY <1>2, AppendProperties
<1> QED BY <1>2, <1>3 DEF Enter

\* The queue behind each access.
LEMMA QueueSteps ==
  ASSUME NEW s \in Seq(PageNumbers)
  PROVE  /\ Queues(s)[0] = <<>>
         /\ \A k \in 1 .. Len(s) : Queues(s)[k] = Enter(Queues(s)[k - 1], s[k])
<1>1. PICK n \in Nat : n = Len(s)
  BY LenProperties
<1>2. \A k \in 1 .. n : s[k] \in PageNumbers
  BY <1>1, ElementOfSeq
<1>3. PICK X : X = Seq(PageNumbers)
  OBVIOUS
<1> DEFINE enter(k) == [q \in X |-> Enter(q, s[k])]
           step == [k \in 1 .. n |-> enter(k)]
<1>4. ASSUME NEW k \in 1 .. n PROVE step[k] = enter(k) /\ enter(k) \in [X -> X]
  <2>1. \A q \in X : Enter(q, s[k]) \in X
    BY <1>2, <1>3, EnterType
  <2>2. enter(k) \in [X -> X]
    BY <2>1
  <2> QED BY <2>2
<1>5. StepsIn(step, n, X) /\ \A k \in 1 .. n, q \in X : step[k][q] = Enter(q, s[k])
  <2>1. \A k \in 1 .. n, q \in X : enter(k)[q] = Enter(q, s[k])
    OBVIOUS
  <2>2. step = [k \in 1 .. n |-> step[k]]
    OBVIOUS
  <2> HIDE DEF enter, step
  <2> QED BY <1>4, <2>1, <2>2 DEF StepsIn
<1> HIDE DEF step
<1>6. PICK e : e = <<>>
  OBVIOUS
<1>7. e \in X
  BY <1>3, <1>6
<1>8. PICK g \in [0 .. n -> X] : g[0] = e /\ \A k \in 1 .. n : g[k] = step[k][g[k - 1]]
  BY <1>5, <1>7, Recursion
<1>9. \A k \in 1 .. n : g[k] = Enter(g[k - 1], s[k])
  <2>1. \A k \in 1 .. n : k - 1 \in 0 .. n
    OBVIOUS
  <2> QED BY <1>5, <1>8, <2>1
<1> DEFINE Is(u) == u = [k \in 0 .. Len(s) |-> IF k = 0 THEN <<>> ELSE Enter(u[k - 1], s[k])]
<1>10. \E u : Is(u)
  <2>1. ASSUME NEW k \in 0 .. n PROVE g[k] = IF k = 0 THEN <<>> ELSE Enter(g[k - 1], s[k])
    <3>1. k = 0 \/ k \in 1 .. n
      OBVIOUS
    <3> QED BY <1>6, <1>8, <1>9, <3>1
  <2>2. g = [k \in 0 .. n |-> IF k = 0 THEN <<>> ELSE Enter(g[k - 1], s[k])]
    BY <1>8, <2>1
  <2> QED BY <1>1, <2>2
<1>11. Queues(s) = CHOOSE u : Is(u)
  BY DEF Queues
<1>12. Is(Queues(s))
  <2> HIDE DEF Is
  <2> QED BY <1>10, <1>11
<1>13. PICK u : u = Queues(s)
  OBVIOUS
<1>14. u = [k \in 0 .. n |-> IF k = 0 THEN <<>> ELSE Enter(u[k - 1], s[k])]
  BY <1>1, <1>12, <1>13
<1> HIDE DEF Is
<1>15. u[0] = <<>> /\ \A k \in 1 .. n : u[k] = Enter(u[k - 1], s[k])
  <2>1. 0 \in 0 .. n /\ \A k \in 1 .. n : k \in 0 .. n /\ k # 0
    OBVIOUS
  <2> QED BY <1>14, <2>1
<1> QED BY <1>1, <1>13, <1>15

\* One more access, and the queue is what the page made of it: a first place where
\* the queues differ would not be there.
LEMMA QueueAfter ==
  ASSUME NEW s \in Seq(PageNumbers), NEW n \in Nat, n = Len(s), NEW p \in PageNumbers
  PROVE  Queues(Append(s, p))[n + 1] = Enter(Queues(s)[n], p)
<1>1. PICK t : t = Append(s, p)
  OBVIOUS
<1>2. /\ t \in Seq(PageNumbers) /\ Len(t) = n + 1 /\ t[n + 1] = p
      /\ \A k \in 1 .. n : t[k] = s[k]
  BY <1>1, AppendProperties
<1>3. PICK u, w : u = Queues(s) /\ w = Queues(t)
  OBVIOUS
<1>4. u[0] = <<>> /\ \A k \in 1 .. n : u[k] = Enter(u[k - 1], s[k])
  BY <1>3, QueueSteps
<1>5. w[0] = <<>> /\ \A k \in 1 .. n + 1 : w[k] = Enter(w[k - 1], t[k])
  BY <1>2, <1>3, QueueSteps
<1> DEFINE Differ == {k \in 1 .. n : u[k] # w[k]}
<1>6. Differ = {}
  <2>1. SUFFICES ASSUME Differ # {} PROVE FALSE
    OBVIOUS
  <2>2. Differ \in SUBSET (1 .. n)
    OBVIOUS
  <2>3. PICK k \in Differ : \A j \in Differ : k <= j
    <3> HIDE DEF Differ
    <3> QED BY <2>1, <2>2, Least
  <2>4. k \in 1 .. n /\ u[k] # w[k] /\ k \in 1 .. n + 1 /\ (k = 1 \/ k - 1 \in 1 .. n)
        /\ ~ (k <= k - 1)
    BY <2>3
  <2>5. u[k - 1] = w[k - 1]
    <3>1. CASE k = 1
      <4>1. k - 1 = 0
        BY <3>1
      <4> QED BY <1>4, <1>5, <4>1
    <3>2. CASE k # 1
      BY <2>3, <2>4, <3>2
    <3> QED BY <3>1, <3>2
  <2> QED BY <1>2, <1>4, <1>5, <2>4, <2>5
<1>7. u[n] = w[n]
  <2>1. CASE n = 0
    BY <1>4, <1>5, <2>1
  <2>2. CASE n # 0
    <3>1. n \in 1 .. n
      BY <2>2
    <3> QED BY <1>6, <3>1
  <2> QED BY <2>1, <2>2
<1>8. n + 1 \in 1 .. n + 1 /\ (n + 1) - 1 = n
  OBVIOUS
<1>9. w[n + 1] = Enter(w[n], p)
  BY <1>2, <1>5, <1>8
<1> QED BY <1>1, <1>3, <1>7, <1>9

-----------------------------------------------------------------------------
(* The sequential workload.                                                *)

PageAt(n) == (n % NUM_PAGES) + 1
InTurn(s) == \A k \in 1 .. Len(s) : s[k] = PageAt(k - 1)

\* A frame for each page: nothing is ever replaced.
Few(f, n) == \A i \in Frames : f[i].page_id = IF i < n /\ i < NUM_PAGES THEN i + 1 ELSE NoPage

\* The frames of LRU and FIFO, when there are fewer of them than pages: those of
\* the last accesses, all of them faults.
Rolling(f, n) ==
  \A i \in Frames :
    /\ f[i].page_id # NoPage <=> i < n
    /\ i < n => /\ f[i].time_of_access = f[i].time_of_arrival
                /\ f[i].time_of_access >= n - NUM_FRAMES

\* Those of OPT and CUST: only the last one changes once it was loaded.
LastChanges(f, n) ==
  \A i \in Frames :
    /\ f[i].page_id # NoPage <=> i < n
    /\ i < n => IF i < NUM_FRAMES - 1 THEN f[i].page_id = i + 1 ELSE f[i].page_id >= NUM_FRAMES

\* While page i + 1 came to frame i the frame and the access have one number.
LEMMA PageAtIs ==
  ASSUME NEW n \in Nat
  PROVE  /\ PageAt(n) \in PageNumbers
         /\ n < NUM_PAGES => PageAt(n) = n + 1
<1>1. NUM_PAGES \in Nat \ {0}
  BY PagingAssumption
<1>2. PICK N \in Nat \ {0} : N = NUM_PAGES
  BY <1>1
<1>3. n % N \in 0 .. N - 1
  BY DivMod
<1>4. n < N => n % N = n
  <2>1. ASSUME n < N PROVE n % N = n
    <3>0. n = N * (n \div N) + (n % N) /\ n \div N \in Nat /\ n % N \in 0 .. N - 1
      BY DivMod
    <3>1. PICK d \in Nat, r \in 0 .. N - 1 : n = N * d + r /\ r = n % N
      BY <3>0
    <3>2. CASE d = 0
      BY <3>1, <3>2
    <3>3. CASE d # 0
      <4>1. \A x, y \in Nat : y # 0 => x * y >= x
        OBVIOUS
      <4>2. N * d >= N /\ N * d \in Nat
        BY <3>3, <4>1
      <4> QED BY <2>1, <3>1, <4>2
    <3> QED BY <3>2, <3>3
  <2> QED BY <2>1
<1> QED BY <1>2, <1>3, <1>4 DEF PageAt, PageNumbers

\* Pages asked for less than NUM_PAGES apart differ.
LEMMA PagesApart ==
  ASSUME NEW i \in Nat, NEW j \in Nat, i < j, j - i < NUM_PAGES
  PROVE  PageAt(i) # PageAt(j)
<1>1. PICK N \in Nat \ {0} : N = NUM_PAGES
  BY PagingAssumption
<1>2. i % N # j % N
  BY <1>1, RemaindersApart
<1>3. i % N \in Int /\ j % N \in Int
  BY DivMod
<1> QED BY <1>1, <1>2, <1>3 DEF PageAt

\* While frames are free access n loads frame n.
LEMMA LoadsNext ==
  ASSUME NEW n \in Nat, NEW f, NEW g, NEW h, NEW p, NEW v, Turn(f, g, h, p, n, v),
         \A i \in Frames : f[i].page_id # NoPage <=> i < n, Missing(f, p), n < NUM_FRAMES
  PROVE  h = n /\ g[h].time_of_arrival = n
<1>1. n \in Frames /\ \A i \in Frames : i \in Int
  BY PagingAssumption DEF Frames
<1>2. h \in Frames /\ f[h].page_id # p /\ ~ Full(f)
  BY <1>1 DEF Turn, Full, Missing
<1>3. f[h].page_id = NoPage /\ \A i \in Frames : i < h => f[i].page_id # NoPage
  BY <1>2 DEF Turn, Replaces
<1>4. ~ (h < n) /\ ~ (n < h)
  BY <1>1, <1>2, <1>3
<1>5. h = n
  BY <1>1, <1>2, <1>4
<1> QED BY <1>2, <1>5 DEF Turn

\* With a frame for each page the first accesses load them, and no other faults.
LEMMA FewAfter ==
  ASSUME NEW n \in Nat, NEW f, NEW g, NEW h, NEW v, NUM_PAGES <= NUM_FRAMES,
         Few(f, n), Turn(f, g, h, PageAt(n), n, v)
  PROVE  Few(g, n + 1) /\ (Missing(f, PageAt(n)) <=> n < NUM_PAGES)
<1>1. /\ NUM_PAGES \in Nat /\ NUM_PAGES > 0 /\ NUM_FRAMES \in Nat
      /\ \A i \in Frames : i \in Nat /\ i < NUM_FRAMES
      /\ \A i \in Nat : i < NUM_FRAMES => i \in Frames
  BY PagingAssumption DEF Frames
<1>2. PICK p : p = PageAt(n)
  OBVIOUS
<1>3. p \in 1 .. NUM_PAGES /\ (n < NUM_PAGES => p = n + 1) /\ p # NoPage
  BY <1>1, <1>2, PageAtIs DEF PageNumbers, NoPage
<1>4. /\ h \in Frames
      /\ \A i \in Frames : i # h => g[i] = f[i] /\ f[i].page_id # p
      /\ g[h].page_id = p
  BY <1>2 DEF Turn
<1>5. \A i \in Frames : f[i].page_id = IF i < n /\ i < NUM_PAGES THEN i + 1 ELSE NoPage
  BY DEF Few
<1>6. CASE n < NUM_PAGES
  <2>1. Missing(f, p)
    <3>1. ASSUME NEW i \in Frames PROVE f[i].page_id # p
      <4>1. i \in Nat /\ p = n + 1 /\ (i < n => i + 1 # n + 1)
        BY <1>1, <1>3, <1>6
      <4> QED BY <1>3, <1>5, <4>1
    <3> QED BY <3>1 DEF Missing
  <2>2. \A i \in Frames : f[i].page_id # NoPage <=> i < n
    <3>1. \A i \in Frames : i + 1 # NoPage /\ (i < n => i < NUM_PAGES)
      BY <1>1, <1>6 DEF NoPage
    <3> QED BY <1>5, <3>1
  <2>3. n < NUM_FRAMES
    BY <1>1, <1>6
  <2>4. h = n
    BY <1>2, <2>1, <2>2, <2>3, LoadsNext
  <2>5. ASSUME NEW i \in Frames
        PROVE  g[i].page_id = IF i < n + 1 /\ i < NUM_PAGES THEN i + 1 ELSE NoPage
    <3>1. CASE i = h
      BY <1>1, <1>3, <1>4, <1>6, <2>4, <3>1
    <3>2. CASE i # h
      <4>1. i < n + 1 <=> i < n
        BY <1>1, <2>4, <3>2
      <4> QED BY <1>4, <1>5, <3>2, <4>1
    <3> QED BY <3>1, <3>2
  <2> QED BY <1>2, <1>6, <2>1, <2>5 DEF Few
<1>7. CASE ~ (n < NUM_PAGES)
  <2>1. p - 1 \in Frames /\ p - 1 < n /\ p - 1 < NUM_PAGES /\ (p - 1) + 1 = p
    BY <1>1, <1>3, <1>7
  <2>2. f[p - 1].page_id = p
    BY <1>5, <2>1
  <2>3. ~ Missing(f, p) /\ h = p - 1
    BY <1>4, <2>1, <2>2 DEF Missing
  <2>4. \A i \in Frames : g[i].page_id = f[i].page_id
    BY <1>4, <2>2, <2>3
  <2>5. \A i \in Frames : (i < n + 1 /\ i < NUM_PAGES) <=> (i < n /\ i < NUM_PAGES)
    BY <1>1, <1>7
  <2> QED BY <1>2, <1>5, <1>7, <2>3, <2>4, <2>5 DEF Few
<1> QED BY <1>6, <1>7

\* With fewer frames than pages the page that is asked for has just been replaced.
LEMMA RollingAfter ==
  ASSUME NEW s \in Seq(PageNumbers), NEW n \in Nat, n = Len(s), NEW f, NEW g, NEW h, NEW v,
         NUM_PAGES > NUM_FRAMES, Framed(f, s), InTurn(s), Rolling(f, n),
         Turn(f, g, h, PageAt(n), n, v),
         Replaces(f, PageAt(n)) => v = PRAlgo_LRU(f) \/ v = PRAlgo_FIFO(f)
  PROVE  Rolling(g, n + 1) /\ Missing(f, PageAt(n))
<1>1. /\ NUM_PAGES \in Nat /\ NUM_FRAMES \in Nat /\ NUM_FRAMES > 1
      /\ \A i \in Frames : i \in Nat /\ i < NUM_FRAMES
      /\ \A i \in Nat : i < NUM_FRAMES => i \in Frames
  BY PagingAssumption DEF Frames
<1>2. PICK p : p = PageAt(n) /\ p # NoPage
  BY PageAtIs, PagingAssumption DEF PageNumbers, NoPage
<1>3. /\ h \in Frames
      /\ \A i \in Frames : i # h => g[i] = f[i] /\ f[i].page_id # p
      /\ g[h].page_id = p /\ g[h].time_of_access = n
      /\ g[h].time_of_arrival = IF f[h].page_id = p THEN f[h].time_of_arrival ELSE n
  BY <1>2 DEF Turn
<1>4. ASSUME NEW i \in Frames, i < n
      PROVE  \E a \in 0 .. n - 1 : /\ a = f[i].time_of_access /\ a = f[i].time_of_arrival
                                   /\ a >= n - NUM_FRAMES /\ f[i].page_id = PageAt(a)
  <2>1. Holds(f[i], s) /\ f[i].time_of_access = f[i].time_of_arrival
        /\ f[i].time_of_access >= n - NUM_FRAMES
    BY <1>4, LoadedHolds DEF Rolling
  <2>2. PICK a \in 0 .. n - 1 : a = f[i].time_of_access /\ s[a + 1] = f[i].page_id
    BY <2>1 DEF Holds
  <2>3. a + 1 \in 1 .. n /\ (a + 1) - 1 = a
    OBVIOUS
  <2>4. s[a + 1] = PageAt(a)
    BY <2>3 DEF InTurn
  <2> QED BY <2>1, <2>2, <2>4
<1>5. Missing(f, p)
  <2>1. ASSUME NEW i \in Frames PROVE f[i].page_id # p
    <3>1. CASE i < n
      <4>1. PICK a \in 0 .. n - 1 : a >= n - NUM_FRAMES /\ f[i].page_id = PageAt(a)
        BY <1>4, <3>1
      <4>2. a \in Nat /\ a < n /\ n - a < NUM_PAGES
        BY <1>1, <4>1
      <4> QED BY <1>2, <4>1, <4>2, PagesApart
    <3>2. CASE ~ (i < n)
      BY <1>2, <3>2 DEF Rolling
    <3> QED BY <3>1, <3>2
  <2> QED BY <2>1 DEF Missing
<1>6. g[h].time_of_arrival = n
  BY <1>3, <1>5 DEF Missing
<1>7. CASE n < NUM_FRAMES
  <2>1. h = n
    <3>1. \A i \in Frames : f[i].page_id # NoPage <=> i < n
      BY DEF Rolling
    <3> QED BY <1>2, <1>5, <1>7, <3>1, LoadsNext
  <2>2. ASSUME NEW i \in Frames
        PROVE  /\ g[i].page_id # NoPage <=> i < n + 1
               /\ i < n + 1 => /\ g[i].time_of_access = g[i].time_of_arrival
                               /\ g[i].time_of_access >= (n + 1) - NUM_FRAMES
    <3>1. CASE i = h
      BY <1>1, <1>2, <1>3, <1>6, <1>7, <2>1, <3>1
    <3>2. CASE i # h
      <4>1. (i < n + 1 <=> i < n) /\ g[i] = f[i]
        BY <1>1, <1>3, <2>1, <3>2
      <4>2. ASSUME i < n
            PROVE  /\ f[i].time_of_access = f[i].time_of_arrival
                   /\ f[i].time_of_access >= (n + 1) - NUM_FRAMES
        <5>1. PICK a \in 0 .. n - 1 : a = f[i].time_of_access /\ a = f[i].time_of_arrival
          BY <1>4, <4>2
        <5>2. a >= (n + 1) - NUM_FRAMES
          BY <1>1, <1>7
        <5> QED BY <5>1, <5>2
      <4> QED BY <4>1, <4>2 DEF Rolling
    <3> QED BY <3>1, <3>2
  <2> QED BY <1>2, <1>5, <2>2 DEF Rolling
<1>8. CASE ~ (n < NUM_FRAMES)
  <2>1. \A i \in Frames : i < n /\ i < n + 1
    BY <1>1, <1>8
  <2>2. Full(f)
    BY <2>1 DEF Full, Rolling
  <2>3. Replaces(f, p) /\ h = v
    BY <1>2, <1>3, <1>5, <2>2 DEF Turn, Replaces, Full, Missing
  <2>4. \A i \in Frames : f[h].time_of_access <= f[i].time_of_access
    <3>1. CASE v = PRAlgo_LRU(f)
      BY <2>3, <3>1, VictimIs
    <3>2. CASE v = PRAlgo_FIFO(f)
      <4>1. \A i \in Frames : f[h].time_of_arrival <= f[i].time_of_arrival
        BY <2>3, <3>2, VictimIs
      <4> QED BY <1>3, <2>1, <4>1 DEF Rolling
    <3> QED BY <1>2, <2>3, <3>1, <3>2
  <2>5. ASSUME NEW i \in Frames
        PROVE  /\ g[i].page_id # NoPage
               /\ g[i].time_of_access = g[i].time_of_arrival
               /\ g[i].time_of_access >= (n + 1) - NUM_FRAMES
    <3>1. CASE i = h
      BY <1>1, <1>2, <1>3, <1>6, <3>1
    <3>2. CASE i # h
      <4>1. PICK a \in 0 .. n - 1 : a = f[i].time_of_access /\ a = f[i].time_of_arrival
        BY <1>4, <2>1
      <4>2. PICK b \in 0 .. n - 1 : b = f[h].time_of_access /\ b >= n - NUM_FRAMES
        BY <1>3, <1>4, <2>1
      <4>3. a # b
        BY <1>3, <2>2, <3>2, <4>1, <4>2, TimesApart DEF Full
      <4>4. b <= a
        BY <2>4, <4>1, <4>2
      <4>5. a >= (n + 1) - NUM_FRAMES
        BY <1>1, <4>2, <4>3, <4>4
      <4> QED BY <1>3, <2>2, <3>2, <4>1, <4>5 DEF Full
    <3> QED BY <3>1, <3>2
  <2> QED BY <1>2, <1>5, <2>1, <2>5 DEF Rolling
<1> QED BY <1>7, <1>8

\* Then maxid counts the frames, and its last value is the last frame.
LEMMA LastPageIs ==
  ASSUME NEW n \in Nat, NEW f, LastChanges(f, n), f \in [Frames -> Frame], n >= NUM_FRAMES
  PROVE  LastPage(f) = NUM_FRAMES - 1
<1>1. PICK m \in Nat : m = NUM_FRAMES - 1 /\ m > 0 /\ Frames = 0 .. m
  BY PagingAssumption DEF Frames
<1>2. NUM_FRAMES = m + 1
  BY <1>1, PagingAssumption
<1>3. PICK q : q = [i \in 0 .. m |-> f[i].page_id]
  OBVIOUS
<1>4. \A i \in 0 .. m : q[i] = f[i].page_id /\ q[i] \in Int
  BY <1>1, <1>3 DEF Frame
<1>5. \A i \in 0 .. m : q[i] >= i + 1 /\ (i < m => q[i] = i + 1)
  <2>1. ASSUME NEW i \in 0 .. m PROVE q[i] >= i + 1 /\ (i < m => q[i] = i + 1)
    <3>1. i < n /\ (i < NUM_FRAMES - 1 <=> i < m)
      BY <1>2
    <3>2. IF i < m THEN q[i] = i + 1 ELSE q[i] >= m + 1
      BY <1>1, <1>2, <1>4, <3>1 DEF LastChanges
    <3>3. i < m \/ i = m
      OBVIOUS
    <3> QED BY <1>4, <3>2, <3>3
  <2> QED BY <2>1
<1> DEFINE Is(u) == u = [i \in Frames |-> IF i = 0 THEN f[0].page_id
                                          ELSE IF f[i].page_id > u[i - 1] THEN i ELSE u[i - 1]]
           Runs(u) == u[0] = 1 /\ \A i \in 1 .. m : u[i] = IF q[i] > u[i - 1] THEN i ELSE u[i - 1]
<1>6. \E u : Is(u)
  <2>1. PICK w : w = [i \in 0 .. m |-> IF i = 0 THEN 1 ELSE i]
    OBVIOUS
  <2>2. ASSUME NEW i \in 0 .. m
        PROVE  w[i] = IF i = 0 THEN q[0] ELSE IF q[i] > w[i - 1] THEN i ELSE w[i - 1]
    <3>1. CASE i = 0
      BY <1>1, <1>5, <2>1, <3>1
    <3>2. CASE i # 0
      <4>1. i - 1 \in 0 .. m /\ w[i] = i /\ w[i - 1] = IF i - 1 = 0 THEN 1 ELSE i - 1
        BY <2>1, <3>2
      <4>2. q[i] > w[i - 1]
        BY <1>4, <1>5, <3>2, <4>1
      <4> QED BY <3>2, <4>1, <4>2
    <3> QED BY <3>1, <3>2
  <2>3. ASSUME NEW i \in 0 .. m
        PROVE  w[i] = IF i = 0 THEN f[0].page_id
                      ELSE IF f[i].page_id > w[i - 1] THEN i ELSE w[i - 1]
    <3>1. 0 \in 0 .. m
      BY <1>1
    <3> QED BY <1>4, <2>2, <3>1
  <2>4. w = [i \in 0 .. m |-> IF i = 0 THEN f[0].page_id
                              ELSE IF f[i].page_id > w[i - 1] THEN i ELSE w[i - 1]]
    BY <2>1, <2>3
  <2> QED BY <1>1, <2>4
<1>7. MaxIds(f) = CHOOSE u : Is(u)
  BY DEF MaxIds
<1>8. Is(MaxIds(f))
  <2> HIDE DEF Is
  <2> QED BY <1>6, <1>7
<1>9. PICK u : u = MaxIds(f)
  OBVIOUS
<1>10. u = [i \in 0 .. m |-> IF i = 0 THEN f[0].page_id
                             ELSE IF f[i].page_id > u[i - 1] THEN i ELSE u[i - 1]]
  BY <1>1, <1>8, <1>9
<1>11. Runs(u)
  <2>1. 0 \in 0 .. m /\ \A i \in 1 .. m : i \in 0 .. m /\ i # 0
    BY <1>1
  <2>2. u[0] = q[0] /\ q[0] = 1
    BY <1>1, <1>4, <1>5, <1>10, <2>1
  <2>3. ASSUME NEW i \in 1 .. m PROVE u[i] = IF q[i] > u[i - 1] THEN i ELSE u[i - 1]
    BY <1>4, <1>10, <2>1
  <2> QED BY <2>2, <2>3
<1> HIDE DEF Is
<1> DEFINE Differ == {i \in 1 .. m : u[i] # i}
<1>12. Differ = {}
  <2>1. SUFFICES ASSUME Differ # {} PROVE FALSE
    OBVIOUS
  <2>2. Differ \in SUBSET (1 .. m)
    OBVIOUS
  <2>3. PICK k \in Differ : \A j \in Differ : k <= j
    <3> HIDE DEF Differ
    <3> QED BY <2>1, <2>2, Least
  <2>4. k \in 1 .. m /\ u[k] # k /\ k \in 0 .. m /\ (k = 1 \/ k - 1 \in 1 .. m) /\ ~ (k <= k - 1)
    BY <2>3
  <2>5. u[k - 1] = IF k = 1 THEN 1 ELSE k - 1
    <3>1. CASE k = 1
      <4>1. k - 1 = 0
        BY <3>1
      <4> QED BY <1>11, <3>1, <4>1
    <3>2. CASE k # 1
      BY <2>3, <2>4, <3>2
    <3> QED BY <3>1, <3>2
  <2>6. q[k] > u[k - 1]
    BY <1>4, <1>5, <2>4, <2>5
  <2> QED BY <1>11, <2>4, <2>6
<1>13. m \in 1 .. m
  BY <1>1
<1>14. u[m] = m
  BY <1>12, <1>13
<1> QED BY <1>1, <1>9, <1>14 DEF LastPage

\* Only the last frame changes.
LEMMA LastChangesAfter ==
  ASSUME NEW n \in Nat, NEW f, NEW g, NEW h, NEW v, NUM_PAGES > NUM_FRAMES,
         f \in [Frames -> Frame], LastChanges(f, n), Turn(f, g, h, PageAt(n), n, v),
         Replaces(f, PageAt(n)) => v = LastPage(f)
  PROVE  LastChanges(g, n + 1)
<1>1. /\ NUM_PAGES \in Nat /\ NUM_FRAMES \in Nat /\ NUM_FRAMES > 1
      /\ \A i \in Frames : i \in Nat /\ i < NUM_FRAMES
      /\ \A i \in Nat : i < NUM_FRAMES => i \in Frames
  BY PagingAssumption DEF Frames
<1>2. PICK p : p = PageAt(n)
  OBVIOUS
<1>3. p \in 1 .. NUM_PAGES /\ (n < NUM_PAGES => p = n + 1) /\ p # NoPage
  BY <1>1, <1>2, PageAtIs DEF PageNumbers, NoPage
<1>4. /\ h \in Frames
      /\ \A i \in Frames : i # h => g[i] = f[i] /\ f[i].page_id # p
      /\ g[h].page_id = p
  BY <1>2 DEF Turn
<1>5. \A i \in Frames :
        /\ f[i].page_id # NoPage <=> i < n
        /\ i < n => IF i < NUM_FRAMES - 1 THEN f[i].page_id = i + 1 ELSE f[i].page_id >= NUM_FRAMES
  BY DEF LastChanges
<1>6. CASE n < NUM_FRAMES
  <2>1. p = n + 1
    BY <1>1, <1>3, <1>6
  <2>2. Missing(f, p)
    <3>1. ASSUME NEW i \in Frames PROVE f[i].page_id # p
      <4>1. CASE i < n
        <5>1. i < NUM_FRAMES - 1 /\ i + 1 # n + 1
          BY <1>1, <1>6, <4>1
        <5> QED BY <1>5, <2>1, <4>1, <5>1
      <4>2. CASE ~ (i < n)
        BY <1>3, <1>5, <4>2
      <4> QED BY <4>1, <4>2
    <3> QED BY <3>1 DEF Missing
  <2>3. h = n
    BY <1>2, <1>5, <1>6, <2>2, LoadsNext
  <2>4. ASSUME NEW i \in Frames
        PROVE  /\ g[i].page_id # NoPage <=> i < n + 1
               /\ i < n + 1 => IF i < NUM_FRAMES - 1 THEN g[i].page_id = i + 1
                               ELSE g[i].page_id >= NUM_FRAMES
    <3>1. CASE i = h
      <4>1. i < n + 1 /\ i + 1 = p /\ (~ (i < NUM_FRAMES - 1) => p >= NUM_FRAMES)
        BY <1>1, <2>1, <2>3, <3>1
      <4> QED BY <1>3, <1>4, <3>1, <4>1
    <3>2. CASE i # h
      <4>1. i < n + 1 <=> i < n
        BY <1>1, <2>3, <3>2
      <4> QED BY <1>4, <1>5, <3>2, <4>1
    <3> QED BY <3>1, <3>2
  <2> QED BY <2>4 DEF LastChanges
<1>7. CASE ~ (n < NUM_FRAMES)
  <2>1. \A i \in Frames : i < n /\ i < n + 1
    BY <1>1, <1>7
  <2>2. CASE f[h].page_id = p
    <3>1. \A i \in Frames : g[i].page_id = f[i].page_id
      BY <1>4, <2>2
    <3> QED BY <1>5, <2>1, <3>1 DEF LastChanges
  <2>3. CASE f[h].page_id # p
    <3>1. Replaces(f, p) /\ h = v
      BY <1>2, <1>4, <1>5, <2>1, <2>3 DEF Turn
    <3>2. h = NUM_FRAMES - 1
      <4>1. n >= NUM_FRAMES
        BY <1>1, <1>7
      <4> QED BY <1>2, <3>1, <4>1, LastPageIs
    <3>3. p >= NUM_FRAMES
      <4>1. SUFFICES ASSUME ~ (p >= NUM_FRAMES) PROVE FALSE
        OBVIOUS
      <4>2. p - 1 \in Frames /\ p - 1 < NUM_FRAMES - 1 /\ (p - 1) + 1 = p
        BY <1>1, <1>3, <4>1
      <4>3. f[p - 1].page_id = p
        BY <1>5, <2>1, <4>2
      <4> QED BY <3>1, <4>2, <4>3 DEF Replaces, Missing
    <3>4. ASSUME NEW i \in Frames
          PROVE  /\ g[i].page_id # NoPage
                 /\ IF i < NUM_FRAMES - 1 THEN g[i].page_id = i + 1
                    ELSE g[i].page_id >= NUM_FRAMES
      <4>1. CASE i = h
        <5>1. ~ (i < NUM_FRAMES - 1)
          BY <1>1, <3>2, <4>1
        <5> QED BY <1>3, <1>4, <3>3, <4>1, <5>1
      <4>2. CASE i # h
        BY <1>4, <1>5, <2>1, <4>2
      <4> QED BY <4>1, <4>2
    <3> QED BY <2>1, <3>4 DEF LastChanges
  <2> QED BY <2>2, <2>3
<1> QED BY <1>6, <1>7

\* With a frame for each page no page is replaced.
LEMMA FewNeverReplaces ==
  ASSUME NEW n \in Nat, NEW f, NUM_PAGES <= NUM_FRAMES, Few(f, n)
  PROVE  ~ Replaces(f, PageAt(n))
<1>1. /\ NUM_PAGES \in Nat /\ NUM_PAGES > 0 /\ NUM_FRAMES \in Nat
      /\ \A i \in Nat : i < NUM_FRAMES => i \in Frames
  BY PagingAssumption DEF Frames
<1>2. PICK p : p = PageAt(n)
  OBVIOUS
<1>3. p \in 1 .. NUM_PAGES
  BY <1>2, PageAtIs DEF PageNumbers
<1>4. CASE n < NUM_PAGES
  <2>1. n \in Frames /\ ~ (n < n)
    BY <1>1, <1>4
  <2>2. f[n].page_id = NoPage
    BY <2>1 DEF Few
  <2> QED BY <2>1, <2>2 DEF Replaces, Full
<1>5. CASE ~ (n < NUM_PAGES)
  <2>1. p - 1 \in Frames /\ p - 1 < n /\ p - 1 < NUM_PAGES /\ (p - 1) + 1 = p
    BY <1>1, <1>3, <1>5
  <2>2. f[p - 1].page_id = p
    BY <2>1 DEF Few
  <2> QED BY <1>2, <2>1, <2>2 DEF Replaces, Missing
<1> QED BY <1>4, <1>5

-----------------------------------------------------------------------------
(* The handlers and one access.                                            *)

\* On the LR workload OPT and CUST name the frame that LRU names.
LEMMA HandlersAgree ==
  ASSUME NEW f, NEW s, NEW n \in Nat, n = Len(s), Framed(f, s), now \in Nat, algo = "work"
  PROVE  PRAlgo_OPT(f) = {PRAlgo_LRU(f)} /\ PRAlgo_CUST(f) = {PRAlgo_LRU(f)}
<1>1. /\ \A i \in Frames : Accesses(f)[i] = f[i].time_of_access
      /\ \A i \in Frames : Accesses(f)[i] \in -1 .. n
  BY TimesOf
<1>2. PICK m \in Nat : m = now
  OBVIOUS
<1>3. PICK t : t = Accesses(f)
  OBVIOUS
<1>4. /\ \A i \in Frames : t[i] = f[i].time_of_access /\ t[i] \in Int /\ i \in Int
      /\ \A i \in Frames : t[i] \in -1 .. n
  BY <1>1, <1>3, PagingAssumption DEF Frames
<1> DEFINE Before(i, j) == t[i] < t[j] \/ (t[i] = t[j] /\ i <= j)
           Older(i, j) == \/ m - f[i].time_of_access > m - f[j].time_of_access
                          \/ m - f[i].time_of_access = m - f[j].time_of_access /\ i <= j
<1>5. ASSUME NEW i \in Frames, NEW j \in Frames PROVE Before(i, j) <=> Older(i, j)
  <2>1. PICK x \in Int, y \in Int : x = t[i] /\ y = t[j] /\ x = f[i].time_of_access
                                    /\ y = f[j].time_of_access
    BY <1>4
  <2>2. (x < y <=> m - x > m - y) /\ (x = y <=> m - x = m - y)
    OBVIOUS
  <2> QED BY <2>1, <2>2
<1>6. PICK o \in Frames : o = Oldest(t) /\ \A j \in Frames : Before(o, j)
  BY <1>4, OldestIs
<1>7. \E i \in Frames : \A j \in Frames : Older(i, j)
  BY <1>5, <1>6
<1>8. PICK c : c = CHOOSE i \in Frames : \A j \in Frames : Older(i, j)
  OBVIOUS
<1>9. PRAlgo_CUST(f) = {c}
  BY <1>2, <1>8 DEF PRAlgo_CUST
<1>10. c \in Frames /\ \A j \in Frames : Older(c, j)
  <2> HIDE DEF Older
  <2> QED BY <1>7, <1>8
<1>11. \A j \in Frames : Before(c, j)
  BY <1>5, <1>10
<1>12. c = Oldest(t)
  BY <1>4, <1>10, <1>11, OldestOnly
<1> QED BY <1>3, <1>9, <1>12 DEF PRAlgo_OPT, PRAlgo_LRU

\* The handler of a is asked when a page must leave, and only then.
LEMMA VictimsAre ==
  ASSUME NEW a, NEW handler, NEW p
  PROVE  Victims(a, handler, p) = IF Replaces(PageFrames[a], p) THEN handler ELSE {victim[a]}
<1>1. PICK f : f = PageFrames[a]
  OBVIOUS
<1>2. FrameOf(f, p) = {} <=> Missing(f, p)
  BY DEF FrameOf, Missing
<1>3. FrameOf(f, NoPage) = {} <=> Full(f)
  BY DEF FrameOf, Full
<1> QED BY <1>1, <1>2, <1>3 DEF Victims, Replaces

\* Without a replacement the victim does not matter.
LEMMA AfterSame ==
  ASSUME NEW f, NEW p, NEW v, NEW w, Replaces(f, p) => v = w
  PROVE  After(f, p, v) = After(f, p, w)
<1>1. (FrameOf(f, p) = {} <=> Missing(f, p)) /\ (FrameOf(f, NoPage) = {} <=> Full(f))
  BY DEF FrameOf, Missing, Full
<1>2. PICK hit, free : hit = FrameOf(f, p) /\ free = FrameOf(f, NoPage)
  OBVIOUS
<1>3. CASE Replaces(f, p)
  BY <1>3
<1>4. CASE ~ Replaces(f, p)
  <2>1. hit # {} \/ free # {}
    BY <1>1, <1>2, <1>4 DEF Replaces
  <2>2. \A x : After(f, p, x) = IF hit # {} THEN [f EXCEPT ![FirstOf(hit)].time_of_access = now]
                                ELSE [f EXCEPT ![FirstOf(free)] = Loaded(p)]
    BY <1>2, <2>1 DEF After
  <2> QED BY <2>2
<1> QED BY <1>3, <1>4

-----------------------------------------------------------------------------
(* The inductive invariant.                                                *)

PagingTypes ==
  /\ algo \in {"rand", "seq", "work"}
  /\ PageAccesses \in Seq(PageNumbers)
  /\ faults = [a \in Algorithms |-> faults[a]]
  /\ \A a \in Algorithms : faults[a] \in Nat /\ victim[a] \in Frames

FramesAreFramed == \A a \in Algorithms : Framed(PageFrames[a], PageAccesses)
LRUKeeps == Kept(PageFrames["LRU"], PageAccesses)
FIFOQueues == Queued(PageFrames["FIFO"], Queues(PageAccesses)[now])

\* The LR workload: three algorithms are one.
OneAlgorithm ==
  algo = "work" => \A a \in {"OPT", "CUST"} :
                     PageFrames[a] = PageFrames["LRU"] /\ faults[a] = faults["LRU"]

\* The sequential one: what faults depends on the frames for all pages being there.
FewFrames == \A a \in Algorithms : /\ Few(PageFrames[a], now)
                                   /\ faults[a] = IF now < NUM_PAGES THEN now ELSE NUM_PAGES
ManyFaults ==
  /\ \A a \in {"FIFO", "LRU"} : Rolling(PageFrames[a], now) /\ faults[a] = now
  /\ \A a \in {"OPT", "CUST"} : LastChanges(PageFrames[a], now) /\ faults[a] <= now
  /\ faults["CUST"] = faults["OPT"] /\ PageFrames["CUST"] = PageFrames["OPT"]
Sequential ==
  algo = "seq" => InTurn(PageAccesses) /\ IF NUM_PAGES <= NUM_FRAMES THEN FewFrames ELSE ManyFaults

PagingInv ==
  PagingTypes /\ FramesAreFramed /\ LRUKeeps /\ FIFOQueues /\ OneAlgorithm /\ Sequential

\* The invariant holds before the first access.
LEMMA PagingInvInit ==
  ASSUME PagingInit
  PROVE  PagingInv
<1>1. /\ NUM_PAGES \in Nat /\ NUM_PAGES > 0 /\ NUM_FRAMES \in Nat /\ 0 \in Frames
      /\ \A i \in Frames : i \in Nat
  BY PagingAssumption DEF Frames
<1>2. now = 0 /\ PageAccesses = <<>> /\ PageAccesses \in Seq(PageNumbers) /\ Len(PageAccesses) = 0
  BY EmptySeq DEF PagingInit, now
<1>3. PagingTypes
  BY <1>1, <1>2 DEF PagingInit, PagingTypes
<1>4. PICK f : f = [i \in Frames |-> EmptyFrame]
  OBVIOUS
<1>5. \A a \in Algorithms : PageFrames[a] = f
  BY <1>4 DEF PagingInit
<1>6. /\ f \in [Frames -> Frame] /\ \A i \in Frames : f[i] = EmptyFrame /\ f[i].page_id = NoPage
  BY <1>4 DEF EmptyFrame, Frame, NoPage
<1>7. Framed(f, PageAccesses)
  BY <1>6 DEF Framed
<1>8. Kept(f, PageAccesses)
  BY <1>2 DEF Kept
<1>9. Queued(f, <<>>)
  <2>1. Taken(f) = {}
    BY <1>6 DEF Taken
  <2>2. Cardinality(Taken(f)) = 0
    BY <2>1, FS_EmptySet
  <2>3. <<>> \in Seq(PageNumbers) /\ Len(<<>>) = 0
    BY EmptySeq
  <2> QED BY <2>1, <2>2, <2>3 DEF Queued
<1>10. FIFOQueues
  <2>1. Queues(PageAccesses)[now] = <<>>
    BY <1>2, QueueSteps
  <2> QED BY <1>5, <1>9, <2>1 DEF FIFOQueues, Algorithms
<1>11. FramesAreFramed /\ LRUKeeps
  BY <1>5, <1>7, <1>8 DEF FramesAreFramed, LRUKeeps, Algorithms
<1>12. OneAlgorithm
  BY <1>5 DEF PagingInit, OneAlgorithm, Algorithms
<1>13. \A a \in Algorithms : faults[a] = 0
  BY DEF PagingInit
<1>14. Few(f, 0) /\ Rolling(f, 0) /\ LastChanges(f, 0)
  BY <1>1, <1>6 DEF Few, Rolling, LastChanges
<1>15. InTurn(PageAccesses)
  BY <1>2 DEF InTurn
<1>16. FewFrames
  BY <1>1, <1>2, <1>5, <1>13, <1>14 DEF FewFrames
<1>17. ManyFaults
  BY <1>2, <1>5, <1>13, <1>14 DEF ManyFaults, Algorithms
<1> QED BY <1>3, <1>10, <1>11, <1>12, <1>15, <1>16, <1>17 DEF PagingInv, Sequential

\* What one access of page p does, with the frames vs as victims.
Step(p, vs) ==
  /\ p \in PageNumbers /\ (algo = "seq" => p = PageAt(now))
  /\ \A a \in Algorithms :
       /\ vs[a] \in Frames /\ victim'[a] = vs[a]
       /\ PageFrames'[a] = After(PageFrames[a], p, vs[a])
       /\ faults'[a] = faults[a] + IF Missing(PageFrames[a], p) THEN 1 ELSE 0
  /\ faults' = [a \in Algorithms |-> faults'[a]]
  /\ PageAccesses' = Append(PageAccesses, p) /\ algo' = algo
  /\ Replaces(PageFrames["FIFO"], p) => vs["FIFO"] = PRAlgo_FIFO(PageFrames["FIFO"])
  /\ Replaces(PageFrames["LRU"], p) => vs["LRU"] = PRAlgo_LRU(PageFrames["LRU"])
  /\ algo = "seq" => \A a \in {"OPT", "CUST"} :
       Replaces(PageFrames[a], p) => vs[a] = LastPage(PageFrames[a])
  /\ algo = "work" => \A a \in {"OPT", "CUST"} :
       Replaces(PageFrames[a], p) => vs[a] = PRAlgo_LRU(PageFrames[a])

\* An access is such a step.
LEMMA AccessSteps ==
  ASSUME PagingInv, Access
  PROVE  \E p, vs : Step(p, vs)
<1>1. PICK s : s = PageAccesses /\ s \in Seq(PageNumbers)
  BY DEF PagingInv, PagingTypes
<1>2. PICK n \in Nat : n = Len(s) /\ n = now
  BY <1>1, LenProperties DEF now
<1>3. \A a \in Algorithms : Framed(PageFrames[a], s) /\ victim[a] \in Frames
  BY <1>1 DEF PagingInv, PagingTypes, FramesAreFramed
<1>4. "FIFO" \in Algorithms /\ "LRU" \in Algorithms /\ "OPT" \in Algorithms /\ "CUST" \in Algorithms
      /\ Algorithms = {"FIFO", "LRU", "OPT", "CUST"}
  BY DEF Algorithms
<1>5. algo \in {"rand", "seq", "work"}
  BY DEF PagingInv, PagingTypes
<1> DEFINE Does(page, fifo, lru, opt, cust) ==
             /\ victim' = [FIFO |-> fifo, LRU |-> lru, OPT |-> opt, CUST |-> cust]
             /\ PageAccesses' = Append(PageAccesses, page)
             /\ PageFrames' = [a \in Algorithms |-> After(PageFrames[a], page, victim'[a])]
             /\ faults' = [a \in Algorithms |-> faults[a] +
                             IF FrameOf(PageFrames[a], page) = {} THEN 1 ELSE 0]
           Asked == CASE algo = "rand" -> AccessesRand [] algo = "seq" -> AccessesSeq
                      [] algo = "work" -> AccessesWork
<1>0. PICK page \in Asked :
        \E fifo \in Victims("FIFO", {PRAlgo_FIFO(PageFrames["FIFO"])}, page),
           lru \in Victims("LRU", {PRAlgo_LRU(PageFrames["LRU"])}, page),
           opt \in Victims("OPT", PRAlgo_OPT(PageFrames["OPT"]), page),
           cust \in Victims("CUST", PRAlgo_CUST(PageFrames["CUST"]), page) :
          Does(page, fifo, lru, opt, cust)
  BY DEF Access
<1>6. PICK fifo \in Victims("FIFO", {PRAlgo_FIFO(PageFrames["FIFO"])}, page),
           lru \in Victims("LRU", {PRAlgo_LRU(PageFrames["LRU"])}, page),
           opt \in Victims("OPT", PRAlgo_OPT(PageFrames["OPT"]), page),
           cust \in Victims("CUST", PRAlgo_CUST(PageFrames["CUST"]), page) :
        Does(page, fifo, lru, opt, cust)
  BY <1>0
<1>7. algo' = algo
  BY DEF Access
<1>8. page \in PageNumbers /\ (algo = "seq" => page = PageAt(now))
  <2>1. CASE algo = "rand"
    BY <1>0, <2>1 DEF AccessesRand, PageNumbers
  <2>2. CASE algo = "seq"
    BY <1>0, <1>2, <2>2, PageAtIs DEF AccessesSeq, PageAt
  <2>3. CASE algo = "work"
    <3>1. page \in AccessesWork
      BY <1>0, <2>3
    <3>2. AccessesRand = PageNumbers
      BY DEF AccessesRand, PageNumbers
    <3>3. ASSUME NEW k \in 0 .. History - 1, ~ (now < History) PROVE PageAccesses[now - k] \in PageNumbers
      <4>1. n - k \in 1 .. n
        BY <1>2, <3>3, PagingAssumption
      <4> QED BY <1>1, <1>2, <4>1, ElementOfSeq
    <3> QED BY <2>3, <3>1, <3>2, <3>3 DEF AccessesWork
  <2> QED BY <1>5, <2>1, <2>2, <2>3
<1>9. PICK vs : vs = [FIFO |-> fifo, LRU |-> lru, OPT |-> opt, CUST |-> cust]
  OBVIOUS
<1>10. vs["FIFO"] = fifo /\ vs["LRU"] = lru /\ vs["OPT"] = opt /\ vs["CUST"] = cust
  BY <1>9
<1>11. IF Replaces(PageFrames["FIFO"], page) THEN fifo = PRAlgo_FIFO(PageFrames["FIFO"])
       ELSE fifo = victim["FIFO"]
  BY <1>6, VictimsAre
<1>12. IF Replaces(PageFrames["LRU"], page) THEN lru = PRAlgo_LRU(PageFrames["LRU"])
       ELSE lru = victim["LRU"]
  BY <1>6, VictimsAre
<1>13. IF Replaces(PageFrames["OPT"], page) THEN opt \in PRAlgo_OPT(PageFrames["OPT"])
       ELSE opt = victim["OPT"]
  BY <1>6, VictimsAre
<1>14. IF Replaces(PageFrames["CUST"], page) THEN cust \in PRAlgo_CUST(PageFrames["CUST"])
       ELSE cust = victim["CUST"]
  BY <1>6, VictimsAre
<1>15. algo = "work" => /\ Replaces(PageFrames["OPT"], page) => opt = PRAlgo_LRU(PageFrames["OPT"])
                        /\ Replaces(PageFrames["CUST"], page) => cust = PRAlgo_LRU(PageFrames["CUST"])
  <2> SUFFICES ASSUME algo = "work"
               PROVE  /\ Replaces(PageFrames["OPT"], page) => opt = PRAlgo_LRU(PageFrames["OPT"])
                      /\ Replaces(PageFrames["CUST"], page) => cust = PRAlgo_LRU(PageFrames["CUST"])
    OBVIOUS
  <2>1. PRAlgo_OPT(PageFrames["OPT"]) = {PRAlgo_LRU(PageFrames["OPT"])}
    BY <1>2, <1>3, <1>4, HandlersAgree
  <2>2. PRAlgo_CUST(PageFrames["CUST"]) = {PRAlgo_LRU(PageFrames["CUST"])}
    BY <1>2, <1>3, <1>4, HandlersAgree
  <2> QED BY <1>13, <1>14, <2>1, <2>2
<1>16. algo = "seq" => /\ Replaces(PageFrames["OPT"], page) => opt = LastPage(PageFrames["OPT"])
                       /\ Replaces(PageFrames["CUST"], page) => cust = LastPage(PageFrames["CUST"])
  BY <1>13, <1>14 DEF PRAlgo_OPT, PRAlgo_CUST
<1>17. ASSUME NEW a \in {"OPT", "CUST"}, algo = "seq", Replaces(PageFrames[a], page)
       PROVE  LastPage(PageFrames[a]) \in Frames
  <2>1. a \in Algorithms
    BY <1>4
  <2>2. ~ (NUM_PAGES <= NUM_FRAMES)
    <3>1. ASSUME NUM_PAGES <= NUM_FRAMES PROVE FALSE
      <4>1. Few(PageFrames[a], n)
        BY <1>2, <1>17, <2>1, <3>1 DEF PagingInv, Sequential, FewFrames
      <4>2. ~ Replaces(PageFrames[a], PageAt(n))
        BY <3>1, <4>1, FewNeverReplaces
      <4> QED BY <1>2, <1>8, <1>17, <4>2
    <3> QED BY <3>1
  <2>3. LastChanges(PageFrames[a], n)
    BY <1>2, <1>17, <2>2 DEF PagingInv, Sequential, ManyFaults
  <2>4. NUM_FRAMES - 1 \in Frames /\ NUM_FRAMES \in Nat
    BY PagingAssumption DEF Frames
  <2>5. NUM_FRAMES - 1 < n
    BY <1>17, <2>3, <2>4 DEF LastChanges, Replaces, Full
  <2>6. n >= NUM_FRAMES /\ PageFrames[a] \in [Frames -> Frame]
    BY <1>3, <2>1, <2>4, <2>5 DEF Framed
  <2> QED BY <2>3, <2>4, <2>6, LastPageIs
<1>18. ASSUME NEW a \in {"FIFO", "LRU", "OPT", "CUST"}
       PROVE PRAlgo_LRU(PageFrames[a]) \in Frames /\ PRAlgo_FIFO(PageFrames[a]) \in Frames
  BY <1>2, <1>3, <1>4, VictimIs
<1>19. algo = "rand" => PRAlgo_OPT(PageFrames["OPT"]) = Frames /\ PRAlgo_CUST(PageFrames["CUST"]) = Frames
  BY DEF PRAlgo_OPT, PRAlgo_CUST
<1>20. fifo \in Frames /\ lru \in Frames
  BY <1>3, <1>4, <1>11, <1>12, <1>18
<1>21. opt \in Frames
  BY <1>3, <1>4, <1>5, <1>13, <1>15, <1>16, <1>17, <1>18, <1>19
<1>22. cust \in Frames
  BY <1>3, <1>4, <1>5, <1>14, <1>15, <1>16, <1>17, <1>18, <1>19
<1>23. \A a \in Algorithms : vs[a] \in Frames
  BY <1>4, <1>10, <1>20, <1>21, <1>22
<1>24. \A a \in Algorithms : FrameOf(PageFrames[a], page) = {} <=> Missing(PageFrames[a], page)
  BY DEF FrameOf, Missing
<1>25. \A a \in Algorithms :
         /\ victim'[a] = vs[a] /\ PageFrames'[a] = After(PageFrames[a], page, vs[a])
         /\ faults'[a] = faults[a] + IF Missing(PageFrames[a], page) THEN 1 ELSE 0
  BY <1>6, <1>9, <1>24
<1>26. faults' = [a \in Algorithms |-> faults'[a]]
  BY <1>6
<1>27. Step(page, vs)
  BY <1>6, <1>7, <1>8, <1>10, <1>11, <1>12, <1>15, <1>16, <1>23, <1>25, <1>26 DEF Step
<1> QED BY <1>27

\* It is a turn of each algorithm's frames, and the place for the next access.
LEMMA StepTurns ==
  ASSUME PagingInv, NEW p, NEW vs, Step(p, vs)
  PROVE  /\ PageAccesses \in Seq(PageNumbers) /\ now \in Nat /\ now = Len(PageAccesses)
         /\ PageAccesses' = Append(PageAccesses, p) /\ p \in PageNumbers
         /\ PageAccesses' \in Seq(PageNumbers) /\ now' = now + 1
         /\ \A a \in Algorithms : Framed(PageFrames[a], PageAccesses)
         /\ \A a \in Algorithms : \E h \in Frames :
              Turn(PageFrames[a], PageFrames'[a], h, p, now, vs[a])
<1>1. PICK s \in Seq(PageNumbers) : s = PageAccesses
  BY DEF PagingInv, PagingTypes
<1>2. now \in Nat /\ now = Len(s)
  BY <1>1, LenProperties DEF now
<1>3. p \in PageNumbers /\ PageAccesses' = Append(s, p)
  BY <1>1 DEF Step
<1>4. PageAccesses' \in Seq(PageNumbers) /\ now' = now + 1
  <2>1. Append(s, p) \in Seq(PageNumbers) /\ Len(Append(s, p)) = Len(s) + 1
    BY <1>3, AppendProperties
  <2> QED BY <1>2, <1>3, <2>1 DEF now
<1>5. \A a \in Algorithms : Framed(PageFrames[a], s)
  BY <1>1 DEF PagingInv, FramesAreFramed
<1>6. ASSUME NEW a \in Algorithms
      PROVE  \E h \in Frames : Turn(PageFrames[a], PageFrames'[a], h, p, now, vs[a])
  <2>1. vs[a] \in Frames /\ PageFrames'[a] = After(PageFrames[a], p, vs[a])
    BY DEF Step
  <2>2. \E h \in Frames : Turn(PageFrames[a], After(PageFrames[a], p, vs[a]), h, p, now, vs[a])
    BY <1>2, <1>3, <1>5, <2>1, AfterTurns
  <2> QED BY <2>1, <2>2
<1> QED BY <1>1, <1>2, <1>3, <1>4, <1>5, <1>6

\* Types and frames.
LEMMA StepTypes ==
  ASSUME PagingInv, NEW p, NEW vs, Step(p, vs)
  PROVE  PagingTypes' /\ FramesAreFramed'
<1>1. PageAccesses' \in Seq(PageNumbers)
  BY StepTurns
<1>2. algo' \in {"rand", "seq", "work"}
  BY DEF Step, PagingInv, PagingTypes
<1>3. ASSUME NEW a \in Algorithms
      PROVE  faults'[a] \in Nat /\ victim'[a] \in Frames /\ Framed(PageFrames'[a], PageAccesses')
  <2>1. faults[a] \in Nat
    BY DEF PagingInv, PagingTypes
  <2>2. /\ victim'[a] = vs[a] /\ vs[a] \in Frames
        /\ faults'[a] = faults[a] + IF Missing(PageFrames[a], p) THEN 1 ELSE 0
    BY DEF Step
  <2>3. PICK h \in Frames : Turn(PageFrames[a], PageFrames'[a], h, p, now, vs[a])
    BY StepTurns
  <2>4. PICK s, n, f, g :
          /\ s \in Seq(PageNumbers) /\ n \in Nat /\ s = PageAccesses /\ n = now /\ n = Len(s)
          /\ f = PageFrames[a] /\ g = PageFrames'[a] /\ Framed(f, s)
    BY StepTurns
  <2>5. p \in PageNumbers /\ PageAccesses' = Append(s, p)
    BY <2>4, StepTurns
  <2>6. Turn(f, g, h, p, n, vs[a])
    BY <2>3, <2>4
  <2>7. Framed(g, Append(s, p))
    BY <2>4, <2>5, <2>6, FramedAfter
  <2> QED BY <2>1, <2>2, <2>4, <2>5, <2>7
<1>4. faults' = [a \in Algorithms |-> faults'[a]]
  BY DEF Step
<1> QED BY <1>1, <1>2, <1>3, <1>4 DEF PagingTypes, FramesAreFramed

\* LRU and FIFO.
LEMMA StepKeeps ==
  ASSUME PagingInv, NEW p, NEW vs, Step(p, vs)
  PROVE  LRUKeeps' /\ FIFOQueues'
<1>1. LRUKeeps'
  <2>1. PICK h \in Frames : Turn(PageFrames["LRU"], PageFrames'["LRU"], h, p, now, vs["LRU"])
    BY StepTurns DEF Algorithms
  <2>2. Replaces(PageFrames["LRU"], p) => vs["LRU"] = PRAlgo_LRU(PageFrames["LRU"])
    BY DEF Step
  <2>3. Framed(PageFrames["LRU"], PageAccesses) /\ Kept(PageFrames["LRU"], PageAccesses)
    BY StepTurns DEF PagingInv, LRUKeeps, Algorithms
  <2>4. PICK s, n, f, g :
          /\ s \in Seq(PageNumbers) /\ n \in Nat /\ s = PageAccesses /\ n = now /\ n = Len(s)
          /\ f = PageFrames["LRU"] /\ g = PageFrames'["LRU"]
    BY StepTurns
  <2>5. p \in PageNumbers /\ PageAccesses' = Append(s, p)
    BY <2>4, StepTurns
  <2>6. Turn(f, g, h, p, n, vs["LRU"]) /\ Framed(f, s) /\ Kept(f, s)
    BY <2>1, <2>3, <2>4
  <2>7. Kept(g, Append(s, p))
    BY <2>2, <2>4, <2>5, <2>6, KeptAfter
  <2> QED BY <2>4, <2>5, <2>7 DEF LRUKeeps
<1>2. FIFOQueues'
  <2>1. PICK h \in Frames : Turn(PageFrames["FIFO"], PageFrames'["FIFO"], h, p, now, vs["FIFO"])
    BY StepTurns DEF Algorithms
  <2>2. Replaces(PageFrames["FIFO"], p) => vs["FIFO"] = PRAlgo_FIFO(PageFrames["FIFO"])
    BY DEF Step
  <2>3. /\ Framed(PageFrames["FIFO"], PageAccesses)
        /\ Queued(PageFrames["FIFO"], Queues(PageAccesses)[now])
    BY StepTurns DEF PagingInv, FIFOQueues, Algorithms
  <2>4. PICK s, n, f, g, q :
          /\ s \in Seq(PageNumbers) /\ n \in Nat /\ s = PageAccesses /\ n = now /\ n = Len(s) /\ q = Queues(s)[n]
          /\ f = PageFrames["FIFO"] /\ g = PageFrames'["FIFO"]
    BY StepTurns
  <2>5. p \in PageNumbers /\ PageAccesses' = Append(s, p) /\ now' = n + 1
    BY <2>4, StepTurns
  <2>6. Turn(f, g, h, p, n, vs["FIFO"]) /\ Framed(f, s) /\ Queued(f, q)
    BY <2>1, <2>3, <2>4
  <2>7. Queued(g, Enter(q, p))
    BY <2>2, <2>4, <2>5, <2>6, QueuedAfter
  <2>8. Queues(Append(s, p))[n + 1] = Enter(q, p)
    BY <2>4, <2>5, QueueAfter
  <2>9. Queued(PageFrames'["FIFO"], Queues(PageAccesses')[now'])
    BY <2>4, <2>5, <2>7, <2>8
  <2> QED BY <2>9 DEF FIFOQueues
<1> QED BY <1>1, <1>2

\* Three algorithms do the same on the LR workload.
LEMMA StepSame ==
  ASSUME PagingInv, NEW p, NEW vs, Step(p, vs)
  PROVE  OneAlgorithm'
<1>1. SUFFICES ASSUME algo = "work", NEW a \in {"OPT", "CUST"}
               PROVE  PageFrames'[a] = PageFrames'["LRU"] /\ faults'[a] = faults'["LRU"]
  BY DEF Step, OneAlgorithm
<1>2. PageFrames[a] = PageFrames["LRU"] /\ faults[a] = faults["LRU"]
  BY <1>1 DEF PagingInv, OneAlgorithm
<1>3. a \in Algorithms /\ "LRU" \in Algorithms
  BY DEF Algorithms
<1>4. Replaces(PageFrames["LRU"], p) => vs[a] = vs["LRU"]
  BY <1>1, <1>2 DEF Step
<1>5. After(PageFrames["LRU"], p, vs[a]) = After(PageFrames["LRU"], p, vs["LRU"])
  BY <1>4, AfterSame
<1>6. /\ PageFrames'[a] = After(PageFrames[a], p, vs[a])
      /\ PageFrames'["LRU"] = After(PageFrames["LRU"], p, vs["LRU"])
      /\ faults'[a] = faults[a] + IF Missing(PageFrames[a], p) THEN 1 ELSE 0
      /\ faults'["LRU"] = faults["LRU"] + IF Missing(PageFrames["LRU"], p) THEN 1 ELSE 0
  BY <1>3 DEF Step
<1> QED BY <1>2, <1>5, <1>6

\* Pages come in turn, and what that means for each algorithm.
LEMMA StepInTurn ==
  ASSUME PagingInv, NEW p, NEW vs, Step(p, vs)
  PROVE  Sequential'
<1>1. SUFFICES ASSUME algo = "seq"
               PROVE  InTurn(PageAccesses') /\ IF NUM_PAGES <= NUM_FRAMES THEN FewFrames' ELSE ManyFaults'
  BY DEF Step, Sequential
<1>2. p = PageAt(now) /\ p \in PageNumbers
  BY <1>1 DEF Step
<1>3. PICK s \in Seq(PageNumbers), n \in Nat : s = PageAccesses /\ n = now /\ n = Len(s)
  BY StepTurns
<1>4. InTurn(s) /\ IF NUM_PAGES <= NUM_FRAMES THEN FewFrames ELSE ManyFaults
  BY <1>1, <1>3 DEF PagingInv, Sequential
<1>5. InTurn(PageAccesses')
  <2>1. PICK t : t = Append(s, p)
    OBVIOUS
  <2>2. Len(t) = n + 1 /\ t[n + 1] = p /\ \A k \in 1 .. n : t[k] = s[k]
    <3>1. p \in PageNumbers
      BY <1>2
    <3>2. /\ Len(Append(s, p)) = Len(s) + 1 /\ Append(s, p)[Len(s) + 1] = p
          /\ \A k \in 1 .. Len(s) : Append(s, p)[k] = s[k]
      BY <3>1, AppendProperties
    <3> QED BY <1>3, <2>1, <3>2
  <2>3. ASSUME NEW k \in 1 .. n + 1 PROVE t[k] = PageAt(k - 1)
    <3>1. CASE k = n + 1
      <4>1. (n + 1) - 1 = n
        OBVIOUS
      <4> QED BY <1>2, <1>3, <2>2, <3>1, <4>1
    <3>2. CASE k # n + 1
      <4>1. k \in 1 .. n
        BY <3>2
      <4> QED BY <1>3, <1>4, <2>2, <4>1 DEF InTurn
    <3> QED BY <3>1, <3>2
  <2>4. InTurn(t)
    BY <2>2, <2>3 DEF InTurn
  <2> QED BY <1>3, <2>1, <2>4, StepTurns
<1>6. \A a \in Algorithms :
        /\ Framed(PageFrames[a], s)
        /\ \E h \in Frames : Turn(PageFrames[a], PageFrames'[a], h, PageAt(n), n, vs[a])
        /\ faults'[a] = faults[a] + IF Missing(PageFrames[a], PageAt(n)) THEN 1 ELSE 0
        /\ faults[a] \in Nat
  BY <1>2, <1>3, StepTurns DEF Step, PagingInv, PagingTypes
<1>7. now' = n + 1
  BY <1>3, StepTurns
<1>8. NUM_PAGES \in Nat /\ NUM_FRAMES \in Nat
  BY PagingAssumption
<1>9. ASSUME NUM_PAGES <= NUM_FRAMES PROVE FewFrames'
  <2>1. ASSUME NEW a \in Algorithms
        PROVE  /\ Few(PageFrames'[a], n + 1)
               /\ faults'[a] = IF n + 1 < NUM_PAGES THEN n + 1 ELSE NUM_PAGES
    <3>1. PICK h \in Frames : Turn(PageFrames[a], PageFrames'[a], h, PageAt(n), n, vs[a])
      BY <1>6
    <3>2. Few(PageFrames[a], n) /\ faults[a] = IF n < NUM_PAGES THEN n ELSE NUM_PAGES
      BY <1>3, <1>4, <1>9 DEF FewFrames
    <3>3. Few(PageFrames'[a], n + 1) /\ (Missing(PageFrames[a], PageAt(n)) <=> n < NUM_PAGES)
      BY <1>9, <3>1, <3>2, FewAfter
    <3>4. faults'[a] = faults[a] + IF n < NUM_PAGES THEN 1 ELSE 0
      BY <1>6, <3>3
    <3>5. faults'[a] = IF n + 1 < NUM_PAGES THEN n + 1 ELSE NUM_PAGES
      BY <1>8, <3>2, <3>4
    <3> QED BY <3>3, <3>5
  <2> QED BY <1>7, <2>1 DEF FewFrames
<1>10. ASSUME NUM_PAGES > NUM_FRAMES PROVE ManyFaults'
  <2>1. ManyFaults
    BY <1>4, <1>8, <1>10
  <2>2. ASSUME NEW a \in {"FIFO", "LRU"}
        PROVE  Rolling(PageFrames'[a], n + 1) /\ faults'[a] = n + 1
    <3>1. a \in Algorithms
      BY DEF Algorithms
    <3>2. PICK h \in Frames : Turn(PageFrames[a], PageFrames'[a], h, PageAt(n), n, vs[a])
      BY <1>6, <3>1
    <3>3. Rolling(PageFrames[a], n) /\ faults[a] = n
      BY <1>3, <2>1 DEF ManyFaults
    <3>4. Replaces(PageFrames[a], PageAt(n)) =>
            vs[a] = PRAlgo_LRU(PageFrames[a]) \/ vs[a] = PRAlgo_FIFO(PageFrames[a])
      BY <1>2, <1>3 DEF Step
    <3>5. Rolling(PageFrames'[a], n + 1) /\ Missing(PageFrames[a], PageAt(n))
      BY <1>3, <1>4, <1>6, <1>10, <3>1, <3>2, <3>3, <3>4, RollingAfter
    <3> QED BY <1>6, <3>1, <3>3, <3>5
  <2>3. ASSUME NEW a \in {"OPT", "CUST"}
        PROVE  LastChanges(PageFrames'[a], n + 1) /\ faults'[a] <= n + 1
    <3>1. a \in Algorithms
      BY DEF Algorithms
    <3>2. PICK h \in Frames : Turn(PageFrames[a], PageFrames'[a], h, PageAt(n), n, vs[a])
      BY <1>6, <3>1
    <3>3. LastChanges(PageFrames[a], n) /\ faults[a] <= n
      BY <1>3, <2>1 DEF ManyFaults
    <3>4. Replaces(PageFrames[a], PageAt(n)) => vs[a] = LastPage(PageFrames[a])
      BY <1>1, <1>2, <1>3 DEF Step
    <3>5. PageFrames[a] \in [Frames -> Frame]
      BY <1>6, <3>1 DEF Framed
    <3>6. LastChanges(PageFrames'[a], n + 1)
      BY <1>10, <3>2, <3>3, <3>4, <3>5, LastChangesAfter
    <3>7. faults'[a] <= n + 1
      BY <1>6, <3>1, <3>3
    <3> QED BY <3>6, <3>7
  <2>4. faults'["CUST"] = faults'["OPT"] /\ PageFrames'["CUST"] = PageFrames'["OPT"]
    <3>1. faults["CUST"] = faults["OPT"] /\ PageFrames["CUST"] = PageFrames["OPT"]
      BY <2>1 DEF ManyFaults
    <3>2. Replaces(PageFrames["OPT"], p) => vs["CUST"] = vs["OPT"]
      BY <1>1, <3>1 DEF Step
    <3>3. After(PageFrames["OPT"], p, vs["CUST"]) = After(PageFrames["OPT"], p, vs["OPT"])
      BY <3>2, AfterSame
    <3>4. /\ PageFrames'["CUST"] = After(PageFrames["CUST"], p, vs["CUST"])
          /\ PageFrames'["OPT"] = After(PageFrames["OPT"], p, vs["OPT"])
          /\ faults'["CUST"] = faults["CUST"] + IF Missing(PageFrames["CUST"], p) THEN 1 ELSE 0
          /\ faults'["OPT"] = faults["OPT"] + IF Missing(PageFrames["OPT"], p) THEN 1 ELSE 0
      BY DEF Step, Algorithms
    <3> QED BY <3>1, <3>3, <3>4
  <2> QED BY <1>7, <2>2, <2>3, <2>4 DEF ManyFaults
<1> QED BY <1>5, <1>8, <1>9, <1>10

\* Every access keeps the invariant.
LEMMA PagingInvNext ==
  ASSUME PagingInv, PagingNext
  PROVE  PagingInv'
<1>1. PICK p, vs : Step(p, vs)
  BY AccessSteps DEF PagingNext
<1> QED BY <1>1, StepTypes, StepKeeps, StepSame, StepInTurn DEF PagingInv

\* And so does a step that leaves the frames alone.
LEMMA PagingInvStutter ==
  ASSUME PagingInv, UNCHANGED pagingVars
  PROVE  PagingInv'
<1>1. UNCHANGED <<algo, PageAccesses, PageFrames, faults, victim>>
  BY DEF pagingVars
<1>2. now' = now
  BY <1>1 DEF now
<1>3. PagingTypes' /\ FramesAreFramed'
  BY <1>1 DEF PagingInv, PagingTypes, FramesAreFramed
<1>4. LRUKeeps' /\ FIFOQueues'
  BY <1>1, <1>2 DEF PagingInv, LRUKeeps, FIFOQueues
<1>5. OneAlgorithm'
  BY <1>1 DEF PagingInv, OneAlgorithm
<1>6. Sequential'
  <2>1. FewFrames => FewFrames'
    BY <1>1, <1>2 DEF FewFrames
  <2>2. ManyFaults => ManyFaults'
    BY <1>1, <1>2 DEF ManyFaults
  <2> QED BY <1>1, <2>1, <2>2 DEF PagingInv, Sequential
<1> QED BY <1>3, <1>4, <1>5, <1>6 DEF PagingInv

\* What the policies promise follows.
LEMMA PagingInvIsEnough == PagingInv => FramesFollowPolicy
<1> SUFFICES ASSUME PagingInv PROVE FramesFollowPolicy
  OBVIOUS
<1>1. PICK s \in Seq(PageNumbers), n \in Nat : s = PageAccesses /\ n = now
  BY LenProperties DEF PagingInv, PagingTypes, now
<1>2. \A a \in Algorithms : Framed(PageFrames[a], s)
  BY <1>1 DEF PagingInv, FramesAreFramed
<1>3. \A a \in Algorithms : Pages(a) = PagesOf(PageFrames[a])
  BY DEF Pages, PagesOf
<1>4. LRUIsRecent
  <2>1. Kept(PageFrames["LRU"], s) /\ Framed(PageFrames["LRU"], s)
    BY <1>1, <1>2 DEF PagingInv, LRUKeeps, Algorithms
  <2>2. PagesOf(PageFrames["LRU"]) = Recent(s)
    BY <2>1, KeptIsRecent
  <2> QED BY <1>1, <1>3, <2>2 DEF LRUIsRecent, Algorithms
<1>5. FIFOIsQueue
  <2>1. PagesOf(PageFrames["FIFO"]) = ToSet(Queues(PageAccesses)[now])
    BY QueuedPages DEF PagingInv, FIFOQueues
  <2> QED BY <1>3, <2>1 DEF FIFOIsQueue, Algorithms
<1>6. PagesAreApart
  <2>1. \A a \in Algorithms : victim[a] \in Frames
    BY DEF PagingInv, PagingTypes
  <2> QED BY <1>2, <2>1 DEF PagesAreApart, Framed
<1>7. SameAsLRU
  <2>1. ASSUME algo = "seq"
        PROVE  /\ faults["FIFO"] = faults["LRU"]
               /\ faults["OPT"] <= faults["LRU"] /\ faults["CUST"] = faults["OPT"]
    <3>1. CASE NUM_PAGES <= NUM_FRAMES
      <4>1. PICK k \in Nat : \A a \in Algorithms : faults[a] = k
        BY <1>1, <2>1, <3>1, PagingAssumption DEF PagingInv, Sequential, FewFrames
      <4> QED BY <4>1 DEF Algorithms
    <3>2. CASE ~ (NUM_PAGES <= NUM_FRAMES)
      BY <2>1, <3>2 DEF PagingInv, Sequential, ManyFaults
    <3> QED BY <3>1, <3>2
  <2>2. algo = "work" => /\ PageFrames["OPT"] = PageFrames["LRU"] /\ faults["OPT"] = faults["LRU"]
                         /\ PageFrames["CUST"] = PageFrames["LRU"] /\ faults["CUST"] = faults["LRU"]
    BY DEF PagingInv, OneAlgorithm
  <2> QED BY <2>1, <2>2 DEF SameAsLRU
<1> QED BY <1>4, <1>5, <1>6, <1>7 DEF FramesFollowPolicy

-----------------------------------------------------------------------------
(* The theorems.                                                           *)

\* The inductive invariant of handle_page_accesses under its four handlers
\* (memory_mgmt.c), for any number of pages and any two frames or more.
THEOREM PagingInvariance == PagingInit /\ [][PagingNext]_pagingVars => []PagingInv
<1>1. PagingInit => PagingInv
  BY PagingInvInit
<1>2. PagingInv /\ [PagingNext]_pagingVars => PagingInv'
  BY PagingInvNext, PagingInvStutter
<1> QED BY <1>1, <1>2, PTL

\* Whatever was accessed, LRU holds the pages used last and FIFO those of a
\* queue; OPT and CUST are LRU on the LR workload, and on the sequential one,
\* where they replace the last frame only, they never fault more.
THEOREM FramesAlwaysFollowPolicy == PagingInit /\ [][PagingNext]_pagingVars => []FramesFollowPolicy
<1>1. PagingInv => FramesFollowPolicy
  BY PagingInvIsEnough
<1> QED BY <1>1, PagingInvariance, PTL
=============================================================================
