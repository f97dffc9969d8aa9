----------------------------- MODULE SearchProofs ---------------------------
(***************************************************************************)
(* Theorems about Search, for any repositories, queries and page sizes.    *)
(***************************************************************************)
EXTENDS Search, TLAPS, FiniteSetTheorems, SequenceTheorems

(***************************************************************************)
(* The inductive invariant.                                                *)
(***************************************************************************)

\* Whatever is in the index was created while the world was watched, and whatever is old
\* enough is in it.
Births ==
    /\ now >= START
    /\ \A r \in Repos : born[r] \in START..now \cup {Unborn, None}
    /\ \A r \in index : born[r] \in START..now
    /\ \A r \in Repos : born[r] \in 0..(now - 1 - LAG) => r \in index

\* A checkpoint's instants are as old as its pass: a pass ended at least SETTLE ago, and
\* the watermark it left lies OVERLAP before that.
Dated(s) ==
    /\ \/ s.watermark = START
       \/ /\ now - SETTLE >= START
          /\ s.watermark \in (START - OVERLAP)..(now - SETTLE - OVERLAP)
    /\ s.target # None => s.target \in START..(now - SETTLE)

\* The longest queue there is: that of a pass that begins, or one that was split.
Longest == IF Len(Queries) > MAX_WINDOWS THEN Len(Queries) ELSE MAX_WINDOWS

\* What validate_state asks of a checkpoint, but for the configuration's share.
Loadable(s) ==
    /\ Len(s.windows) <= Longest
    /\ \A i \in DOMAIN s.windows : s.windows[i].start < s.windows[i].end
    /\ s.windows # <<>> => s.target # None

\* A repository a window has not shown yet: on the pages that are left there is room for
\* it and for all that were updated before it.
Unread(w, r) ==
    w.page > 1 => Cardinality(Hits(w) \cap earlier[r]) + (w.page - 1) * PAGE < w.expected_total
Pending(s, q, r) ==
    \E i \in DOMAIN s.windows :
        LET w == s.windows[i]
        IN w.query_index = q /\ born[r] \in w.start..w.end /\ Unread(w, r)

\* What a checkpoint has not listed lies behind its watermark, and what the running pass
\* will put before the next watermark is pending in its queue.
Covered(s) ==
    \A q \in DOMAIN Queries : \A r \in index :
        r \in Queries[q] /\ r \notin s.listed /\ r \notin torn =>
            /\ born[r] >= s.watermark
            /\ s.windows # <<>> /\ born[r] < s.target - OVERLAP => Pending(s, q, r)

Good(s) == s \in Checkpoint /\ Dated(s) /\ Loadable(s) /\ Covered(s)

IInv == TypeOK /\ Births /\ Good(state) /\ Good(saved)

(***************************************************************************)
(* Pages, places and queues.                                               *)
(***************************************************************************)

LEMMA Numbers ==
    /\ START \in Nat /\ OVERLAP \in Nat /\ SETTLE \in Nat /\ LAG \in Nat /\ Horizon \in Nat
    /\ OVERLAP <= START /\ START <= Horizon /\ LAG <= SETTLE + OVERLAP
    /\ PAGE \in Nat \ {0} /\ CAP \in Nat \ {0} /\ MAX_PAGES \in Nat \ {0}
    /\ MAX_WINDOWS \in Nat /\ Longest \in Nat
    /\ MAX_WINDOWS <= Longest /\ Len(Queries) <= Longest
    /\ Queries \in Seq(SUBSET Repos) /\ Queries # <<>> /\ IsFiniteSet(Repos)
    /\ MaxTouches \in Nat /\ MaxDeletes \in Nat /\ MaxAborts \in Nat
<1>1. Len(Queries) \in Nat /\ MAX_WINDOWS \in Nat
  BY SearchAssumption, LenProperties
<1>2. /\ Longest \in Nat /\ MAX_WINDOWS <= Longest /\ Len(Queries) <= Longest
  BY <1>1 DEF Longest
<1> QED
  BY <1>2, SearchAssumption

\* The pages that GitHub returns results on are numbered from one.
LEMMA PagesOfCap ==
    /\ CAP \div PAGE \in Nat \ {0}
    /\ \A p \in Nat : p * PAGE < CAP => p + 1 <= CAP \div PAGE
<1> DEFINE k == CAP \div PAGE
<1>1. PAGE \in Nat \ {0} /\ CAP \in Nat \ {0} /\ CAP % PAGE = 0
  BY SearchAssumption
<1>2. k \in Int /\ CAP = k * PAGE
  BY <1>1
<1> HIDE DEF k
<1>3. k > 0
  BY <1>1, <1>2
<1>4. ASSUME NEW p \in Nat, p * PAGE < CAP PROVE p < k
  <2> SUFFICES ASSUME k <= p PROVE FALSE
    BY <1>2
  <2>1. (p - k) * PAGE >= 0
    BY <1>1, <1>2
  <2>2. (p - k) * PAGE = p * PAGE - k * PAGE
    BY <1>1, <1>2
  <2> QED
    BY <1>1, <1>2, <1>4, <2>1, <2>2
<1> QED
  BY <1>2, <1>3, <1>4 DEF k

LEMMA HitsAreCounted ==
    ASSUME TypeOK, NEW w, NEW S
    PROVE  /\ IsFiniteSet(Hits(w)) /\ Cardinality(Hits(w)) \in Nat
           /\ IsFiniteSet(Hits(w) \cap S) /\ Cardinality(Hits(w) \cap S) \in Nat
<1>1. IsFiniteSet(Hits(w))
  BY Numbers, FS_Subset DEF TypeOK, Hits
<1> QED
  BY <1>1, FS_Intersection, FS_CardinalityType

\* The place of a result leaves room for those updated before it.
LEMMA PlaceCounts ==
    ASSUME TypeOK, NEW w, NEW r \in Hits(w)
    PROVE  /\ Place(w, r) = Cardinality(Hits(w)) - Cardinality(Hits(w) \cap earlier[r])
           /\ Place(w, r) \in 1..Cardinality(Hits(w))
<1>1. /\ IsFiniteSet(Hits(w)) /\ Cardinality(Hits(w)) \in Nat
      /\ Cardinality(Hits(w) \cap earlier[r]) \in Nat
  BY HitsAreCounted
<1>2. /\ IsFiniteSet(Hits(w) \ earlier[r])
      /\ Place(w, r) = Cardinality(Hits(w)) - Cardinality(Hits(w) \cap earlier[r])
  BY <1>1, FS_Difference DEF Place
<1>3. r \notin earlier[r]
  BY DEF TypeOK, Hits
<1>4. Cardinality(Hits(w) \ earlier[r]) \in Nat /\ Cardinality(Hits(w) \ earlier[r]) # 0
  BY <1>2, <1>3, FS_EmptySet, FS_CardinalityType
<1> QED
  BY <1>1, <1>2, <1>4 DEF Place

LEMMA QueueParts ==
    ASSUME NEW ws \in Seq(Window), ws # <<>>
    PROVE  /\ Len(ws) \in Nat \ {0} /\ DOMAIN ws = 1..Len(ws) /\ ws[1] \in Window
           /\ Tail(ws) \in Seq(Window) /\ Len(Tail(ws)) = Len(ws) - 1
           /\ DOMAIN Tail(ws) = 1..(Len(ws) - 1)
           /\ \A i \in 1..(Len(ws) - 1) : Tail(ws)[i] = ws[i + 1]
           /\ \A i \in 2..Len(ws) : ws[i] = Tail(ws)[i - 1]
BY HeadTailProperties, LenProperties, EmptySeq

LEMMA QueueSplits ==
    ASSUME NEW ws \in Seq(Window), ws # <<>>, NEW a \in Window, NEW b \in Window,
           NEW v, v = <<a, b>> \o Tail(ws)
    PROVE  /\ v \in Seq(Window) /\ Len(v) = Len(ws) + 1 /\ v # <<>> /\ v[1] = a /\ v[2] = b
           /\ DOMAIN v = 1..(Len(ws) + 1)
           /\ \A i \in 3..Len(ws) + 1 : v[i] = ws[i - 1]
           /\ \A i \in 2..Len(ws) : ws[i] = v[i + 1]
<1>1. /\ Tail(ws) \in Seq(Window) /\ Len(Tail(ws)) = Len(ws) - 1 /\ Len(ws) \in Nat \ {0}
      /\ \A i \in 1..(Len(ws) - 1) : Tail(ws)[i] = ws[i + 1]
  BY QueueParts
<1>2. <<a, b>> \in Seq(Window) /\ Len(<<a, b>>) = 2 /\ <<a, b>>[1] = a /\ <<a, b>>[2] = b
  OBVIOUS
<1>3. /\ v \in Seq(Window) /\ Len(v) = 2 + (Len(ws) - 1)
      /\ \A i \in 1..Len(v) : v[i] = IF i <= 2 THEN <<a, b>>[i] ELSE Tail(ws)[i - 2]
  BY <1>1, <1>2, ConcatProperties
<1>4. Len(v) = Len(ws) + 1 /\ DOMAIN v = 1..(Len(ws) + 1) /\ v # <<>>
  BY <1>1, <1>3, LenProperties, EmptySeq
<1>5. v[1] = a /\ v[2] = b
  BY <1>1, <1>2, <1>3, <1>4
<1>6. \A i \in 3..Len(ws) + 1 : v[i] = ws[i - 1]
  <2> SUFFICES ASSUME NEW i \in 3..Len(ws) + 1 PROVE v[i] = ws[i - 1]
    OBVIOUS
  <2>1. v[i] = Tail(ws)[i - 2]
    BY <1>1, <1>3, <1>4
  <2>2. i - 2 \in 1..(Len(ws) - 1) /\ (i - 2) + 1 = i - 1
    BY <1>1
  <2>3. Tail(ws)[i - 2] = ws[(i - 2) + 1]
    BY <1>1, <2>2
  <2> QED
    BY <2>1, <2>2, <2>3
<1>7. \A i \in 2..Len(ws) : ws[i] = v[i + 1]
  <2> SUFFICES ASSUME NEW i \in 2..Len(ws) PROVE ws[i] = v[i + 1]
    OBVIOUS
  <2>1. i + 1 \in 3..Len(ws) + 1 /\ (i + 1) - 1 = i
    BY <1>1
  <2> QED
    BY <1>6, <2>1
<1> QED
  BY <1>3, <1>4, <1>5, <1>6, <1>7

LEMMA QueueFirstChanges ==
    ASSUME NEW ws \in Seq(Window), ws # <<>>, NEW a \in Window, NEW v, v = [ws EXCEPT ![1] = a]
    PROVE  /\ v \in Seq(Window) /\ Len(v) = Len(ws) /\ v # <<>> /\ v[1] = a
           /\ DOMAIN v = 1..Len(ws) /\ DOMAIN ws = 1..Len(ws)
           /\ \A i \in 2..Len(ws) : v[i] = ws[i]
<1>1. Len(ws) \in Nat \ {0} /\ DOMAIN ws = 1..Len(ws)
  BY QueueParts
<1>2. v \in Seq(Window) /\ Len(v) = Len(ws)
  BY <1>1, ExceptSeq
<1> QED
  BY <1>1, <1>2, EmptySeq, LenProperties

(***************************************************************************)
(* What a response makes of the checkpoint.                                *)
(***************************************************************************)

LEMMA FirstWindow ==
    ASSUME Good(state), state.windows # <<>>
    PROVE  /\ window \in Window /\ Len(state.windows) \in Nat \ {0}
           /\ DOMAIN state.windows = 1..Len(state.windows)
           /\ window.start \in Time /\ window.end \in Time /\ window.start < window.end
           /\ window.page \in Nat \ {0} /\ window.page <= CAP \div PAGE
           /\ window.query_index \in DOMAIN Queries
           /\ window.expected_total \in {None} \cup 0..CAP
           /\ state.target # None /\ Len(state.windows) <= Longest
<1>1. state.windows \in Seq(Window)
  BY DEF Good, Checkpoint
<1>2. /\ window \in Window /\ Len(state.windows) \in Nat \ {0}
      /\ DOMAIN state.windows = 1..Len(state.windows)
  BY <1>1, QueueParts DEF window
<1>3. /\ window.start \in Time /\ window.end \in Time /\ window.query_index \in DOMAIN Queries
      /\ window.expected_total \in {None} \cup 0..CAP /\ window.page \in 1..(CAP \div PAGE)
  BY <1>2 DEF Window
<1>4. window.page \in Nat \ {0} /\ window.page <= CAP \div PAGE
  BY <1>3, PagesOfCap
<1>5. window.start < window.end
  BY <1>2 DEF window, Good, Loadable
<1> QED
  BY <1>2, <1>3, <1>4, <1>5 DEF Good, Loadable

\* The halves of a window that can be split share the second in the middle.
LEMMA HalvesAreWindows ==
    ASSUME Good(state), state.windows # <<>>, CanSplit(window)
    PROVE  \E a \in Window : \E b \in Window :
               /\ Halves(window) = <<a, b>>
               /\ a.start = window.start /\ a.end = b.start /\ b.end = window.end
               /\ a.start < a.end /\ b.start < b.end /\ a.page = 1 /\ b.page = 1
               /\ a.query_index = window.query_index /\ b.query_index = window.query_index
               /\ 2 * (a.end - a.start) <= b.end - a.start
<1> DEFINE w == window
           mid == w.start + (w.end - w.start) \div 2
           a == [w EXCEPT !.page = 1, !.expected_total = None, !.end = mid]
           b == [w EXCEPT !.page = 1, !.expected_total = None, !.start = mid]
<1>1. /\ w \in Window /\ w.start \in 0..Horizon /\ w.end \in 0..Horizon /\ w.end - w.start > 1
      /\ Horizon \in Nat /\ 1 \in 1..(CAP \div PAGE)
  BY FirstWindow, Numbers, PagesOfCap DEF CanSplit, Time
<1>2. /\ mid \in 0..Horizon /\ w.start < mid /\ mid < w.end
      /\ 2 * (mid - w.start) <= w.end - w.start
  <2>1. \A x, y \in 0..Horizon : y - x > 1 =>
            LET z == x + (y - x) \div 2
            IN z \in 0..Horizon /\ x < z /\ z < y /\ 2 * (z - x) <= y - x
    BY Numbers
  <2> HIDE DEF w
  <2> QED
    BY <1>1, <2>1
<1>3. Halves(window) = <<a, b>>
  BY DEF Halves
<1> HIDE DEF w, mid
<1>4. /\ a \in Window /\ b \in Window /\ a.start = w.start /\ a.end = mid /\ b.start = mid
      /\ b.end = w.end /\ a.page = 1 /\ b.page = 1
      /\ a.query_index = w.query_index /\ b.query_index = w.query_index
  BY <1>1, <1>2 DEF Window, Time
<1> HIDE DEF a, b
<1> QED
  BY <1>2, <1>3, <1>4 DEF w

LEMMA SplitKeepsGood ==
    ASSUME TypeOK, Good(state), state.windows # <<>>, CanSplit(window),
           NEW t, t = [state EXCEPT !.windows = Halves(window) \o Tail(@)]
    PROVE  Good(t)
<1> DEFINE ws == state.windows
<1>1. PICK a \in Window, b \in Window :
          /\ Halves(window) = <<a, b>>
          /\ a.start = window.start /\ a.end = b.start /\ b.end = window.end
          /\ a.start < a.end /\ b.start < b.end /\ a.page = 1 /\ b.page = 1
          /\ a.query_index = window.query_index /\ b.query_index = window.query_index
  BY HalvesAreWindows
<1> DEFINE v == <<a, b>> \o Tail(ws)
<1>2. state \in Checkpoint /\ ws \in Seq(Window)
  BY DEF Good, Checkpoint
<1>3. t = [state EXCEPT !.windows = v]
  <2>1. Halves(window) \o Tail(ws) = v
    BY <1>1
  <2> QED
    BY <2>1
<1>4. /\ v \in Seq(Window) /\ Len(v) = Len(ws) + 1 /\ v # <<>> /\ v[1] = a /\ v[2] = b
      /\ DOMAIN v = 1..(Len(ws) + 1)
      /\ \A i \in 3..Len(ws) + 1 : v[i] = ws[i - 1]
      /\ \A i \in 2..Len(ws) : ws[i] = v[i + 1]
  BY <1>2, QueueSplits
<1> HIDE DEF v
<1>5. /\ t \in Checkpoint /\ t.windows = v /\ t.watermark = state.watermark
      /\ t.target = state.target /\ t.listed = state.listed
  BY <1>2, <1>3, <1>4 DEF Checkpoint
<1>6. /\ Len(ws) \in Nat \ {0} /\ DOMAIN ws = 1..Len(ws) /\ state.target # None
      /\ window.start \in Nat /\ window.end \in Nat
  <2>1. window.start \in 0..Horizon /\ window.end \in 0..Horizon /\ Horizon \in Nat
    BY FirstWindow, Numbers DEF Time
  <2>2. Len(ws) \in Nat \ {0} /\ DOMAIN ws = 1..Len(ws) /\ state.target # None
    BY FirstWindow
  <2> QED
    BY <2>1, <2>2
<1>7. Dated(t)
  BY <1>5 DEF Good, Dated
<1>8. Loadable(t)
  <2>1. Len(v) <= Longest
    <3>1. /\ Len(ws) < MAX_WINDOWS /\ MAX_WINDOWS \in Nat
          /\ MAX_WINDOWS <= Longest /\ Longest \in Nat
      BY Numbers DEF CanSplit
    <3> QED
      BY <1>4, <1>6, <3>1
  <2>2. ASSUME NEW i \in DOMAIN v PROVE v[i].start < v[i].end
    <3>1. CASE i \in 3..Len(ws) + 1
      <4>1. v[i] = ws[i - 1] /\ i - 1 \in DOMAIN ws
        BY <1>4, <1>6, <3>1
      <4> QED
        BY <4>1 DEF Good, Loadable
    <3>2. CASE i = 1 \/ i = 2
      BY <1>1, <1>4, <3>2
    <3>3. i \in 3..Len(ws) + 1 \/ i = 1 \/ i = 2
      BY <1>4, <1>6
    <3> QED
      BY <3>1, <3>2, <3>3
  <2> QED
    BY <1>5, <1>6, <2>1, <2>2 DEF Loadable
<1>9. Covered(t)
  <2> SUFFICES ASSUME NEW q \in DOMAIN Queries, NEW r \in index, Pending(state, q, r)
               PROVE  Pending(t, q, r)
    BY <1>5, <1>6, EmptySeq DEF Good, Covered
  <2>1. PICK i \in DOMAIN ws : /\ ws[i].query_index = q /\ born[r] \in ws[i].start..ws[i].end
                               /\ Unread(ws[i], r)
    BY DEF Pending
  <2>2. CASE i = 1
    <3>1. born[r] \in window.start..window.end /\ window.query_index = q
      BY <2>1, <2>2 DEF window
    <3>2. a.end \in Nat
      <4>1. a.end \in 0..Horizon /\ Horizon \in Nat
        BY Numbers DEF Window, Time
      <4> QED
        BY <4>1
    <3>3. born[r] \in a.start..a.end \/ born[r] \in b.start..b.end
      <4>1. \A x \in window.start..window.end : x \in window.start..a.end \/ x \in a.end..window.end
        BY <1>6, <3>2
      <4> QED
        BY <1>1, <3>1, <4>1
    <3>4. Unread(a, r) /\ Unread(b, r)
      BY <1>1 DEF Unread
    <3>5. 1 \in DOMAIN v /\ 2 \in DOMAIN v
      BY <1>4, <1>6
    <3> QED
      BY <1>1, <1>4, <1>5, <3>1, <3>3, <3>4, <3>5 DEF Pending
  <2>3. CASE i # 1
    <3>1. i \in 2..Len(ws) /\ i + 1 \in DOMAIN v
      BY <1>4, <1>6, <2>3
    <3>2. v[i + 1] = ws[i]
      BY <1>4, <3>1
    <3> QED
      BY <1>5, <2>1, <3>1, <3>2 DEF Pending
  <2> QED
    BY <2>2, <2>3
<1> QED
  BY <1>5, <1>7, <1>8, <1>9 DEF Good

\* The first window changes its page and its total, and the rest of the queue stays.
LEMMA PageKeepsGood ==
    ASSUME TypeOK, Good(state), state.windows # <<>>, NEW L \in SUBSET Repos,
           NEW p \in 1..(CAP \div PAGE), NEW e \in {None} \cup 0..CAP,
           NEW t, t = [state EXCEPT
               !.listed = @ \cup L,
               !.windows = Requeued([window EXCEPT !.page = p, !.expected_total = e])],
           \A r \in Hits(window) : Unread(window, r) /\ r \notin L /\ p > 1 =>
               Cardinality(Hits(window) \cap earlier[r]) + (p - 1) * PAGE < e
    PROVE  Good(t)
<1> DEFINE ws == state.windows
           a == [window EXCEPT !.page = p, !.expected_total = e]
           v == [ws EXCEPT ![1] = a]
<1>1. state \in Checkpoint /\ ws \in Seq(Window) /\ window \in Window
  BY FirstWindow DEF Good, Checkpoint
<1>2. /\ a \in Window /\ a.start = window.start /\ a.end = window.end /\ a.page = p
      /\ a.query_index = window.query_index /\ a.expected_total = e
  BY <1>1 DEF Window
<1>3. t = [state EXCEPT !.listed = @ \cup L, !.windows = v]
  BY DEF Requeued
<1> HIDE DEF a
<1>4. /\ v \in Seq(Window) /\ Len(v) = Len(ws) /\ v # <<>> /\ v[1] = a
      /\ DOMAIN v = 1..Len(ws) /\ DOMAIN ws = 1..Len(ws)
      /\ \A i \in 2..Len(ws) : v[i] = ws[i]
  BY <1>1, <1>2, QueueFirstChanges
<1> HIDE DEF v
<1>5. /\ t \in Checkpoint /\ t.windows = v /\ t.watermark = state.watermark
      /\ t.target = state.target /\ t.listed = state.listed \cup L
  BY <1>1, <1>3, <1>4 DEF Checkpoint
<1>6. Len(ws) \in Nat \ {0} /\ state.target # None
  BY FirstWindow
<1>7. \A i \in 1..Len(ws) : i = 1 \/ i \in 2..Len(ws)
  BY <1>6
<1>8. Dated(t)
  BY <1>5 DEF Good, Dated
<1>9. Loadable(t)
  <2>1. a.start < a.end
    BY <1>2, FirstWindow
  <2> QED
    BY <1>4, <1>5, <1>6, <1>7, <2>1 DEF Good, Loadable
<1>10. Covered(t)
  <2> SUFFICES ASSUME NEW q \in DOMAIN Queries, NEW r \in index, r \in Queries[q],
                      r \notin L, Pending(state, q, r)
               PROVE  Pending(t, q, r)
    BY <1>5, <1>6, EmptySeq DEF Good, Covered
  <2>1. PICK i \in DOMAIN ws : /\ ws[i].query_index = q /\ born[r] \in ws[i].start..ws[i].end
                               /\ Unread(ws[i], r)
    BY DEF Pending
  <2>2. CASE i = 1
    <3>1. /\ born[r] \in window.start..window.end /\ window.query_index = q
          /\ Unread(window, r)
      BY <2>1, <2>2 DEF window
    <3>2. r \in Hits(window) /\ Hits(a) = Hits(window)
      BY <1>2, <3>1 DEF Hits
    <3>3. Unread(a, r)
      BY <1>2, <3>1, <3>2 DEF Unread
    <3> QED
      BY <1>2, <1>4, <1>5, <1>6, <3>1, <3>3 DEF Pending
  <2>3. CASE i # 1
    <3>1. i \in 2..Len(ws) /\ i \in DOMAIN v
      BY <1>4, <1>7, <2>3
    <3>2. v[i] = ws[i]
      BY <1>4, <3>1
    <3> QED
      BY <1>5, <2>1, <3>1, <3>2 DEF Pending
  <2> QED
    BY <2>2, <2>3
<1> QED
  BY <1>5, <1>8, <1>9, <1>10 DEF Good

\* A result that is pending and not on this page comes after it.
LEMMA PageShows ==
    ASSUME TypeOK, Good(state), state.windows # <<>>, ~Changed,
           NEW r \in Hits(window), Unread(window, r), r \notin PageOf(window)
    PROVE  Cardinality(Hits(window) \cap earlier[r]) + window.page * PAGE < Total
<1> DEFINE m == Cardinality(Hits(window) \cap earlier[r])
           p == window.page
           x == (p - 1) * PAGE
<1>1. /\ p \in Nat \ {0} /\ PAGE \in Nat \ {0} /\ m \in Nat /\ Total \in Nat
      /\ window.expected_total \in {None, Total}
  BY FirstWindow, Numbers, HitsAreCounted DEF Total, Changed
<1>2. x \in Nat /\ p * PAGE = x + PAGE
  BY <1>1
<1>3. Place(window, r) = Total - m /\ Place(window, r) \in 1..Total
  BY PlaceCounts DEF Total
<1>4. Place(window, r) \notin x + 1 .. p * PAGE
  BY DEF PageOf
<1>5. m + x < Total
  <2>1. CASE p = 1
    <3>1. x = 0
      BY <1>1, <2>1
    <3> QED
      BY <1>1, <1>3, <3>1
  <2>2. CASE p > 1
    <3>1. m + x < window.expected_total
      BY <2>2 DEF Unread
    <3> HIDE DEF m, x
    <3> QED
      BY <1>1, <1>2, <3>1 DEF None
  <2> QED
    BY <1>1, <2>1, <2>2
<1> HIDE DEF m, x, p
<1>6. p * PAGE \in Nat
  BY <1>1, <1>2
<1>7. m + p * PAGE < Total
  BY <1>1, <1>2, <1>3, <1>4, <1>5, <1>6
<1> QED
  BY <1>7 DEF m, p

LEMMA LastPageKeepsGood ==
    ASSUME TypeOK, Good(state), state.windows # <<>>, ~Changed,
           window.page * PAGE >= Total,
           NEW t, t = Advanced([state EXCEPT !.listed = @ \cup PageOf(window), !.windows = Tail(@)])
    PROVE  Good(t)
<1> DEFINE ws == state.windows
           v == Tail(ws)
           L == PageOf(window)
           u == [state EXCEPT !.listed = @ \cup L, !.windows = v]
<1>1. /\ state \in Checkpoint /\ ws \in Seq(Window) /\ L \subseteq Repos
      /\ t = Advanced(u)
  BY DEF Good, Checkpoint, PageOf, Hits, TypeOK
<1>2. /\ v \in Seq(Window) /\ Len(v) = Len(ws) - 1 /\ Len(ws) \in Nat \ {0}
      /\ DOMAIN ws = 1..Len(ws) /\ DOMAIN v = 1..(Len(ws) - 1)
      /\ \A i \in 1..(Len(ws) - 1) : v[i] = ws[i + 1]
      /\ \A i \in 2..Len(ws) : ws[i] = v[i - 1]
  BY <1>1, QueueParts
<1> HIDE DEF v, L
<1>3. /\ u \in Checkpoint /\ u.windows = v /\ u.listed = state.listed \cup L
      /\ u.watermark = state.watermark /\ u.target = state.target
  BY <1>1, <1>2 DEF Checkpoint
<1> HIDE DEF u
<1>4. /\ Len(ws) <= Longest /\ state.target # None /\ Longest \in Nat
      /\ state.target \in START..(now - SETTLE)
  BY FirstWindow, Numbers DEF Good, Dated
<1>5. ASSUME NEW q \in DOMAIN Queries, NEW r \in index, r \in Queries[q],
             r \notin u.listed, r \notin torn
      PROVE  /\ born[r] >= u.watermark
             /\ born[r] < u.target - OVERLAP => Pending(u, q, r)
  <2>1. /\ born[r] >= state.watermark
        /\ born[r] < state.target - OVERLAP => Pending(state, q, r)
    BY <1>3, <1>5 DEF Good, Covered
  <2>2. ASSUME Pending(state, q, r) PROVE Pending(u, q, r)
    <3>1. PICK i \in DOMAIN ws : /\ ws[i].query_index = q /\ born[r] \in ws[i].start..ws[i].end
                                 /\ Unread(ws[i], r)
      BY <2>2 DEF Pending
    <3>2. i # 1
      <4> SUFFICES ASSUME i = 1 PROVE FALSE
        OBVIOUS
      <4>1. /\ born[r] \in window.start..window.end /\ window.query_index = q
            /\ Unread(window, r)
        BY <3>1 DEF window
      <4>2. r \in Hits(window)
        BY <1>5, <4>1 DEF Hits
      <4>3. r \notin PageOf(window)
        BY <1>3, <1>5 DEF L
      <4>4. Cardinality(Hits(window) \cap earlier[r]) + window.page * PAGE < Total
        BY <4>1, <4>2, <4>3, PageShows
      <4>5. /\ Cardinality(Hits(window) \cap earlier[r]) \in Nat /\ Total \in Nat
            /\ window.page * PAGE \in Nat
        <5>1. window.page \in Nat /\ PAGE \in Nat
          BY FirstWindow, Numbers
        <5>2. window.page * PAGE \in Nat
          BY <5>1
        <5> QED
          BY <5>2, HitsAreCounted DEF Total
      <4> QED
        BY <4>4, <4>5
    <3>3. i \in 2..Len(ws) /\ i - 1 \in DOMAIN v
      BY <1>2, <3>2
    <3>4. v[i - 1] = ws[i]
      BY <1>2, <3>3
    <3> QED
      BY <1>3, <3>1, <3>3, <3>4 DEF Pending
  <2> QED
    BY <1>3, <2>1, <2>2
<1>6. CASE v # <<>>
  <2>1. t = u
    BY <1>1, <1>3, <1>6 DEF Advanced
  <2>2. Dated(u)
    BY <1>3 DEF Good, Dated
  <2>3. Loadable(u)
    <3>1. Len(v) <= Longest
      BY <1>2, <1>4
    <3>2. ASSUME NEW i \in DOMAIN v PROVE v[i].start < v[i].end
      <4>1. v[i] = ws[i + 1] /\ i + 1 \in DOMAIN ws
        BY <1>2
      <4> QED
        BY <4>1 DEF Good, Loadable
    <3> QED
      BY <1>3, <1>4, <3>1, <3>2 DEF Loadable
  <2>4. Covered(u)
    BY <1>5 DEF Covered
  <2> QED
    BY <1>3, <2>1, <2>2, <2>3, <2>4 DEF Good
<1>7. CASE v = <<>>
  <2>1. t = [u EXCEPT !.watermark = u.target - OVERLAP, !.target = None]
    BY <1>1, <1>3, <1>7 DEF Advanced
  <2>2. /\ START \in Nat /\ OVERLAP \in Nat /\ SETTLE \in Nat /\ OVERLAP <= START
        /\ now \in 0..Horizon /\ Horizon \in Nat
    BY Numbers DEF TypeOK, Time
  <2>3. state.target - OVERLAP \in 0..Horizon
    BY <1>4, <2>2
  <2>4. /\ t \in Checkpoint /\ t.windows = <<>> /\ t.listed = u.listed
        /\ t.watermark = state.target - OVERLAP /\ t.target = None
    BY <1>3, <1>7, <2>1, <2>3 DEF Checkpoint, Time
  <2>5. Dated(t)
    BY <1>4, <2>2, <2>4 DEF Dated
  <2>6. Loadable(t)
    BY <1>4, <2>4 DEF Loadable
  <2>7. Covered(t)
    <3>1. ASSUME NEW q \in DOMAIN Queries, NEW r \in index, r \in Queries[q],
                 r \notin u.listed, r \notin torn
          PROVE  ~(born[r] < u.target - OVERLAP)
      <4>1. ~Pending(u, q, r)
        BY <1>3, <1>7 DEF Pending
      <4> QED
        BY <1>5, <3>1, <4>1
    <3>2. \A r \in index : born[r] \in Int
      <4>1. \A r \in index : born[r] \in Time \cup {Unborn, None}
        BY DEF TypeOK
      <4> QED
        BY <2>2, <4>1 DEF Time, Unborn, None
    <3>3. u.target - OVERLAP \in Int /\ u.target = state.target
      BY <1>3, <1>4, <2>2
    <3> QED
      BY <2>4, <3>1, <3>2, <3>3 DEF Covered
  <2> QED
    BY <2>4, <2>5, <2>6, <2>7 DEF Good
<1> QED
  BY <1>6, <1>7

LEMMA ListingKeepsGood ==
    ASSUME Good(state), NEW L \in SUBSET Repos, NEW t, t = [state EXCEPT !.listed = @ \cup L]
    PROVE  Good(t)
<1>1. state \in Checkpoint
  BY DEF Good
<1>2. /\ t \in Checkpoint /\ t.windows = state.windows /\ t.listed = state.listed \cup L
      /\ t.watermark = state.watermark /\ t.target = state.target
  BY <1>1 DEF Checkpoint
<1>3. Dated(t) /\ Loadable(t)
  BY <1>2 DEF Good, Dated, Loadable
<1>4. \A q \in DOMAIN Queries : \A r \in index : Pending(t, q, r) <=> Pending(state, q, r)
  BY <1>2 DEF Pending
<1>5. Covered(t)
  BY <1>2, <1>4 DEF Good, Covered
<1> QED
  BY <1>2, <1>3, <1>5 DEF Good

\* A new pass: one window for each query, from the watermark on.
LEMMA PassKeepsGood ==
    ASSUME TypeOK, Births, Good(state), state.windows = <<>>, state.watermark < now - SETTLE,
           NEW t, t = [state EXCEPT
                    !.target = now - SETTLE,
                    !.windows = [q \in DOMAIN Queries |->
                        [start |-> state.watermark, end |-> now - SETTLE, page |-> 1,
                         query_index |-> q, expected_total |-> None]]]
    PROVE  Good(t)
<1> DEFINE n == Len(Queries)
           e == now - SETTLE
           W(q) == [start |-> state.watermark, end |-> e, page |-> 1,
                    query_index |-> q, expected_total |-> None]
           v == [q \in 1..n |-> W(q)]
<1>1. /\ n \in Nat \ {0} /\ DOMAIN Queries = 1..n /\ n <= Longest
  BY Numbers, LenProperties, EmptySeq
<1>2. /\ START \in Nat /\ OVERLAP \in Nat /\ SETTLE \in Nat /\ OVERLAP <= START
      /\ now \in 0..Horizon /\ Horizon \in Nat /\ state \in Checkpoint
      /\ state.watermark \in 0..Horizon
  BY Numbers DEF TypeOK, Time, Good, Checkpoint
<1>3. e \in 0..Horizon /\ e >= START /\ e \in Int
  BY <1>2 DEF Good, Dated
<1>4. \A q \in 1..n : W(q) \in Window
  <2>1. 1 \in 1..(CAP \div PAGE)
    BY PagesOfCap
  <2> QED
    BY <1>1, <1>2, <1>3, <2>1 DEF Window, Time
<1>5. v \in Seq(Window) /\ Len(v) = n /\ DOMAIN v = 1..n /\ v # <<>>
  <2>1. v \in [1..n -> Window]
    BY <1>4
  <2>2. v \in Seq(Window)
    BY <1>1, <2>1, SeqDef
  <2>3. 1..Len(v) = 1..n /\ Len(v) \in Nat
    BY <2>2, LenProperties
  <2>4. Len(v) = n
    <3> HIDE DEF v, n
    <3>1. n \in 1..Len(v)
      BY <1>1, <2>3
    <3>2. Len(v) >= 1
      BY <1>1, <2>3, <3>1
    <3>3. Len(v) \in 1..n
      <4>1. \A i \in Nat : i >= 1 => i \in 1..i
        OBVIOUS
      <4>2. Len(v) \in 1..Len(v)
        BY <2>3, <3>2, <4>1
      <4> QED
        BY <2>3, <4>2
    <3> QED
      BY <1>1, <2>3, <3>1, <3>3
  <2> QED
    BY <1>1, <2>2, <2>4, EmptySeq
<1>6. t = [state EXCEPT !.target = e, !.windows = v]
  BY <1>1
<1>7. \A q \in 1..n : v[q] = W(q)
  OBVIOUS
<1> HIDE DEF v
<1>8. /\ t \in Checkpoint /\ t.windows = v /\ t.target = e /\ t.listed = state.listed
      /\ t.watermark = state.watermark
  BY <1>2, <1>3, <1>5, <1>6 DEF Checkpoint, Time
<1>9. Dated(t)
  BY <1>3, <1>8 DEF Good, Dated
<1>10. Loadable(t)
  <2>1. e # None
    BY <1>3 DEF None
  <2>2. \A i \in DOMAIN v : v[i].start < v[i].end
    BY <1>5, <1>7
  <2> QED
    BY <1>1, <1>5, <1>8, <2>1, <2>2 DEF Loadable
<1>11. Covered(t)
  <2> SUFFICES ASSUME NEW q \in DOMAIN Queries, NEW r \in index, r \in Queries[q],
                      r \notin state.listed, r \notin torn
               PROVE  /\ born[r] >= state.watermark
                      /\ born[r] < e - OVERLAP => Pending(t, q, r)
    BY <1>8 DEF Covered
  <2>1. born[r] >= state.watermark
    BY DEF Good, Covered
  <2>2. born[r] \in Int
    <3>1. born[r] \in START..now
      BY DEF Births
    <3> QED
      BY <3>1
  <2>3. ASSUME born[r] < e - OVERLAP PROVE Pending(t, q, r)
    <3> DEFINE w == W(q)
    <3>0. v[q] = w /\ q \in DOMAIN v
      BY <1>1, <1>5, <1>7
    <3>1. born[r] \in w.start..w.end
      BY <1>2, <1>3, <2>1, <2>2, <2>3
    <3>2. w.query_index = q /\ Unread(w, r)
      BY DEF Unread
    <3> HIDE DEF w
    <3> QED
      BY <1>8, <3>0, <3>1, <3>2 DEF Pending
  <2> QED
    BY <2>1, <2>3
<1> QED
  BY <1>8, <1>9, <1>10, <1>11 DEF Good

(***************************************************************************)
(* GitHub and time.                                                        *)
(***************************************************************************)

LEMMA RangeGrows ==
    ASSUME NEW a \in Int, NEW b \in Int, NEW c \in Int, b <= c, NEW x, x \in a..b
    PROVE  x \in a..c
OBVIOUS

LEMMA DatesStayTrue ==
    ASSUME NEW s, Dated(s), now \in Int, now' \in Int, now' >= now
    PROVE  Dated(s)'
<1>1. START \in Int /\ SETTLE \in Int /\ OVERLAP \in Int
  BY Numbers
<1>2. PICK m \in Int : m = now' /\ m >= now
  OBVIOUS
<1>3. /\ now - SETTLE \in Int /\ m - SETTLE \in Int /\ now - SETTLE <= m - SETTLE
      /\ START - OVERLAP \in Int /\ now - SETTLE - OVERLAP \in Int
      /\ m - SETTLE - OVERLAP \in Int /\ now - SETTLE - OVERLAP <= m - SETTLE - OVERLAP
      /\ now - SETTLE >= START => m - SETTLE >= START
  <2>1. \A x, y, a, b, c \in Int : x <= y =>
            /\ x - a \in Int /\ y - a \in Int /\ x - a <= y - a /\ c - b \in Int
            /\ x - a - b \in Int /\ y - a - b \in Int /\ x - a - b <= y - a - b
            /\ x - a >= c => y - a >= c
    OBVIOUS
  <2>2. now <= m
    BY <1>2
  <2> QED
    BY <1>1, <1>2, <2>1, <2>2, Zenon
<1>4. s.watermark \in (START - OVERLAP)..(now - SETTLE - OVERLAP) =>
          s.watermark \in (START - OVERLAP)..(m - SETTLE - OVERLAP)
  BY <1>3, RangeGrows
<1>5. s.target \in START..(now - SETTLE) => s.target \in START..(m - SETTLE)
  BY <1>1, <1>3, RangeGrows
<1>6. /\ \/ s.watermark = START
         \/ m - SETTLE >= START /\ s.watermark \in (START - OVERLAP)..(m - SETTLE - OVERLAP)
      /\ s.target # None => s.target \in START..(m - SETTLE)
  BY <1>3, <1>4, <1>5, Zenon DEF Dated
<1> QED
  BY <1>2, <1>6, Zenon DEF Dated

\* A repository that comes into the index comes late in its pass: it lies behind the next
\* watermark.  One that was there is as old as it was and, unless it is updated between two
\* pages itself, no more are updated before it.
LEMMA WorldKeepsGood ==
    ASSUME TypeOK, Births, now' \in Time, now' >= now, torn \subseteq torn',
           NEW s, Good(s),
           \A r \in index' :
               \/ r \in torn'
               \/ r \notin index /\ born'[r] \in START..now /\ born'[r] >= now - LAG
               \/ /\ r \in index /\ born'[r] = born[r]
                  /\ \A i \in DOMAIN s.windows : s.windows[i].page > 1 =>
                         Hits(s.windows[i])' \cap earlier'[r]
                             \subseteq Hits(s.windows[i]) \cap earlier[r]
    PROVE  Good(s)'
<1>1. /\ START \in Nat /\ OVERLAP \in Nat /\ SETTLE \in Nat /\ LAG \in Nat
      /\ LAG <= SETTLE + OVERLAP /\ OVERLAP <= START /\ now \in Nat /\ now' \in Nat
  BY Numbers DEF TypeOK, Time
<1>2. s \in Checkpoint /\ Dated(s) /\ Loadable(s) /\ Covered(s)
  BY DEF Good
<1>3. s.watermark \in Nat /\ s.target \in Int /\ s.windows \in Seq(Window)
  <2>1. /\ s.watermark \in Time /\ s.target \in {None} \cup Time
        /\ s.windows \in Seq(Window)
    BY <1>2 DEF Checkpoint
  <2> QED
    BY <2>1, Numbers DEF Time, None
<1>4. Dated(s)'
  BY <1>1, <1>2, <1>3, DatesStayTrue
<1>5. Loadable(s)'
  BY <1>2 DEF Loadable
<1>6. Covered(s)'
  <2> SUFFICES ASSUME NEW q \in DOMAIN Queries, NEW r \in index', r \in Queries[q],
                      r \notin s.listed, r \notin torn'
               PROVE  /\ born'[r] >= s.watermark
                      /\ s.windows # <<>> /\ born'[r] < s.target - OVERLAP => Pending(s, q, r)'
    BY DEF Covered
  <2>1. CASE r \notin index
    <3>1. born'[r] \in START..now /\ born'[r] >= now - LAG
      BY <2>1
    <3>2. s.windows # <<>> => s.target \in START..(now - SETTLE)
      BY <1>2 DEF Loadable, Dated
    <3>3. born'[r] \in Int /\ born'[r] >= START /\ born'[r] >= now - SETTLE - OVERLAP
      BY <1>1, <3>1
    <3>4. born'[r] >= s.watermark
      BY <1>1, <1>2, <1>3, <3>3 DEF Dated
    <3>5. s.windows # <<>> => s.target - OVERLAP <= born'[r]
      BY <1>1, <1>3, <3>2, <3>3
    <3> QED
      BY <1>1, <1>3, <3>3, <3>4, <3>5
  <2>2. CASE r \in index
    <3>1. /\ born'[r] = born[r]
          /\ \A i \in DOMAIN s.windows : s.windows[i].page > 1 =>
                 Hits(s.windows[i])' \cap earlier'[r] \subseteq Hits(s.windows[i]) \cap earlier[r]
      BY <2>2
    <3>2. /\ born[r] >= s.watermark
          /\ s.windows # <<>> /\ born[r] < s.target - OVERLAP => Pending(s, q, r)
      BY <1>2, <2>2 DEF Covered
    <3>3. ASSUME Pending(s, q, r) PROVE Pending(s, q, r)'
      <4>1. PICK i \in DOMAIN s.windows :
                /\ s.windows[i].query_index = q
                /\ born[r] \in s.windows[i].start..s.windows[i].end /\ Unread(s.windows[i], r)
        BY <3>3 DEF Pending
      <4> DEFINE w == s.windows[i]
      <4>2. w \in Window
        BY <1>3, LenProperties
      <4> HIDE DEF w
      <4>3. ASSUME w.page > 1
            PROVE  Cardinality(Hits(w)' \cap earlier'[r]) + (w.page - 1) * PAGE < w.expected_total
        <5> DEFINE m == Cardinality(Hits(w) \cap earlier[r])
                   n == Cardinality(Hits(w)' \cap earlier'[r])
                   x == (w.page - 1) * PAGE
        <5>1. Hits(w)' \cap earlier'[r] \subseteq Hits(w) \cap earlier[r]
          BY <3>1, <4>3 DEF w
        <5>2. IsFiniteSet(Hits(w) \cap earlier[r]) /\ m \in Nat
          BY HitsAreCounted
        <5>3. n <= m /\ n \in Nat
          BY <5>1, <5>2, FS_Subset, FS_CardinalityType
        <5>4. m + x < w.expected_total
          BY <4>1, <4>3 DEF Unread, w
        <5>5. x \in Int /\ w.expected_total \in Int
          <6>1. w.page \in Int /\ w.expected_total \in {None} \cup 0..CAP
            BY <4>2, PagesOfCap DEF Window
          <6>2. PAGE \in Int /\ CAP \in Nat
            BY Numbers
          <6> QED
            BY <6>1, <6>2 DEF None
        <5> HIDE DEF m, n, x
        <5>6. n + x < w.expected_total
          BY <5>2, <5>3, <5>4, <5>5
        <5> QED
          BY <5>6 DEF n, x
      <4>4. Unread(w, r)'
        BY <4>3 DEF Unread
      <4> QED
        BY <3>1, <4>1, <4>4 DEF Pending, w
    <3> QED
      BY <3>1, <3>2, <3>3
  <2> QED
    BY <2>1, <2>2
<1> QED
  BY <1>2, <1>4, <1>5, <1>6 DEF Good

LEMMA WorldKeepsInvariant ==
    ASSUME IInv, TypeOK', Births', UNCHANGED source, now' >= now, torn \subseteq torn',
           \A s : s \in {state, saved} =>
               \A r \in index' :
                   \/ r \in torn'
                   \/ r \notin index /\ born'[r] \in START..now /\ born'[r] >= now - LAG
                   \/ /\ r \in index /\ born'[r] = born[r]
                      /\ \A i \in DOMAIN s.windows : s.windows[i].page > 1 =>
                             Hits(s.windows[i])' \cap earlier'[r]
                                 \subseteq Hits(s.windows[i]) \cap earlier[r]
    PROVE  IInv'
<1>1. state' = state /\ saved' = saved /\ TypeOK /\ Births /\ now' \in Time
  BY DEF source, IInv, TypeOK
<1>2. PICK s : s = state
  OBVIOUS
<1>3. Good(s)'
  BY <1>1, <1>2, WorldKeepsGood DEF IInv
<1>4. PICK t : t = saved
  OBVIOUS
<1>5. Good(t)'
  BY <1>1, <1>4, WorldKeepsGood DEF IInv
<1>6. Good(state)' /\ Good(saved)'
  <2>1. s = state' /\ t = saved'
    BY <1>1, <1>2, <1>4
  <2> QED
    BY <1>3, <1>5, <2>1 DEF Good, Dated, Loadable, Covered, Pending
<1> QED
  BY <1>6 DEF IInv

LEMMA TickKeepsInvariant ==
    ASSUME IInv, Tick
    PROVE  IInv'
<1>1. /\ now' = now + 1 /\ now < Horizon
      /\ UNCHANGED <<born, index, earlier, torn, touches, deletes, source>>
      /\ \A r \in Repos : born[r] \in 0..(now - LAG) => r \in index
  BY DEF Tick
<1>2. UNCHANGED <<state, saved, pc, pages, aborts>> /\ UNCHANGED source /\ TypeOK /\ Births
  BY <1>1 DEF source, IInv
<1>3. /\ now \in Nat /\ Horizon \in Nat /\ LAG \in Nat /\ START \in Nat /\ now' \in Time
      /\ now >= START
  BY <1>1, <1>2, Numbers DEF TypeOK, Time, Births
<1>4. TypeOK'
  BY <1>1, <1>2, <1>3 DEF TypeOK
<1>5. Births'
  <2>1. now' - 1 - LAG = now - LAG /\ now' >= START /\ \A x \in START..now : x \in START..now'
    BY <1>1, <1>3
  <2> QED
    BY <1>1, <1>2, <2>1 DEF Births
<1>6. \A w : Hits(w)' = Hits(w)
  BY <1>1 DEF Hits
<1>7. now' >= now
  BY <1>1, <1>3
<1> QED
  BY <1>1, <1>2, <1>4, <1>5, <1>6, <1>7, WorldKeepsInvariant

LEMMA CreateKeepsInvariant ==
    ASSUME IInv, NEW x \in Repos, Create(x)
    PROVE  IInv'
<1>1. /\ born[x] = Unborn /\ born' = [born EXCEPT ![x] = now]
      /\ UNCHANGED <<now, index, earlier, torn, touches, deletes, source>>
  BY DEF Create
<1>2. UNCHANGED <<state, saved, pc, pages, aborts>> /\ UNCHANGED source /\ TypeOK /\ Births
  BY <1>1 DEF source, IInv
<1>3. /\ now \in 0..Horizon /\ Horizon \in Nat /\ LAG \in Nat /\ START \in Nat /\ now >= START
  BY <1>2, Numbers DEF TypeOK, Time, Births
<1>4. /\ born' \in [Repos -> Time \cup {Unborn, None}] /\ born'[x] = now
      /\ \A r \in Repos : r # x => born'[r] = born[r]
  BY <1>1, <1>2, <1>3 DEF TypeOK, Time
<1>5. x \notin index
  <2>1. Unborn \notin START..now
    BY <1>3 DEF Unborn
  <2> QED
    BY <1>1, <1>2, <2>1 DEF Births
<1>6. index \subseteq Repos
  BY <1>2 DEF TypeOK
<1>7. TypeOK'
  BY <1>1, <1>2, <1>4 DEF TypeOK
<1>8. Births'
  <2>1. now \notin 0..(now - 1 - LAG) /\ now \in START..now
    BY <1>3
  <2> QED
    BY <1>1, <1>2, <1>4, <1>5, <1>6, <2>1 DEF Births
<1>9. \A w : Hits(w)' = Hits(w)
  BY <1>1, <1>4, <1>5, <1>6 DEF Hits
<1>10. now' >= now
  BY <1>1, <1>3
<1> QED
  BY <1>1, <1>2, <1>4, <1>5, <1>6, <1>7, <1>8, <1>9, <1>10, WorldKeepsInvariant

LEMMA IndexKeepsInvariant ==
    ASSUME IInv, NEW x \in Repos, Index(x)
    PROVE  IInv'
<1>1. /\ born[x] \in 0..now /\ x \notin index /\ index' = index \cup {x}
      /\ earlier' = [earlier EXCEPT ![x] = index]
      /\ UNCHANGED <<now, born, torn, touches, deletes, source>>
  BY DEF Index
<1>2. UNCHANGED <<state, saved, pc, pages, aborts>> /\ UNCHANGED source /\ TypeOK /\ Births
  BY <1>1 DEF source, IInv
<1>3. /\ now \in 0..Horizon /\ Horizon \in Nat /\ LAG \in Nat /\ START \in Nat
  BY <1>2, Numbers DEF TypeOK, Time
<1>4. /\ index \subseteq Repos /\ earlier \in [Repos -> SUBSET index]
      /\ \A r, q \in index : q \in earlier[r] <=> q # r /\ r \notin earlier[q]
  BY <1>2 DEF TypeOK
<1>5. /\ earlier' \in [Repos -> SUBSET index'] /\ earlier'[x] = index
      /\ \A r \in Repos : r # x => earlier'[r] = earlier[r]
  BY <1>1, <1>4
<1>6. \A r \in index : r # x /\ x \notin earlier[r]
  BY <1>1, <1>4
<1>7. TypeOK'
  <2>1. \A r, q \in index' : q \in earlier'[r] <=> q # r /\ r \notin earlier'[q]
    BY <1>1, <1>4, <1>5, <1>6
  <2> QED
    BY <1>1, <1>2, <1>4, <1>5, <2>1 DEF TypeOK
<1>8. born[x] \in START..now /\ born[x] >= now - LAG
  <2>1. born[x] \in START..now
    BY <1>1, <1>2, <1>3 DEF Births, Unborn, None
  <2>2. born[x] \notin 0..(now - 1 - LAG)
    BY <1>1, <1>2 DEF Births
  <2> QED
    BY <1>3, <2>1, <2>2
<1>9. Births'
  BY <1>1, <1>2, <1>8 DEF Births
<1>10. \A w : \A r \in index : Hits(w)' \cap earlier'[r] \subseteq Hits(w) \cap earlier[r]
  BY <1>1, <1>4, <1>5, <1>6 DEF Hits
<1>11. now' >= now
  BY <1>1, <1>3
<1> QED
  BY <1>1, <1>2, <1>7, <1>8, <1>9, <1>10, <1>11, WorldKeepsInvariant

LEMMA TouchKeepsInvariant ==
    ASSUME IInv, NEW x \in Repos, Touch(x)
    PROVE  IInv'
<1>1. /\ x \in index /\ touches < MaxTouches /\ touches' = touches + 1
      /\ earlier' = [q \in Repos |-> IF q = x THEN index \ {x} ELSE earlier[q] \ {x}]
      /\ torn' = IF BetweenPages THEN torn \cup {x} ELSE torn
      /\ UNCHANGED <<now, born, index, deletes, source>>
  BY DEF Touch
<1>2. UNCHANGED <<state, saved, pc, pages, aborts>> /\ UNCHANGED source /\ TypeOK /\ Births
  BY <1>1 DEF source, IInv
<1>3. touches' \in 0..MaxTouches /\ now \in Nat
  BY <1>1, <1>2, Numbers DEF TypeOK, Time
<1>4. /\ index \subseteq Repos /\ earlier \in [Repos -> SUBSET index]
      /\ \A r, q \in index : q \in earlier[r] <=> q # r /\ r \notin earlier[q]
      /\ torn \subseteq Repos
  BY <1>2 DEF TypeOK
<1>5. /\ earlier' \in [Repos -> SUBSET index'] /\ earlier'[x] = index \ {x}
      /\ \A r \in Repos : r # x => earlier'[r] = earlier[r] \ {x}
  BY <1>1, <1>4
<1>6. torn \subseteq torn' /\ torn' \subseteq Repos
  BY <1>1, <1>4
<1>7. TypeOK'
  <2>1. \A r, q \in index' : q \in earlier'[r] <=> q # r /\ r \notin earlier'[q]
    BY <1>1, <1>4, <1>5
  <2> QED
    BY <1>1, <1>2, <1>3, <1>5, <1>6, <2>1 DEF TypeOK
<1>8. Births'
  BY <1>1, <1>2 DEF Births
<1>9. \A w : \A r \in index : r # x => Hits(w)' \cap earlier'[r] \subseteq Hits(w) \cap earlier[r]
  BY <1>1, <1>4, <1>5 DEF Hits
<1>10. ASSUME NEW s, s \in {state, saved}, NEW r \in index'
       PROVE  \/ r \in torn'
              \/ /\ r \in index /\ born'[r] = born[r]
                 /\ \A i \in DOMAIN s.windows : s.windows[i].page > 1 =>
                        Hits(s.windows[i])' \cap earlier'[r]
                            \subseteq Hits(s.windows[i]) \cap earlier[r]
  <2>1. CASE r # x
    BY <1>1, <1>9, <2>1
  <2>2. CASE r = x /\ BetweenPages
    BY <1>1, <2>2
  <2>3. CASE r = x /\ ~BetweenPages
    <3>1. \A i \in DOMAIN s.windows : ~(s.windows[i].page > 1)
      BY <1>10, <2>3 DEF BetweenPages
    <3> QED
      BY <1>1, <2>3, <3>1
  <2> QED
    BY <2>1, <2>2, <2>3
<1>11. now' >= now
  BY <1>1, <1>3
<1> QED
  BY <1>1, <1>2, <1>6, <1>7, <1>8, <1>10, <1>11, WorldKeepsInvariant

LEMMA DeleteKeepsInvariant ==
    ASSUME IInv, NEW x \in Repos, Delete(x)
    PROVE  IInv'
<1>1. /\ x \in index /\ deletes < MaxDeletes /\ deletes' = deletes + 1 /\ index' = index \ {x}
      /\ earlier' = [q \in Repos |-> IF q = x THEN {} ELSE earlier[q] \ {x}]
      /\ born' = [born EXCEPT ![x] = None]
      /\ UNCHANGED <<now, torn, touches, source>>
  BY DEF Delete
<1>2. UNCHANGED <<state, saved, pc, pages, aborts>> /\ UNCHANGED source /\ TypeOK /\ Births
  BY <1>1 DEF source, IInv
<1>3. deletes' \in 0..MaxDeletes /\ now \in Nat
  BY <1>1, <1>2, Numbers DEF TypeOK, Time
<1>4. /\ index \subseteq Repos /\ earlier \in [Repos -> SUBSET index]
      /\ \A r, q \in index : q \in earlier[r] <=> q # r /\ r \notin earlier[q]
      /\ born \in [Repos -> Time \cup {Unborn, None}]
  BY <1>2 DEF TypeOK
<1>5. /\ earlier' \in [Repos -> SUBSET index']
      /\ \A r \in Repos : r # x => earlier'[r] = earlier[r] \ {x}
      /\ born' \in [Repos -> Time \cup {Unborn, None}] /\ born'[x] = None
      /\ \A r \in Repos : r # x => born'[r] = born[r]
  BY <1>1, <1>4
<1>6. TypeOK'
  <2>1. \A r, q \in index' : q \in earlier'[r] <=> q # r /\ r \notin earlier'[q]
    BY <1>1, <1>4, <1>5
  <2>2. index' \subseteq Repos
    BY <1>1, <1>4
  <2> QED
    BY <1>1, <1>2, <1>3, <1>5, <2>1, <2>2 DEF TypeOK
<1>7. Births'
  <2>1. None \notin 0..(now - 1 - LAG)
    BY <1>3, Numbers DEF None
  <2> QED
    BY <1>1, <1>2, <1>4, <1>5, <2>1 DEF Births
<1>8. \A w : \A r \in index' : Hits(w)' \cap earlier'[r] \subseteq Hits(w) \cap earlier[r]
  BY <1>1, <1>4, <1>5 DEF Hits
<1>9. \A r \in index' : r \in index /\ born'[r] = born[r]
  BY <1>1, <1>4, <1>5
<1>10. now' >= now
  BY <1>1, <1>3
<1> QED
  BY <1>1, <1>2, <1>6, <1>7, <1>8, <1>9, <1>10, WorldKeepsInvariant

(***************************************************************************)
(* The source.                                                             *)
(***************************************************************************)

LEMMA UnmovedIsGood ==
    ASSUME UNCHANGED world, NEW s, Good(s)
    PROVE  Good(s)'
<1>1. UNCHANGED <<now, born, index, earlier, torn>>
  BY DEF world
<1>2. \A w : Hits(w)' = Hits(w)
  BY <1>1 DEF Hits
<1>3. \A w, r : Unread(w, r)' <=> Unread(w, r)
  BY <1>1, <1>2 DEF Unread
<1>4. \A q, r : Pending(s, q, r)' <=> Pending(s, q, r)
  BY <1>1, <1>3 DEF Pending
<1> QED
  BY <1>1, <1>4 DEF Good, Dated, Loadable, Covered

LEMMA SourceKeepsInvariant ==
    ASSUME IInv, UNCHANGED world, Good(state'), saved' = saved \/ saved' = state,
           pc' \in {"idle", "search", "commit", "refused"}, pages' \in 0..MAX_PAGES,
           aborts' \in 0..MaxAborts
    PROVE  IInv'
<1>1. PICK t : t = state'
  OBVIOUS
<1>2. PICK u : u = saved'
  OBVIOUS
<1>3. Good(t) /\ Good(u)
  BY <1>1, <1>2 DEF IInv
<1>4. Good(t)' /\ Good(u)'
  BY <1>3, UnmovedIsGood
<1>5. Good(state)' /\ Good(saved)'
  BY <1>1, <1>2, <1>4 DEF Good, Dated, Loadable, Covered, Pending
<1>6. UNCHANGED <<now, born, index, earlier, torn, touches, deletes>>
  BY DEF world
<1>7. state' \in Checkpoint /\ saved' \in Checkpoint
  BY <1>1, <1>2, <1>3 DEF Good
<1>8. TypeOK' /\ Births'
  BY <1>6, <1>7 DEF IInv, TypeOK, Births
<1> QED
  BY <1>5, <1>8 DEF IInv

LEMMA PassKeepsInvariant ==
    ASSUME IInv, StartSearch
    PROVE  IInv'
<1>1. /\ pc' = "search" /\ pages' = 0 /\ UNCHANGED <<world, saved, aborts>>
      /\ TypeOK /\ Births /\ Good(state)
  BY DEF StartSearch, IInv
<1>2. Good(state')
  <2>1. CASE state.windows # <<>>
    BY <1>1, <2>1 DEF StartSearch
  <2>2. CASE state.windows = <<>>
    <3>1. PICK t : t = state'
      OBVIOUS
    <3>2. /\ state.watermark < now - SETTLE
          /\ t = [state EXCEPT
                    !.target = now - SETTLE,
                    !.windows = [q \in DOMAIN Queries |->
                        [start |-> state.watermark, end |-> now - SETTLE, page |-> 1,
                         query_index |-> q, expected_total |-> None]]]
      BY <2>2, <3>1 DEF StartSearch
    <3> QED
      BY <1>1, <2>2, <3>1, <3>2, PassKeepsGood
  <2> QED
    BY <2>1, <2>2
<1>3. pages' \in 0..MAX_PAGES /\ aborts' \in 0..MaxAborts
  BY <1>1, Numbers DEF TypeOK
<1> QED
  BY <1>1, <1>2, <1>3, SourceKeepsInvariant

\* What a request leaves: the world, the saved checkpoint and one page less of the budget.
LEMMA ResponseKeepsInvariant ==
    ASSUME IInv, Fetching, Failed \/ Fetched, Good(state')
    PROVE  IInv'
<1>1. /\ pages < MAX_PAGES /\ pages' = pages + 1 /\ UNCHANGED <<world, saved, aborts>>
      /\ pc' \in {"search", "commit"}
  BY DEF Fetching, Failed, Fetched
<1>2. pages \in 0..MAX_PAGES /\ aborts \in 0..MaxAborts /\ MAX_PAGES \in Nat
  BY Numbers DEF IInv, TypeOK
<1>3. pages' \in 0..MAX_PAGES /\ aborts' \in 0..MaxAborts
  BY <1>1, <1>2
<1> QED
  BY <1>1, <1>3, SourceKeepsInvariant

LEMMA SplitKeepsInvariant ==
    ASSUME IInv, NEW i, Split(i) \/ Blocked(i)
    PROVE  IInv'
<1>1. TypeOK /\ Good(state) /\ Fetching /\ state.windows # <<>> /\ (Failed \/ Fetched)
  BY DEF IInv, Split, Blocked, Fetching
<1>2. PICK t : t = state'
  OBVIOUS
<1>3. CASE Split(i)
  <2>1. CanSplit(window) /\ t = [state EXCEPT !.windows = Halves(window) \o Tail(@)]
    BY <1>2, <1>3 DEF Split
  <2> QED
    BY <1>1, <1>2, <2>1, SplitKeepsGood, ResponseKeepsInvariant
<1>4. CASE Blocked(i)
  BY <1>1, <1>4, ResponseKeepsInvariant DEF Blocked
<1> QED
  BY <1>3, <1>4

LEMMA TotalChangedKeepsInvariant ==
    ASSUME IInv, TotalChanged
    PROVE  IInv'
<1>1. TypeOK /\ Good(state) /\ Fetching /\ state.windows # <<>> /\ (Failed \/ Fetched)
  BY DEF IInv, TotalChanged, Usable, Fetching
<1>2. PICK t : t = state'
  OBVIOUS
<1>3. t = [state EXCEPT !.windows = Requeued([window EXCEPT !.page = 1, !.expected_total = None])]
  BY <1>2 DEF TotalChanged
<1>4. t = [state EXCEPT !.listed = @ \cup {},
              !.windows = Requeued([window EXCEPT !.page = 1, !.expected_total = None])]
  <2>1. state \in Checkpoint
    BY <1>1 DEF Good
  <2> DEFINE v == Requeued([window EXCEPT !.page = 1, !.expected_total = None])
  <2> HIDE DEF v
  <2>2. [state EXCEPT !.windows = v] = [state EXCEPT !.listed = @ \cup {}, !.windows = v]
    BY <2>1 DEF Checkpoint
  <2> QED
    BY <1>3, <2>2 DEF v
<1>5. 1 \in 1..(CAP \div PAGE)
  BY PagesOfCap
<1>6. Good(t)
  <2> DEFINE p == 1
             e == None
  <2>1. p \in 1..(CAP \div PAGE) /\ e \in {None} \cup 0..CAP /\ ~(p > 1) /\ {} \in SUBSET Repos
    BY <1>5
  <2>2. t = [state EXCEPT !.listed = @ \cup {},
                !.windows = Requeued([window EXCEPT !.page = p, !.expected_total = e])]
    BY <1>4
  <2> HIDE DEF p, e
  <2> QED
    BY <1>1, <2>1, <2>2, PageKeepsGood
<1> QED
  BY <1>1, <1>2, <1>6, ResponseKeepsInvariant

LEMMA ShortPageKeepsInvariant ==
    ASSUME IInv, ShortPage
    PROVE  IInv'
<1>1. TypeOK /\ Good(state) /\ Fetching /\ (Failed \/ Fetched)
  BY DEF IInv, ShortPage, Usable
<1>2. PICK some \in SUBSET PageOf(window) : state' = [state EXCEPT !.listed = @ \cup some]
  BY DEF ShortPage
<1>3. some \in SUBSET Repos
  BY <1>1 DEF PageOf, Hits, TypeOK
<1>4. PICK t : t = state'
  OBVIOUS
<1> QED
  BY <1>1, <1>2, <1>3, <1>4, ListingKeepsGood, ResponseKeepsInvariant

LEMMA NextPageKeepsInvariant ==
    ASSUME IInv, NextPage
    PROVE  IInv'
<1> DEFINE p == window.page + 1
<1>1. /\ TypeOK /\ Good(state) /\ Fetching /\ state.windows # <<>> /\ (Failed \/ Fetched)
      /\ ~Changed /\ window.page * PAGE < Total /\ Total <= CAP
  BY DEF IInv, NextPage, Usable, Fetching
<1>2. PICK t : t = state'
  OBVIOUS
<1>3. t = [state EXCEPT
               !.listed = @ \cup PageOf(window),
               !.windows = Requeued([window EXCEPT !.page = p, !.expected_total = Total])]
  BY <1>2 DEF NextPage
<1>4. Total \in 0..CAP
  <2>1. Total \in Nat
    BY <1>1, HitsAreCounted DEF Total
  <2> QED
    BY <1>1, <2>1, Numbers
<1>5. /\ window.page \in Nat \ {0} /\ PAGE \in Nat \ {0} /\ CAP \in Nat
      /\ window.page * PAGE \in Nat
  <2>1. window.page \in Nat \ {0} /\ PAGE \in Nat \ {0} /\ CAP \in Nat
    BY <1>1, FirstWindow, Numbers
  <2> QED
    BY <2>1
<1>6. p \in 1..(CAP \div PAGE) /\ (p - 1) * PAGE = window.page * PAGE
  <2>1. window.page * PAGE < CAP
    BY <1>1, <1>4, <1>5
  <2>2. window.page + 1 <= CAP \div PAGE
    BY <1>5, <2>1, PagesOfCap
  <2>3. p - 1 = window.page
    BY <1>5
  <2> QED
    BY <1>5, <2>2, <2>3, PagesOfCap
<1> HIDE DEF p
<1>7. PageOf(window) \in SUBSET Repos
  BY <1>1 DEF PageOf, Hits, TypeOK
<1>8. \A r \in Hits(window) : Unread(window, r) /\ r \notin PageOf(window) =>
          Cardinality(Hits(window) \cap earlier[r]) + (p - 1) * PAGE < Total
  BY <1>1, <1>6, PageShows
<1>9. Good(t)
  BY <1>1, <1>3, <1>4, <1>6, <1>7, <1>8, PageKeepsGood
<1> QED
  BY <1>1, <1>2, <1>9, ResponseKeepsInvariant

LEMMA LastPageKeepsInvariant ==
    ASSUME IInv, LastPage
    PROVE  IInv'
<1>1. /\ TypeOK /\ Good(state) /\ Fetching /\ state.windows # <<>> /\ (Failed \/ Fetched)
      /\ ~Changed /\ window.page * PAGE >= Total
  BY DEF IInv, LastPage, Usable, Fetching
<1>2. PICK t : t = state'
  OBVIOUS
<1>3. t = Advanced([state EXCEPT !.listed = @ \cup PageOf(window), !.windows = Tail(@)])
  BY <1>2 DEF LastPage
<1> QED
  BY <1>1, <1>2, <1>3, LastPageKeepsGood, ResponseKeepsInvariant

\* The end of the source, the commit, a cycle that is thrown away, and a new process.
LEMMA CycleEndKeepsInvariant ==
    ASSUME IInv, EndSearch \/ Commit \/ Abort \/ Restart
    PROVE  IInv'
<1>1. /\ UNCHANGED world /\ (state' = state \/ state' = saved)
      /\ (saved' = saved \/ saved' = state)
      /\ pc' \in {"idle", "search", "commit", "refused"}
  BY DEF EndSearch, Commit, Abort, Restart
<1>2. Good(state')
  BY <1>1 DEF IInv
<1>3. pages' \in 0..MAX_PAGES /\ aborts' \in 0..MaxAborts
  <2>1. /\ pages \in 0..MAX_PAGES /\ aborts \in 0..MaxAborts
        /\ MAX_PAGES \in Nat /\ MaxAborts \in Nat
    BY Numbers DEF IInv, TypeOK
  <2>2. /\ pages' = pages \/ pages' = 0
        /\ aborts' = aborts \/ (aborts < MaxAborts /\ aborts' = aborts + 1)
    BY DEF EndSearch, Commit, Abort, Restart
  <2> QED
    BY <2>1, <2>2
<1> QED
  BY <1>1, <1>2, <1>3, SourceKeepsInvariant

LEMMA StutterKeepsInvariant ==
    ASSUME IInv, UNCHANGED vars
    PROVE  IInv'
<1>1. UNCHANGED world /\ UNCHANGED <<state, saved, pc, pages, aborts>>
  BY DEF vars, source
<1>2. /\ pc' \in {"idle", "search", "commit", "refused"} /\ pages' \in 0..MAX_PAGES
      /\ aborts' \in 0..MaxAborts
  BY <1>1 DEF IInv, TypeOK
<1> QED
  BY <1>1, <1>2, SourceKeepsInvariant DEF IInv

LEMMA NextKeepsInvariant == IInv /\ [Next]_vars => IInv'
<1> SUFFICES ASSUME IInv, [Next]_vars PROVE IInv'
  OBVIOUS
<1>1. CASE Tick
  BY <1>1, TickKeepsInvariant
<1>2. CASE \E r \in Repos : Create(r)
  BY <1>2, CreateKeepsInvariant
<1>3. CASE \E r \in Repos : Index(r)
  BY <1>3, IndexKeepsInvariant
<1>4. CASE \E r \in Repos : Touch(r)
  BY <1>4, TouchKeepsInvariant
<1>5. CASE \E r \in Repos : Delete(r)
  BY <1>5, DeleteKeepsInvariant
<1>6. CASE StartSearch
  BY <1>6, PassKeepsInvariant
<1>7. CASE \E incomplete \in BOOLEAN : Split(incomplete) \/ Blocked(incomplete)
  BY <1>7, SplitKeepsInvariant
<1>8. CASE TotalChanged
  BY <1>8, TotalChangedKeepsInvariant
<1>9. CASE ShortPage
  BY <1>9, ShortPageKeepsInvariant
<1>10. CASE NextPage
  BY <1>10, NextPageKeepsInvariant
<1>11. CASE LastPage
  BY <1>11, LastPageKeepsInvariant
<1>12. CASE EndSearch \/ Commit \/ Abort \/ Restart
  BY <1>12, CycleEndKeepsInvariant
<1>13. CASE UNCHANGED vars
  BY <1>13, StutterKeepsInvariant
<1> QED
  BY <1>1, <1>2, <1>3, <1>4, <1>5, <1>6, <1>7, <1>8, <1>9, <1>10, <1>11, <1>12, <1>13
     DEF Next, GitHub, Response

LEMMA InvariantHoldsFirst == Init => IInv
<1> SUFFICES ASSUME Init PROVE IInv
  OBVIOUS
<1>1. /\ START \in Nat /\ OVERLAP \in Nat /\ SETTLE \in Nat /\ LAG \in Nat /\ Horizon \in Nat
      /\ START <= Horizon /\ MAX_PAGES \in Nat /\ Longest \in Nat
      /\ MaxTouches \in Nat /\ MaxDeletes \in Nat /\ MaxAborts \in Nat
  BY Numbers
<1>2. Start \in Checkpoint
  <2>1. START \in Time /\ <<>> \in Seq(Window)
    BY <1>1, EmptySeq DEF Time
  <2> QED
    BY <2>1 DEF Start, Checkpoint
<1>3. /\ Start.watermark = START /\ Start.target = None /\ Start.windows = <<>>
      /\ Start.listed = {}
  BY DEF Start
<1>4. Dated(Start) /\ Loadable(Start)
  BY <1>1, <1>3 DEF Dated, Loadable
<1>5. Covered(Start)
  BY <1>3 DEF Init, Covered
<1>6. TypeOK
  BY <1>1, <1>2 DEF Init, TypeOK, Time, Unborn, None
<1>7. Births
  BY <1>1 DEF Init, Births, Unborn, None
<1> QED
  BY <1>2, <1>4, <1>5, <1>6, <1>7 DEF Init, IInv, Good

(***************************************************************************)
(* The theorems.                                                           *)
(***************************************************************************)

\* The inductive invariant: both checkpoints, the running one and the saved one, account for
\* every repository of the index (engine.rs 450-565).
THEOREM SearchInvariant == Spec => []IInv
<1> QED
  BY InvariantHoldsFirst, NextKeepsInvariant, PTL DEF Spec

\* However the index lags, changes its order, loses repositories or answers short, and
\* wherever a cycle is cut off: the saved watermark passes no repository that was neither
\* listed nor itself updated between two pages (engine.rs 489-563).
THEOREM NoGapIsEverSilent == Spec => []NoSilentGap
<1>1. IInv => NoSilentGap
  <2> SUFFICES ASSUME IInv, NEW r \in index, born[r] < saved.watermark,
                      NEW q \in DOMAIN Queries, r \in Queries[q]
               PROVE  r \in saved.listed \cup torn
    BY DEF NoSilentGap
  <2> SUFFICES ASSUME r \notin saved.listed, r \notin torn PROVE FALSE
    OBVIOUS
  <2>1. born[r] >= saved.watermark
    BY DEF IInv, Good, Covered
  <2>2. born[r] \in START..now /\ saved.watermark \in Time
    BY DEF IInv, Births, Good, Checkpoint
  <2>3. born[r] \in Int /\ saved.watermark \in Int
    BY <2>2, Numbers DEF Time
  <2> QED
    BY <2>1, <2>3
<1> QED
  BY <1>1, SearchInvariant, PTL

(***************************************************************************)
(* The queue.                                                              *)
(***************************************************************************)

\* The window after i is for another query, or there is none.
LastOf(w, i) == i = Len(w) \/ w[i + 1].query_index # w[i].query_index

\* QueueTiles of n windows, its three facts for a proof.
TiledBy(w, n, from, to) ==
    /\ \A i \in 1..n : w[i].end = IF LastOf(w, i) THEN to ELSE w[i + 1].start
    /\ \A i \in 2..n : LastOf(w, i - 1) =>
           w[i].start = from /\ w[i].query_index = w[i - 1].query_index + 1
    /\ n > 0 => w[n].query_index = Len(Queries)

LEMMA TilesInParts ==
    ASSUME NEW s, NEW w, w = s.windows, w \in Seq(Window), NEW n, n = Len(w)
    PROVE  Tiles(s) <=> TiledBy(w, n, s.watermark, s.target)
<1>1. /\ n \in Nat /\ DOMAIN w = 1..n /\ (w # <<>> <=> n > 0)
  BY LenProperties, EmptySeq
<1>2. \A i \in 1..n : i > 1 <=> i \in 2..n
  BY <1>1
<1>3. \A i \in 2..n : i \in 1..n
  BY <1>1
<1>4. Tiles(s) <=>
        /\ \A i \in 1..n :
            /\ w[i].end = IF LastOf(w, i) THEN s.target ELSE w[i + 1].start
            /\ i > 1 /\ LastOf(w, i - 1) => /\ w[i].start = s.watermark
                                            /\ w[i].query_index = w[i - 1].query_index + 1
        /\ w # <<>> => Last(w).query_index = Len(Queries)
  BY <1>1, <1>2, Zenon DEF Tiles, LastOf
<1> QED
  BY <1>1, <1>2, <1>3, <1>4 DEF Last, TiledBy

\* A queue whose windows from the second on are those of a tiled queue from some place on.
LEMMA SplitKeepsTiles ==
    ASSUME TypeOK, Good(state), Tiles(state), state.windows # <<>>, CanSplit(window),
           NEW t, t = [state EXCEPT !.windows = Halves(window) \o Tail(@)]
    PROVE  Tiles(t)
<1> DEFINE ws == state.windows
           n == Len(ws)
<1>1. PICK a \in Window, b \in Window :
          /\ Halves(window) = <<a, b>>
          /\ a.start = window.start /\ a.end = b.start /\ b.end = window.end
          /\ a.start < a.end /\ b.start < b.end /\ a.page = 1 /\ b.page = 1
          /\ a.query_index = window.query_index /\ b.query_index = window.query_index
  BY HalvesAreWindows
<1> DEFINE v == <<a, b>> \o Tail(ws)
<1>2. state \in Checkpoint /\ ws \in Seq(Window) /\ n \in Nat \ {0}
  BY FirstWindow DEF Good, Checkpoint
<1>3. t = [state EXCEPT !.windows = v]
  BY <1>1
<1>4. /\ v \in Seq(Window) /\ Len(v) = n + 1 /\ v[1] = a /\ v[2] = b
      /\ \A i \in 3..n + 1 : v[i] = ws[i - 1]
  BY <1>2, QueueSplits
<1> HIDE DEF v
<1>5. t.windows = v /\ t.watermark = state.watermark /\ t.target = state.target
  BY <1>2, <1>3 DEF Checkpoint
<1> HIDE DEF ws
<1>6. /\ \A i \in 1..n : ws[i].end = IF LastOf(ws, i) THEN state.target ELSE ws[i + 1].start
      /\ \A i \in 2..n : LastOf(ws, i - 1) =>
             /\ ws[i].start = state.watermark
             /\ ws[i].query_index = ws[i - 1].query_index + 1
      /\ ws[n].query_index = Len(Queries)
  <2>1. ws \in Seq(Window)
    BY <1>2
  <2>2. TiledBy(ws, n, state.watermark, state.target)
    BY <2>1, TilesInParts DEF ws
  <2> QED
    BY <1>2, <2>2 DEF TiledBy
<1>7. window = ws[1]
  BY DEF window, ws
<1>8. ASSUME NEW i \in 2..n + 1
      PROVE  /\ i - 1 \in 1..n /\ (i - 1) + 1 = i
             /\ v[i].query_index = ws[i - 1].query_index /\ v[i].end = ws[i - 1].end
             /\ i # 2 => v[i] = ws[i - 1]
  <2>1. i - 1 \in 1..n /\ (i - 1) + 1 = i /\ (i = 2 \/ i \in 3..n + 1)
    BY <1>2
  <2>2. CASE i = 2
    <3>1. v[i] = b /\ ws[i - 1] = window
      BY <1>4, <1>7, <2>2
    <3> QED
      BY <1>1, <2>1, <2>2, <3>1
  <2>3. CASE i \in 3..n + 1
    BY <1>4, <2>1, <2>3
  <2> QED
    BY <2>1, <2>2, <2>3
<1>9. ~LastOf(v, 1) /\ v[1].end = v[2].start
  BY <1>1, <1>2, <1>4 DEF LastOf
<1>10. ASSUME NEW i \in 2..n + 1
       PROVE  /\ LastOf(v, i) <=> LastOf(ws, i - 1)
              /\ ~LastOf(v, i) => v[i + 1].start = ws[i].start
  <2>1. i = n + 1 <=> i - 1 = n
    BY <1>2
  <2>2. CASE i = n + 1
    BY <1>4, <2>1, <2>2 DEF LastOf
  <2>3. CASE i # n + 1
    <3>1. i + 1 \in 2..n + 1 /\ (i + 1) - 1 = i /\ i + 1 # 2
      BY <1>2, <2>3
    <3>2. v[i + 1] = ws[i] /\ v[i].query_index = ws[i - 1].query_index /\ (i - 1) + 1 = i
      BY <1>8, <3>1
    <3>3. i # Len(v) /\ i - 1 # Len(ws)
      BY <1>4, <2>1, <2>3
    <3> QED
      BY <3>2, <3>3 DEF LastOf
  <2> QED
    BY <2>2, <2>3
<1>11. \A i \in 1..n + 1 : v[i].end = IF LastOf(v, i) THEN t.target ELSE v[i + 1].start
  <2> SUFFICES ASSUME NEW i \in 1..n + 1
               PROVE  v[i].end = IF LastOf(v, i) THEN t.target ELSE v[i + 1].start
    OBVIOUS
  <2>1. CASE i = 1
    BY <1>9, <2>1
  <2>2. CASE i # 1
    <3>1. i \in 2..n + 1
      BY <1>2, <2>2
    <3>2. ws[i - 1].end = IF LastOf(ws, i - 1) THEN state.target ELSE ws[i].start
      BY <1>6, <1>8, <3>1
    <3> QED
      BY <1>5, <1>8, <1>10, <3>1, <3>2
  <2> QED
    BY <2>1, <2>2
<1>12. \A i \in 2..n + 1 : LastOf(v, i - 1) =>
           v[i].start = t.watermark /\ v[i].query_index = v[i - 1].query_index + 1
  <2> SUFFICES ASSUME NEW i \in 2..n + 1, LastOf(v, i - 1)
               PROVE  v[i].start = t.watermark /\ v[i].query_index = v[i - 1].query_index + 1
    OBVIOUS
  <2>1. i # 2
    BY <1>9
  <2>2. i - 1 \in 2..n + 1 /\ i - 1 \in 2..n /\ (i - 1) - 1 = i - 2
    BY <1>2, <2>1
  <2>3. LastOf(ws, i - 2) /\ v[i] = ws[i - 1] /\ v[i - 1].query_index = ws[i - 2].query_index
    BY <1>8, <1>10, <2>1, <2>2
  <2> QED
    BY <1>5, <1>6, <2>2, <2>3
<1>13. v[n + 1].query_index = Len(Queries)
  <2>1. n + 1 \in 2..n + 1 /\ (n + 1) - 1 = n
    BY <1>2
  <2> QED
    BY <1>6, <1>8, <2>1
<1>14. TiledBy(v, n + 1, t.watermark, t.target)
  BY <1>11, <1>12, <1>13, Zenon DEF TiledBy
<1> QED
  BY <1>4, <1>5, <1>14, TilesInParts

LEMMA RequeuedKeepsTiles ==
    ASSUME Good(state), Tiles(state), state.windows # <<>>, NEW L, NEW a \in Window,
           a.start = window.start, a.end = window.end, a.query_index = window.query_index,
           NEW t, t = [state EXCEPT !.listed = L, !.windows = Requeued(a)]
    PROVE  Tiles(t)
<1> DEFINE ws == state.windows
           v == [ws EXCEPT ![1] = a]
           n == Len(ws)
<1>1. state \in Checkpoint /\ ws \in Seq(Window) /\ n \in Nat \ {0}
  BY FirstWindow DEF Good, Checkpoint
<1>2. /\ v \in Seq(Window) /\ Len(v) = n /\ v[1] = a /\ \A i \in 2..n : v[i] = ws[i]
  BY <1>1, QueueFirstChanges
<1>3. t = [state EXCEPT !.listed = L, !.windows = v]
  BY DEF Requeued
<1> HIDE DEF v
<1>4. t.windows = v /\ t.watermark = state.watermark /\ t.target = state.target
  BY <1>1, <1>3 DEF Checkpoint
<1> HIDE DEF ws
<1>5. window = ws[1]
  BY DEF window, ws
<1>6. \A i \in 1..n : /\ v[i].start = ws[i].start /\ v[i].end = ws[i].end
                      /\ v[i].query_index = ws[i].query_index
  <2>1. \A i \in 1..n : i = 1 \/ i \in 2..n
    BY <1>1
  <2> QED
    BY <1>2, <1>5, <2>1
<1>7. \A i \in 1..n : LastOf(v, i) <=> LastOf(ws, i)
  <2>1. \A i \in 1..n : i = n \/ i + 1 \in 1..n
    BY <1>1
  <2> QED
    BY <1>2, <1>6, <2>1 DEF LastOf
<1>8. /\ \A i \in 1..n : ws[i].end = IF LastOf(ws, i) THEN state.target ELSE ws[i + 1].start
      /\ \A i \in 2..n : LastOf(ws, i - 1) =>
             /\ ws[i].start = state.watermark
             /\ ws[i].query_index = ws[i - 1].query_index + 1
      /\ ws[n].query_index = Len(Queries)
  <2>1. ws \in Seq(Window)
    BY <1>1
  <2>2. TiledBy(ws, n, state.watermark, state.target)
    BY <2>1, TilesInParts DEF ws
  <2> QED
    BY <1>1, <2>2 DEF TiledBy
<1>9. \A i \in 1..n : v[i].end = IF LastOf(v, i) THEN t.target ELSE v[i + 1].start
  <2> SUFFICES ASSUME NEW i \in 1..n
               PROVE  v[i].end = IF LastOf(v, i) THEN t.target ELSE v[i + 1].start
    OBVIOUS
  <2>1. CASE LastOf(v, i)
    BY <1>4, <1>6, <1>7, <1>8, <2>1
  <2>2. CASE ~LastOf(v, i)
    <3>1. i + 1 \in 1..n
      BY <1>1, <1>2, <2>2 DEF LastOf
    <3> QED
      BY <1>6, <1>7, <1>8, <2>2, <3>1
  <2> QED
    BY <2>1, <2>2
<1>10. \A i \in 2..n : LastOf(v, i - 1) =>
           v[i].start = t.watermark /\ v[i].query_index = v[i - 1].query_index + 1
  <2>1. \A i \in 2..n : i \in 1..n /\ i - 1 \in 1..n
    BY <1>1
  <2> QED
    BY <1>4, <1>6, <1>7, <1>8, <2>1
<1>11. v[n].query_index = Len(Queries)
  BY <1>1, <1>6, <1>8
<1>12. TiledBy(v, n, t.watermark, t.target)
  BY <1>9, <1>10, <1>11, Zenon DEF TiledBy
<1> QED
  BY <1>2, <1>4, <1>12, TilesInParts

LEMMA TailKeepsTiles ==
    ASSUME Good(state), Tiles(state), state.windows # <<>>, NEW L,
           NEW t, t = Advanced([state EXCEPT !.listed = L, !.windows = Tail(@)])
    PROVE  Tiles(t)
<1> DEFINE ws == state.windows
           v == Tail(ws)
           n == Len(ws)
           u == [state EXCEPT !.listed = L, !.windows = v]
<1>1. state \in Checkpoint /\ ws \in Seq(Window) /\ n \in Nat \ {0} /\ t = Advanced(u)
  BY FirstWindow DEF Good, Checkpoint
<1>2. v \in Seq(Window) /\ Len(v) = n - 1 /\ \A i \in 1..(n - 1) : v[i] = ws[i + 1]
  BY <1>1, QueueParts
<1> HIDE DEF v
<1>3. u.windows = v /\ u.watermark = state.watermark /\ u.target = state.target
  BY <1>1 DEF Checkpoint
<1>4. t.windows = v
  BY <1>1, <1>3 DEF Advanced, Checkpoint
<1> HIDE DEF u, ws
<1>5. CASE v = <<>>
  <2>1. Len(v) = 0 /\ \A i \in 1..0 : FALSE
    BY <1>2, <1>5, EmptySeq
  <2>2. TiledBy(v, 0, t.watermark, t.target)
    BY <2>1 DEF TiledBy
  <2> QED
    BY <1>2, <1>4, <2>1, <2>2, TilesInParts
<1>6. CASE v # <<>>
  <2>1. t = u
    BY <1>1, <1>3, <1>6 DEF Advanced
  <2>2. /\ \A i \in 1..n : ws[i].end = IF LastOf(ws, i) THEN state.target ELSE ws[i + 1].start
        /\ \A i \in 2..n : LastOf(ws, i - 1) =>
               /\ ws[i].start = state.watermark
               /\ ws[i].query_index = ws[i - 1].query_index + 1
        /\ ws[n].query_index = Len(Queries)
    <3>1. ws \in Seq(Window)
      BY <1>1
    <3>2. TiledBy(ws, n, state.watermark, state.target)
      BY <3>1, TilesInParts DEF ws
    <3> QED
      BY <1>1, <3>2 DEF TiledBy
  <2>3. ASSUME NEW i \in 1..(n - 1)
        PROVE  /\ i + 1 \in 1..n /\ i + 1 \in 2..n /\ (i + 1) - 1 = i
               /\ LastOf(v, i) <=> LastOf(ws, i + 1)
               /\ ~LastOf(v, i) => v[i + 1] = ws[(i + 1) + 1]
    <3>1. i + 1 \in 1..n /\ i + 1 \in 2..n /\ (i + 1) - 1 = i /\ (i = n - 1 <=> i + 1 = n)
      BY <1>1
    <3>2. CASE i = n - 1
      BY <1>2, <3>1, <3>2 DEF LastOf
    <3>3. CASE i # n - 1
      <4>1. i + 1 \in 1..(n - 1)
        BY <1>1, <3>3
      <4>2. v[i + 1] = ws[(i + 1) + 1] /\ v[i] = ws[i + 1]
        BY <1>2, <4>1
      <4>3. i # Len(v) /\ i + 1 # n
        BY <1>2, <3>1, <3>3
      <4> QED
        BY <3>1, <4>2, <4>3, Zenon DEF LastOf
    <3> QED
      BY <3>1, <3>2, <3>3, Zenon
  <2>4. \A i \in 1..(n - 1) : v[i].end = IF LastOf(v, i) THEN t.target ELSE v[i + 1].start
    <3> SUFFICES ASSUME NEW i \in 1..(n - 1)
                 PROVE  v[i].end = IF LastOf(v, i) THEN t.target ELSE v[i + 1].start
      OBVIOUS
    <3>1. v[i] = ws[i + 1] /\ i + 1 \in 1..n
      BY <1>2, <2>3
    <3>2. ws[i + 1].end = IF LastOf(ws, i + 1) THEN state.target ELSE ws[(i + 1) + 1].start
      BY <2>2, <3>1
    <3> QED
      BY <1>3, <2>1, <2>3, <3>1, <3>2
  <2>5. \A i \in 2..(n - 1) : LastOf(v, i - 1) =>
            v[i].start = t.watermark /\ v[i].query_index = v[i - 1].query_index + 1
    <3> SUFFICES ASSUME NEW i \in 2..(n - 1), LastOf(v, i - 1)
                 PROVE  v[i].start = t.watermark /\ v[i].query_index = v[i - 1].query_index + 1
      OBVIOUS
    <3>1. i \in 1..(n - 1) /\ i - 1 \in 1..(n - 1) /\ (i - 1) + 1 = i /\ i + 1 \in 2..n
      BY <1>1
    <3>2. LastOf(ws, i) /\ v[i] = ws[i + 1] /\ v[i - 1] = ws[i]
      <4>1. LastOf(ws, (i - 1) + 1) /\ v[i - 1] = ws[(i - 1) + 1]
        BY <1>2, <2>3, <3>1
      <4> QED
        BY <1>2, <3>1, <4>1
    <3>3. (i + 1) - 1 = i
      BY <1>1
    <3> QED
      BY <1>3, <2>1, <2>2, <3>1, <3>2, <3>3
  <2>6. v[n - 1].query_index = Len(Queries)
    <3>1. n - 1 \in 1..(n - 1) /\ (n - 1) + 1 = n
      BY <1>1, <1>2, <1>6, EmptySeq
    <3> QED
      BY <1>2, <2>2, <3>1
  <2>7. TiledBy(v, n - 1, t.watermark, t.target)
    BY <2>4, <2>5, <2>6, Zenon DEF TiledBy
  <2> QED
    BY <1>2, <1>4, <2>7, TilesInParts
<1> QED
  BY <1>5, <1>6

\* A pass starts with one window per query, from the watermark to the target.
LEMMA PassTiles ==
    ASSUME IInv, StartSearch, state.windows = <<>>, NEW t, t = state'
    PROVE  Tiles(t)
<1> DEFINE m == Len(Queries)
           e == now - SETTLE
           v == [q \in DOMAIN Queries |->
                    [start |-> state.watermark, end |-> e, page |-> 1,
                     query_index |-> q, expected_total |-> None]]
<1>1. t = [state EXCEPT !.target = e, !.windows = v]
  BY DEF StartSearch
<1>2. state \in Checkpoint /\ m \in Nat \ {0} /\ DOMAIN Queries = 1..m
  <2>1. Queries \in Seq(SUBSET Repos) /\ Queries # <<>>
    BY Numbers
  <2> QED
    BY <2>1, LenProperties, EmptySeq DEF IInv, Good
<1>3. IInv'
  BY PassKeepsInvariant
<1>4. t \in Checkpoint
  BY <1>3 DEF IInv, Good
<1>5. \A q \in 1..m : /\ v[q].start = state.watermark /\ v[q].end = e
                      /\ v[q].query_index = q
  BY <1>2
<1>6. DOMAIN v = 1..m
  BY <1>2
<1> HIDE DEF v
<1>7. t.windows = v /\ t.watermark = state.watermark /\ t.target = e
  BY <1>1, <1>2 DEF Checkpoint
<1>8. v \in Seq(Window)
  BY <1>4, <1>7 DEF Checkpoint
<1>9. Len(v) = m
  <2> HIDE DEF m
  <2>1. 1..Len(v) = 1..m /\ Len(v) \in Nat
    BY <1>6, <1>8, LenProperties
  <2>2. m \in 1..Len(v)
    BY <1>2, <2>1
  <2>3. Len(v) \in 1..Len(v)
    BY <2>1, <2>2
  <2>4. Len(v) \in 1..m
    BY <2>1, <2>3
  <2> QED
    BY <1>2, <2>1, <2>2, <2>4
<1>10. \A i \in 1..m : LastOf(v, i)
  <2> SUFFICES ASSUME NEW i \in 1..m PROVE LastOf(v, i)
    OBVIOUS
  <2>1. CASE i = m
    BY <1>9, <2>1 DEF LastOf
  <2>2. CASE i # m
    <3>1. i + 1 \in 1..m /\ i + 1 # i
      BY <1>2, <2>2
    <3>2. v[i].query_index = i /\ v[i + 1].query_index = i + 1
      BY <1>5, <3>1
    <3> QED
      BY <3>1, <3>2 DEF LastOf
  <2> QED
    BY <2>1, <2>2
<1> HIDE DEF e
<1>11. \A i \in 1..m : v[i].end = IF LastOf(v, i) THEN t.target ELSE v[i + 1].start
  BY <1>5, <1>7, <1>10
<1>12. \A i \in 2..m : LastOf(v, i - 1) =>
           v[i].start = t.watermark /\ v[i].query_index = v[i - 1].query_index + 1
  <2>1. \A i \in 2..m : i \in 1..m /\ i - 1 \in 1..m /\ i = (i - 1) + 1
    BY <1>2
  <2> QED
    BY <1>5, <1>7, <2>1
<1>13. v[m].query_index = Len(Queries)
  BY <1>2, <1>5
<1>14. TiledBy(v, m, t.watermark, t.target)
  BY <1>11, <1>12, <1>13, Zenon DEF TiledBy
<1> QED
  BY <1>7, <1>8, <1>9, <1>14, TilesInParts

\* Both checkpoints are tiled: a cycle that is thrown away goes back to the saved one.
TInv == IInv /\ Tiles(state) /\ Tiles(saved)

\* What a response can make of the queue: the first window is split, changed in place or done.
LEMMA ResponseMoves ==
    ASSUME IInv, Response, NEW t, t = state'
    PROVE  /\ Good(state) /\ state.windows # <<>>
           /\ \/ /\ CanSplit(window)
                 /\ t = [state EXCEPT !.windows = Halves(window) \o Tail(@)]
              \/ /\ t.windows = state.windows /\ t.watermark = state.watermark
                 /\ t.target = state.target
              \/ \E L : \E a \in Window :
                     /\ a.start = window.start /\ a.end = window.end
                     /\ a.query_index = window.query_index
                     /\ t = [state EXCEPT !.listed = L, !.windows = Requeued(a)]
              \/ \E L : t = Advanced([state EXCEPT !.listed = L, !.windows = Tail(@)])
<1>1. /\ Good(state) /\ state.windows # <<>> /\ window \in Window
  BY FirstWindow DEF IInv, Response, Split, Blocked, TotalChanged, ShortPage, NextPage,
                     LastPage, Usable, Fetching
<1>2. state \in Checkpoint
  BY <1>1 DEF Good
<1>3. CASE \E i \in BOOLEAN : Split(i) \/ Blocked(i)
  BY <1>1, <1>3 DEF Split, Blocked
<1>4. CASE TotalChanged
  <2> DEFINE a == [window EXCEPT !.page = 1, !.expected_total = None]
             L == state.listed
  <2>1. a \in Window /\ a.start = window.start /\ a.end = window.end
        /\ a.query_index = window.query_index
    <3>1. 1 \in 1..(CAP \div PAGE) /\ None \in {None} \cup 0..CAP
      BY PagesOfCap
    <3> QED
      BY <1>1, <3>1 DEF Window
  <2>2. t = [state EXCEPT !.windows = Requeued(a)]
    BY <1>4 DEF TotalChanged
  <2> HIDE DEF a
  <2>3. t = [state EXCEPT !.listed = L, !.windows = Requeued(a)]
    BY <1>2, <2>2 DEF Checkpoint
  <2> HIDE DEF L
  <2>4. \E K : \E b \in Window :
           /\ b.start = window.start /\ b.end = window.end
           /\ b.query_index = window.query_index
           /\ t = [state EXCEPT !.listed = K, !.windows = Requeued(b)]
    BY <2>1, <2>3
  <2> QED
    BY <1>1, <2>4
<1>5. CASE ShortPage
  <2>1. PICK some : t = [state EXCEPT !.listed = @ \cup some]
    BY <1>5 DEF ShortPage
  <2> QED
    BY <1>1, <1>2, <2>1 DEF Checkpoint
<1>6. CASE NextPage
  <2> DEFINE a == [window EXCEPT !.page = @ + 1, !.expected_total = Total]
             L == state.listed \cup PageOf(window)
  <2>1. a.start = window.start /\ a.end = window.end /\ a.query_index = window.query_index
    BY <1>1 DEF Window
  <2>2. t = [state EXCEPT !.listed = L, !.windows = Requeued(a)]
    BY <1>6 DEF NextPage
  <2> HIDE DEF a, L
  <2>3. t.windows = [state.windows EXCEPT ![1] = a]
    BY <1>2, <2>2 DEF Checkpoint, Requeued
  <2>4. a \in Window
    <3>1. IInv'
      BY <1>6, NextPageKeepsInvariant
    <3>2. t.windows \in Seq(Window)
      BY <3>1 DEF IInv, Good, Checkpoint
    <3>3. state.windows \in Seq(Window)
      BY <1>2 DEF Checkpoint
    <3> DEFINE u == t.windows
               w == state.windows
    <3>4. u = [w EXCEPT ![1] = a] /\ u \in Seq(Window) /\ w \in Seq(Window) /\ w # <<>>
      BY <1>1, <2>3, <3>2, <3>3
    <3> HIDE DEF u, w
    <3>5. 1 \in 1..Len(w) /\ DOMAIN w = 1..Len(w)
      BY <3>4, QueueParts
    <3>6. u[1] = a /\ 1 \in DOMAIN u
      BY <3>4, <3>5
    <3>7. u[1] \in Window
      BY <3>4, <3>6, LenProperties, ElementOfSeq
    <3> QED
      BY <3>6, <3>7, Zenon
  <2>5. \E K : \E b \in Window :
           /\ b.start = window.start /\ b.end = window.end
           /\ b.query_index = window.query_index
           /\ t = [state EXCEPT !.listed = K, !.windows = Requeued(b)]
    BY <2>1, <2>2, <2>4
  <2> QED
    BY <1>1, <2>5
<1>7. CASE LastPage
  BY <1>1, <1>7 DEF LastPage
<1> QED
  BY <1>3, <1>4, <1>5, <1>6, <1>7 DEF Response

\* A step starts a pass, takes a response, or leaves each checkpoint as one of the two was.
LEMMA StepsOfTheQueue ==
    ASSUME [Next]_vars
    PROVE  \/ StartSearch /\ state.windows = <<>> /\ saved' = saved
           \/ Response /\ saved' = saved
           \/ state' \in {state, saved} /\ saved' \in {state, saved}
<1>1. CASE GitHub \/ UNCHANGED vars
  BY <1>1 DEF GitHub, Tick, Create, Index, Touch, Delete, vars, source
<1>2. CASE StartSearch
  BY <1>2 DEF StartSearch
<1>3. CASE Response
  BY <1>3 DEF Response, Split, Blocked, TotalChanged, ShortPage, NextPage, LastPage, Failed, Fetched
<1>4. CASE EndSearch \/ Commit \/ Abort \/ Restart
  BY <1>4 DEF EndSearch, Commit, Abort, Restart
<1> QED
  BY <1>1, <1>2, <1>3, <1>4 DEF Next

LEMMA ResponseKeepsTiles ==
    ASSUME TInv, Response, NEW t, t = state'
    PROVE  Tiles(t)
<1>1. TypeOK /\ IInv /\ Tiles(state)
  BY DEF TInv, IInv
<1>2. Good(state) /\ state.windows # <<>>
  BY <1>1, ResponseMoves
<1>3. CASE CanSplit(window) /\ t = [state EXCEPT !.windows = Halves(window) \o Tail(@)]
  BY <1>1, <1>2, <1>3, SplitKeepsTiles
<1>4. CASE /\ t.windows = state.windows /\ t.watermark = state.watermark
           /\ t.target = state.target
  BY <1>1, <1>4 DEF Tiles
<1>5. CASE \E L : \E a \in Window :
             /\ a.start = window.start /\ a.end = window.end
             /\ a.query_index = window.query_index
             /\ t = [state EXCEPT !.listed = L, !.windows = Requeued(a)]
  BY <1>1, <1>2, <1>5, RequeuedKeepsTiles
<1>6. CASE \E L : t = Advanced([state EXCEPT !.listed = L, !.windows = Tail(@)])
  BY <1>1, <1>2, <1>6, TailKeepsTiles
<1> QED
  BY <1>1, <1>3, <1>4, <1>5, <1>6, ResponseMoves

LEMMA NextKeepsTiles == TInv /\ [Next]_vars => TInv'
<1> SUFFICES ASSUME TInv, [Next]_vars PROVE TInv'
  OBVIOUS
<1>1. IInv /\ IInv' /\ Tiles(state) /\ Tiles(saved)
  BY NextKeepsInvariant DEF TInv
<1>2. PICK t : t = state'
  OBVIOUS
<1>3. PICK u : u = saved'
  OBVIOUS
<1>4. Tiles(t) /\ Tiles(u)
  <2>1. CASE StartSearch /\ state.windows = <<>> /\ saved' = saved
    BY <1>1, <1>2, <1>3, <2>1, PassTiles
  <2>2. CASE Response /\ saved' = saved
    BY <1>1, <1>2, <1>3, <2>2, ResponseKeepsTiles
  <2>3. CASE state' \in {state, saved} /\ saved' \in {state, saved}
    BY <1>1, <1>2, <1>3, <2>3
  <2> QED
    BY <2>1, <2>2, <2>3, StepsOfTheQueue
<1>5. Tiles(state)' /\ Tiles(saved)'
  BY <1>2, <1>3, <1>4 DEF Tiles
<1> QED
  BY <1>1, <1>5 DEF TInv

LEMMA TilesHoldFirst == Init => TInv
<1> SUFFICES ASSUME Init PROVE TInv
  OBVIOUS
<1>1. state = Start /\ saved = Start /\ Start.windows = <<>>
  BY DEF Init, Start
<1>2. Tiles(Start)
  <2>1. DOMAIN <<>> = {}
    OBVIOUS
  <2> QED
    BY <1>1, <2>1 DEF Tiles
<1> QED
  BY <1>1, <1>2, InvariantHoldsFirst DEF TInv

\* However the windows are split, started again, finished, saved and taken up by a later
\* cycle, they leave no second out between the watermark and the target (engine.rs 450-565).
THEOREM QueueAlwaysTiles == Spec => []QueueTiles
<1>1. TInv => QueueTiles
  BY DEF TInv, QueueTiles
<1> QED
  BY <1>1, TilesHoldFirst, NextKeepsTiles, PTL DEF Spec

(***************************************************************************)
(* The depth of the queue.                                                 *)
(***************************************************************************)

LEMMA PowerCounts ==
    ASSUME NEW n \in Nat
    PROVE  /\ IsFiniteSet(1..n) /\ Cardinality(1..n) = n
           /\ IsFiniteSet(SUBSET (1..n)) /\ Cardinality(SUBSET (1..n)) = 2^n
<1>1. 1 \in Int /\ n \in Int
  OBVIOUS
<1>2. IsFiniteSet(1..n) /\ Cardinality(1..n) = IF 1 > n THEN 0 ELSE n - 1 + 1
  BY <1>1, FS_Interval
<1>3. Cardinality(1..n) = n
  BY <1>2
<1>4. IsFiniteSet(SUBSET (1..n)) /\ Cardinality(SUBSET (1..n)) = 2^Cardinality(1..n)
  BY <1>2, FS_SUBSET
<1> QED
  BY <1>2, <1>3, <1>4

\* A set with one more element has twice as many subsets.
LEMMA PowersDouble ==
    ASSUME NEW n \in Nat
    PROVE  2^n \in Nat /\ 2^(n + 1) = 2 * 2^n
<1>1. PICK x : x = n + 1
  OBVIOUS
<1> DEFINE A == SUBSET (1..n)
           B == {T \cup {x} : T \in A}
           f == [T \in A |-> T \cup {x}]
<1>2. 1..(n + 1) = (1..n) \cup {x} /\ x \notin 1..n /\ n + 1 \in Nat
  BY <1>1
<1>3. SUBSET ((1..n) \cup {x}) = A \cup B
  <2> SUFFICES ASSUME NEW T
               PROVE  T \in SUBSET ((1..n) \cup {x}) <=> T \in A \/ T \in B
    OBVIOUS
  <2>1. ASSUME T \in SUBSET ((1..n) \cup {x}), x \in T
        PROVE  T \in B
    <3>1. T \ {x} \in A /\ T = (T \ {x}) \cup {x}
      BY <2>1
    <3> QED
      BY <3>1
  <2>2. ASSUME T \in SUBSET ((1..n) \cup {x}), x \notin T
        PROVE  T \in A
    BY <2>2
  <2>3. T \in A \/ T \in B => T \in SUBSET ((1..n) \cup {x})
    OBVIOUS
  <2> QED
    BY <2>1, <2>2, <2>3
<1>4. A \cap B = {}
  BY <1>2
<1>5. f \in Bijection(A, B)
  <2>1. f \in [A -> B] /\ \A V \in B : \E T \in A : f[T] = V
    OBVIOUS
  <2>2. \A T, U \in A : f[T] = f[U] => T = U
    <3> SUFFICES ASSUME NEW T \in A, NEW U \in A, T \cup {x} = U \cup {x} PROVE T = U
      OBVIOUS
    <3>1. T = (T \cup {x}) \ {x} /\ U = (U \cup {x}) \ {x}
      BY <1>2
    <3> QED
      BY <3>1
  <2> HIDE DEF f, A, B
  <2>3. f \in Injection(A, B) /\ f \in Surjection(A, B)
    BY <2>1, <2>2 DEF Injection, IsInjective, Surjection
  <2> QED
    BY <2>3 DEF Bijection
<1> HIDE DEF A, B, f
<1>6. PICK p : p = 2^n
  OBVIOUS
<1>7. IsFiniteSet(A) /\ Cardinality(A) = p
  BY <1>6, PowerCounts DEF A
<1>8. IsFiniteSet(B) /\ Cardinality(B) = p
  BY <1>5, <1>7, FS_Bijection DEF ExistsBijection
<1>9. p \in Nat /\ Cardinality({}) = 0
  BY <1>7, FS_CardinalityType, FS_EmptySet
<1>10. Cardinality(A \cup B) = Cardinality(A) + Cardinality(B) - Cardinality(A \cap B)
  BY <1>7, <1>8, FS_Union
<1>11. Cardinality(A \cup B) = 2 * p
  <2>1. Cardinality(A \cap B) = 0
    BY <1>4, <1>9, Zenon
  <2>2. Cardinality(A \cup B) = p + p - 0
    BY <1>7, <1>8, <1>10, <2>1, Zenon
  <2> QED
    BY <1>9, <2>2
<1>12. Cardinality(SUBSET (1..(n + 1))) = 2^(n + 1)
  BY <1>2, PowerCounts
<1>13. SUBSET (1..(n + 1)) = A \cup B
  BY <1>2, <1>3
<1> QED
  BY <1>6, <1>9, <1>11, <1>12, <1>13, Zenon

\* The query of window i of n: those of later queries, one each, are at the end.
QueryAt(q, i, n) == IF i + Len(Queries) - n > q THEN i + Len(Queries) - n ELSE q

\* The windows of the first query double what they cover: each is at least as long as all
\* that is left before it, of which it was the second half.
ShapedBy(w, n, from, to) ==
    \A i \in 1..n :
        /\ from <= w[i].start /\ w[i].end <= to
        /\ w[i].query_index = QueryAt(w[1].query_index, i, n)
        /\ i > 1 /\ w[i].query_index = w[1].query_index =>
               2 * (w[i - 1].end - w[1].start) <= w[i].end - w[1].start
Shaped(s) == ShapedBy(s.windows, Len(s.windows), s.watermark, s.target)

LEMMA WindowNumbers ==
    ASSUME NEW w \in Seq(Window), NEW i \in 1..Len(w)
    PROVE  /\ w[i].start \in Int /\ w[i].end \in Int
           /\ w[i].query_index \in 1..Len(Queries) /\ Len(Queries) \in Nat \ {0}
<1>1. w[i] \in Window
  BY LenProperties, ElementOfSeq
<1>2. Len(Queries) \in Nat \ {0} /\ DOMAIN Queries = 1..Len(Queries)
  BY Numbers, LenProperties, EmptySeq
<1>3. w[i].start \in Time /\ w[i].end \in Time /\ w[i].query_index \in DOMAIN Queries
  BY <1>1 DEF Window
<1> QED
  BY <1>2, <1>3, Numbers DEF Time

LEMMA SplitKeepsShape ==
    ASSUME Good(state), Shaped(state), state.windows # <<>>, CanSplit(window),
           NEW t, t = [state EXCEPT !.windows = Halves(window) \o Tail(@)]
    PROVE  Shaped(t)
<1> DEFINE ws == state.windows
           n == Len(ws)
           q == ws[1].query_index
<1>1. PICK a \in Window, b \in Window :
          /\ Halves(window) = <<a, b>>
          /\ a.start = window.start /\ a.end = b.start /\ b.end = window.end
          /\ a.start < a.end /\ b.start < b.end
          /\ a.query_index = window.query_index /\ b.query_index = window.query_index
          /\ 2 * (a.end - a.start) <= b.end - a.start
  BY HalvesAreWindows
<1> DEFINE v == <<a, b>> \o Tail(ws)
<1>2. state \in Checkpoint /\ ws \in Seq(Window) /\ n \in Nat \ {0}
  BY FirstWindow DEF Good, Checkpoint
<1>3. t = [state EXCEPT !.windows = v]
  BY <1>1
<1>4. /\ v \in Seq(Window) /\ Len(v) = n + 1 /\ v[1] = a /\ v[2] = b
      /\ \A i \in 3..n + 1 : v[i] = ws[i - 1]
  BY <1>2, QueueSplits
<1> HIDE DEF v
<1>5. t.windows = v /\ t.watermark = state.watermark /\ t.target = state.target
  BY <1>2, <1>3 DEF Checkpoint
<1>6. state.watermark \in Int /\ state.target \in Int
  BY <1>2, Numbers DEF Checkpoint, Time, None
<1>7. /\ a.start \in Int /\ a.end \in Int /\ b.start \in Int /\ b.end \in Int
  BY Numbers DEF Window, Time
<1>8. window = ws[1]
  BY DEF window
<1>9. ShapedBy(ws, n, state.watermark, state.target)
  BY DEF Shaped
<1> HIDE DEF ws, n, q
<1>10. \A i \in 1..n : /\ ws[i].start \in Int /\ ws[i].end \in Int
                       /\ ws[i].query_index \in 1..Len(Queries)
  BY <1>2, WindowNumbers DEF n
<1>11. q \in Int /\ Len(Queries) \in Nat \ {0} /\ 1 \in 1..n
  BY <1>2, WindowNumbers DEF n, q
<1>12. v[1].query_index = q
  BY <1>1, <1>4, <1>8 DEF q
<1>13. v[1].start = ws[1].start
  BY <1>1, <1>4, <1>8
<1>14. /\ state.watermark <= ws[1].start /\ ws[1].end <= state.target
       /\ q = QueryAt(q, 1, n)
  BY <1>9, <1>11 DEF ShapedBy, q
<1>15. ASSUME NEW i \in 1..n + 1
       PROVE  /\ state.watermark <= v[i].start /\ v[i].end <= state.target
              /\ v[i].query_index = QueryAt(q, i, n + 1)
              /\ i > 1 /\ v[i].query_index = q =>
                     2 * (v[i - 1].end - v[1].start) <= v[i].end - v[1].start
  <2>1. CASE i = 1
    <3>1. q = QueryAt(q, 1, n + 1)
      BY <1>2, <1>11, <1>14 DEF QueryAt
    <3>2. v[1].start = ws[1].start /\ v[1].end = a.end /\ a.end <= ws[1].end
      BY <1>1, <1>4, <1>7, <1>8
    <3>3. ws[1].start \in Int /\ ws[1].end \in Int
      BY <1>10, <1>11
    <3> QED
      BY <1>6, <1>7, <1>12, <1>14, <2>1, <3>1, <3>2, <3>3
  <2>2. CASE i = 2
    <3>1. q = QueryAt(q, 2, n + 1)
      BY <1>2, <1>11, <1>14 DEF QueryAt
    <3>2. /\ v[2].query_index = q /\ v[2].start = a.end /\ v[2].end = ws[1].end
          /\ 2 * (v[1].end - v[1].start) <= v[2].end - v[1].start
      BY <1>1, <1>4, <1>8 DEF q
    <3>3. ws[1].start \in Int /\ ws[1].start <= a.end
      BY <1>1, <1>7, <1>8, <1>10, <1>11
    <3> QED
      BY <1>6, <1>7, <1>14, <2>2, <3>1, <3>2, <3>3
  <2>3. CASE i \in 3..n + 1
    <3>1. PICK j : j = i - 1
      OBVIOUS
    <3>2. j \in 1..n /\ j > 1 /\ v[i] = ws[j] /\ i - 1 = j
      BY <1>2, <1>4, <2>3, <3>1
    <3>3. /\ state.watermark <= ws[j].start /\ ws[j].end <= state.target
          /\ ws[j].query_index = QueryAt(q, j, n)
          /\ ws[j].query_index = q =>
                 2 * (ws[j - 1].end - ws[1].start) <= ws[j].end - ws[1].start
      BY <1>9, <3>2 DEF ShapedBy, q
    <3>4. v[j].end = ws[j - 1].end
      <4>1. CASE j = 2
        BY <1>1, <1>4, <1>8, <4>1
      <4>2. CASE j # 2
        <5>1. j \in 3..n + 1
          BY <1>2, <3>2, <4>2
        <5> QED
          BY <1>4, <5>1
      <4> QED
        BY <4>1, <4>2
    <3>5. QueryAt(q, j, n) = QueryAt(q, i, n + 1)
      BY <1>2, <1>11, <3>1 DEF QueryAt
    <3> QED
      BY <1>13, <3>2, <3>3, <3>4, <3>5
  <2> QED
    BY <1>2, <2>1, <2>2, <2>3
<1>16. ShapedBy(v, n + 1, state.watermark, state.target)
  BY <1>12, <1>15, Zenon DEF ShapedBy
<1> QED
  BY <1>4, <1>5, <1>16 DEF Shaped

LEMMA RequeuedKeepsShape ==
    ASSUME Good(state), Shaped(state), state.windows # <<>>, NEW L, NEW a \in Window,
           a.start = window.start, a.end = window.end, a.query_index = window.query_index,
           NEW t, t = [state EXCEPT !.listed = L, !.windows = Requeued(a)]
    PROVE  Shaped(t)
<1> DEFINE ws == state.windows
           v == [ws EXCEPT ![1] = a]
           n == Len(ws)
<1>1. state \in Checkpoint /\ ws \in Seq(Window) /\ n \in Nat \ {0}
  BY FirstWindow DEF Good, Checkpoint
<1>2. /\ v \in Seq(Window) /\ Len(v) = n /\ v[1] = a /\ \A i \in 2..n : v[i] = ws[i]
  BY <1>1, QueueFirstChanges
<1>3. t = [state EXCEPT !.listed = L, !.windows = v]
  BY DEF Requeued
<1> HIDE DEF v
<1>4. t.windows = v /\ t.watermark = state.watermark /\ t.target = state.target
  BY <1>1, <1>3 DEF Checkpoint
<1>5. ShapedBy(ws, n, state.watermark, state.target) /\ window = ws[1]
  BY DEF Shaped, window
<1> HIDE DEF ws, n
<1>6. \A i \in 1..n : /\ v[i].start = ws[i].start /\ v[i].end = ws[i].end
                      /\ v[i].query_index = ws[i].query_index
  <2>1. \A i \in 1..n : i = 1 \/ i \in 2..n
    BY <1>1
  <2> QED
    BY <1>2, <1>5, <2>1
<1>7. 1 \in 1..n /\ \A i \in 1..n : i > 1 => i - 1 \in 1..n
  BY <1>1
<1>8. ShapedBy(v, n, state.watermark, state.target)
  <2> SUFFICES ASSUME NEW i \in 1..n
               PROVE  /\ state.watermark <= v[i].start /\ v[i].end <= state.target
                      /\ v[i].query_index = QueryAt(v[1].query_index, i, n)
                      /\ i > 1 /\ v[i].query_index = v[1].query_index =>
                             2 * (v[i - 1].end - v[1].start) <= v[i].end - v[1].start
    BY DEF ShapedBy
  <2> QED
    BY <1>5, <1>6, <1>7 DEF ShapedBy
<1> QED
  BY <1>2, <1>4, <1>8 DEF Shaped

LEMMA TailKeepsShape ==
    ASSUME Good(state), Tiles(state), Shaped(state), state.windows # <<>>, NEW L,
           NEW t, t = Advanced([state EXCEPT !.listed = L, !.windows = Tail(@)])
    PROVE  Shaped(t)
<1> DEFINE ws == state.windows
           v == Tail(ws)
           n == Len(ws)
           u == [state EXCEPT !.listed = L, !.windows = v]
           q == ws[1].query_index
<1>1. state \in Checkpoint /\ ws \in Seq(Window) /\ n \in Nat \ {0} /\ t = Advanced(u)
  BY FirstWindow DEF Good, Checkpoint
<1>2. v \in Seq(Window) /\ Len(v) = n - 1 /\ \A i \in 1..(n - 1) : v[i] = ws[i + 1]
  BY <1>1, QueueParts
<1> HIDE DEF v
<1>3. u.windows = v /\ u.watermark = state.watermark /\ u.target = state.target
  BY <1>1 DEF Checkpoint
<1>4. t.windows = v
  BY <1>1, <1>3 DEF Advanced, Checkpoint
<1> HIDE DEF u
<1>5. ShapedBy(ws, n, state.watermark, state.target)
  BY DEF Shaped
<1>6. window = ws[1] /\ window.start < window.end
  BY FirstWindow DEF window
<1>7. \A i \in 1..n : ws[i].end = IF LastOf(ws, i) THEN state.target ELSE ws[i + 1].start
  <2>1. ws \in Seq(Window)
    BY <1>1
  <2>2. TiledBy(ws, n, state.watermark, state.target)
    BY <2>1, TilesInParts
  <2> QED
    BY <1>1, <2>2 DEF TiledBy
<1> HIDE DEF ws, n, q
<1>8. CASE v = <<>>
  <2>1. Len(v) = 0 /\ \A i \in 1..0 : FALSE
    BY <1>8, EmptySeq
  <2> QED
    BY <1>4, <2>1 DEF Shaped, ShapedBy
<1>9. CASE v # <<>>
  <2>1. t.watermark = state.watermark /\ t.target = state.target
    BY <1>1, <1>3, <1>9 DEF Advanced
  <2>2. n - 1 \in Nat \ {0} /\ 1 \in 1..n /\ 2 \in 1..n /\ 1 \in 1..(n - 1)
    BY <1>1, <1>2, <1>9, EmptySeq
  <2>3. \A i \in 1..n : /\ ws[i].start \in Int /\ ws[i].end \in Int
                        /\ ws[i].query_index \in 1..Len(Queries)
    BY <1>1, WindowNumbers DEF n
  <2>4. q \in Int /\ Len(Queries) \in Nat \ {0}
    BY <1>1, <2>2, WindowNumbers DEF n, q
  <2>5. v[1] = ws[2] /\ ws[2].query_index = QueryAt(q, 2, n)
    BY <1>2, <1>5, <2>2 DEF ShapedBy, q
  <2>6. ASSUME NEW i \in 1..(n - 1)
        PROVE  /\ state.watermark <= v[i].start /\ v[i].end <= state.target
               /\ v[i].query_index = QueryAt(v[1].query_index, i, n - 1)
               /\ i > 1 /\ v[i].query_index = v[1].query_index =>
                      2 * (v[i - 1].end - v[1].start) <= v[i].end - v[1].start
    <3>1. PICK j : j = i + 1
      OBVIOUS
    <3>2. j \in 1..n /\ j > 1 /\ j - 1 = i /\ v[i] = ws[j]
      BY <1>1, <1>2, <3>1
    <3>3. /\ state.watermark <= ws[j].start /\ ws[j].end <= state.target
          /\ ws[j].query_index = QueryAt(q, j, n)
          /\ ws[j].query_index = q =>
                 2 * (ws[i].end - ws[1].start) <= ws[j].end - ws[1].start
      BY <1>5, <3>2 DEF ShapedBy, q
    <3>4. QueryAt(q, j, n) = QueryAt(QueryAt(q, 2, n), i, n - 1)
      BY <1>1, <2>4, <3>1 DEF QueryAt
    <3>5. ASSUME i > 1, ws[j].query_index = ws[2].query_index
          PROVE  2 * (v[i - 1].end - v[1].start) <= v[i].end - v[1].start
      <4>1. QueryAt(q, j, n) = q /\ QueryAt(q, 2, n) = q
        BY <1>1, <2>4, <2>5, <3>1, <3>3, <3>5 DEF QueryAt
      <4>2. n # 1 /\ ws[2].query_index = ws[1].query_index
        BY <2>2, <2>5, <4>1 DEF q
      <4>3. ws[1].end = ws[2].start
        BY <1>7, <2>2, <4>2 DEF LastOf, n
      <4>4. v[i - 1] = ws[i]
        <5>1. PICK k : k = i - 1
          OBVIOUS
        <5>2. k \in 1..(n - 1) /\ k + 1 = i
          BY <1>1, <3>5, <5>1
        <5> QED
          BY <1>2, <5>1, <5>2
      <4>5. i \in 1..n
        BY <1>1
      <4>6. 2 * (ws[i].end - ws[1].start) <= ws[j].end - ws[1].start
        BY <3>3, <4>1
      <4>7. 2 * (ws[i].end - ws[2].start) <= ws[j].end - ws[2].start
        <5>1. /\ ws[i].end \in Int /\ ws[j].end \in Int /\ ws[1].start \in Int
              /\ ws[2].start \in Int /\ ws[1].start < ws[2].start
          BY <1>6, <2>2, <2>3, <3>2, <4>3, <4>5
        <5> QED
          BY <4>6, <5>1
      <4> QED
        BY <2>5, <3>2, <4>4, <4>7
    <3> QED
      BY <2>5, <3>2, <3>3, <3>4, <3>5
  <2>7. ShapedBy(v, n - 1, state.watermark, state.target)
    BY <2>6, Zenon DEF ShapedBy
  <2> QED
    BY <1>2, <1>4, <2>1, <2>7 DEF Shaped
<1> QED
  BY <1>8, <1>9

LEMMA PassIsShaped ==
    ASSUME IInv, StartSearch, state.windows = <<>>, NEW t, t = state'
    PROVE  Shaped(t)
<1> DEFINE m == Len(Queries)
           e == now - SETTLE
           v == [i \in DOMAIN Queries |->
                    [start |-> state.watermark, end |-> e, page |-> 1,
                     query_index |-> i, expected_total |-> None]]
<1>1. t = [state EXCEPT !.target = e, !.windows = v] /\ state.watermark < e
  BY DEF StartSearch
<1>2. state \in Checkpoint /\ m \in Nat \ {0} /\ DOMAIN Queries = 1..m
  <2>1. Queries \in Seq(SUBSET Repos) /\ Queries # <<>>
    BY Numbers
  <2> QED
    BY <2>1, LenProperties, EmptySeq DEF IInv, Good
<1>3. \A i \in 1..m : v[i].start = state.watermark /\ v[i].end = e /\ v[i].query_index = i
  BY <1>2
<1>4. Len(v) = m
  BY <1>2
<1> HIDE DEF v
<1>5. t.windows = v /\ t.watermark = state.watermark /\ t.target = e
  BY <1>1, <1>2 DEF Checkpoint
<1>6. state.watermark \in Int /\ e \in Int
  <2>1. now \in Time /\ state.watermark \in Time
    BY <1>2 DEF IInv, TypeOK, Checkpoint
  <2> QED
    BY <2>1, Numbers DEF Time
<1> HIDE DEF m, e
<1>7. 1 \in 1..m /\ v[1].query_index = 1
  BY <1>2, <1>3
<1>8. \A i \in 1..m : QueryAt(1, i, m) = i /\ (i = 1 \/ i # 1)
  BY <1>2 DEF QueryAt, m
<1>9. ShapedBy(v, m, state.watermark, e)
  <2> SUFFICES ASSUME NEW i \in 1..m
               PROVE  /\ state.watermark <= v[i].start /\ v[i].end <= e
                      /\ v[i].query_index = QueryAt(v[1].query_index, i, m)
                      /\ i > 1 /\ v[i].query_index = v[1].query_index =>
                             2 * (v[i - 1].end - v[1].start) <= v[i].end - v[1].start
    BY DEF ShapedBy
  <2>1. v[i].query_index = i /\ v[i].start = state.watermark /\ v[i].end = e
    BY <1>3
  <2>2. ~(i > 1 /\ i = 1)
    OBVIOUS
  <2> QED
    BY <1>6, <1>7, <1>8, <2>1, <2>2
<1> QED
  BY <1>4, <1>5, <1>9 DEF Shaped

SInv == TInv /\ Shaped(state) /\ Shaped(saved)

LEMMA ResponseKeepsShape ==
    ASSUME TInv, Shaped(state), Response, NEW t, t = state'
    PROVE  Shaped(t)
<1>1. IInv /\ Tiles(state)
  BY DEF TInv
<1>2. Good(state) /\ state.windows # <<>>
  BY <1>1, ResponseMoves
<1>3. CASE CanSplit(window) /\ t = [state EXCEPT !.windows = Halves(window) \o Tail(@)]
  BY <1>2, <1>3, SplitKeepsShape
<1>4. CASE /\ t.windows = state.windows /\ t.watermark = state.watermark
           /\ t.target = state.target
  BY <1>4 DEF Shaped
<1>5. CASE \E L : \E a \in Window :
             /\ a.start = window.start /\ a.end = window.end
             /\ a.query_index = window.query_index
             /\ t = [state EXCEPT !.listed = L, !.windows = Requeued(a)]
  BY <1>2, <1>5, RequeuedKeepsShape
<1>6. CASE \E L : t = Advanced([state EXCEPT !.listed = L, !.windows = Tail(@)])
  BY <1>1, <1>2, <1>6, TailKeepsShape
<1> QED
  BY <1>1, <1>3, <1>4, <1>5, <1>6, ResponseMoves

LEMMA NextKeepsShape == SInv /\ [Next]_vars => SInv'
<1> SUFFICES ASSUME SInv, [Next]_vars PROVE SInv'
  OBVIOUS
<1>1. /\ TInv /\ TInv' /\ IInv /\ Tiles(state) /\ Shaped(state) /\ Shaped(saved)
  BY NextKeepsTiles DEF SInv, TInv
<1>2. PICK t : t = state'
  OBVIOUS
<1>3. PICK u : u = saved'
  OBVIOUS
<1>4. Shaped(t) /\ Shaped(u)
  <2>1. CASE StartSearch /\ state.windows = <<>> /\ saved' = saved
    BY <1>1, <1>2, <1>3, <2>1, PassIsShaped
  <2>2. CASE Response /\ saved' = saved
    BY <1>1, <1>2, <1>3, <2>2, ResponseKeepsShape
  <2>3. CASE state' \in {state, saved} /\ saved' \in {state, saved}
    BY <1>1, <1>2, <1>3, <2>3
  <2> QED
    BY <2>1, <2>2, <2>3, StepsOfTheQueue
<1>5. Shaped(state)' /\ Shaped(saved)'
  BY <1>2, <1>3, <1>4 DEF Shaped
<1> QED
  BY <1>1, <1>5 DEF SInv

LEMMA ShapeHoldsFirst == Init => SInv
<1> SUFFICES ASSUME Init PROVE SInv
  OBVIOUS
<1>1. state = Start /\ saved = Start /\ Start.windows = <<>>
  BY DEF Init, Start
<1>2. Len(<<>>) = 0 /\ \A i \in 1..0 : FALSE
  OBVIOUS
<1>3. Shaped(Start)
  BY <1>1, <1>2 DEF Shaped, ShapedBy
<1> QED
  BY <1>1, <1>3, TilesHoldFirst DEF SInv

LEMMA LeastElement ==
    ASSUME NEW S, S \subseteq Nat, S # {}
    PROVE  \E i \in S : \A j \in S : i <= j
<1>1. PICK i \in S : \A j \in S : ~ (<<j, i>> \in OpToRel(<, Nat))
  BY NatLessThanWellFounded, WFMin
<1>2. ASSUME NEW j \in S PROVE i <= j
  <2>1. ~(j < i)
    BY <1>1 DEF OpToRel
  <2> QED
    BY <2>1
<1> QED
  BY <1>2

\* Window i of the first query ends at least 2^(i - 1) after the start of the queue: a first
\* exception would have to be less than twice the one before it.
LEMMA WindowsGrow ==
    ASSUME NEW w \in Seq(Window), NEW n, n = Len(w), NEW from, NEW to, ShapedBy(w, n, from, to),
           NEW k \in 1..n, w[1].start < w[1].end,
           \A i \in 1..k : w[i].query_index = w[1].query_index
    PROVE  2^(k - 1) \in Nat /\ 2^(k - 1) <= w[k].end - w[1].start
<1>1. n \in Nat /\ 1 \in 1..n /\ k \in Nat \ {0} /\ k <= n
  BY LenProperties
<1>2. \A i \in 1..k : i \in 1..n
  BY <1>1
<1>3. \A i \in 1..n : w[i].start \in Int /\ w[i].end \in Int
  BY WindowNumbers
<1> DEFINE Short(i) == ~(2^(i - 1) <= w[i].end - w[1].start)
           S == {i \in 1..k : Short(i)}
<1>4. S = {}
  <2> SUFFICES ASSUME S # {} PROVE FALSE
    OBVIOUS
  <2>1. S \subseteq Nat
    BY <1>1
  <2>2. PICK i \in S : \A j \in S : i <= j
    BY <2>1, LeastElement
  <2>3. i \in 1..k /\ i \in 1..n /\ Short(i)
    BY <1>2
  <2>4. CASE i = 1
    <3>1. 2^(1 - 1) = 1
      <4>1. 1 - 1 = 0 /\ 2^0 = 1
        OBVIOUS
      <4> QED
        BY <4>1
    <3>2. ~(1 <= w[1].end - w[1].start)
      BY <2>3, <2>4, <3>1
    <3> QED
      BY <1>1, <1>3, <3>2
  <2>5. CASE i # 1
    <3>1. PICK j : j = i - 1
      OBVIOUS
    <3>2. j \in 1..k /\ j \in 1..n /\ j < i /\ i > 1 /\ j \in Nat /\ i = (j - 1) + 1 + 1
          /\ j - 1 \in Nat
      BY <1>1, <2>3, <2>5, <3>1
    <3>3. j \notin S
      BY <2>2, <2>3, <3>2
    <3>4. 2^(j - 1) <= w[j].end - w[1].start
      BY <3>2, <3>3
    <3>5. 2 * (w[j].end - w[1].start) <= w[i].end - w[1].start
      BY <2>3, <3>1, <3>2 DEF ShapedBy
    <3>6. PICK p : p = 2^(j - 1)
      OBVIOUS
    <3>7. p \in Nat /\ 2^(i - 1) = 2 * p
      <4>1. 2^(j - 1) \in Nat /\ 2^((j - 1) + 1) = 2 * 2^(j - 1)
        BY <3>2, PowersDouble
      <4>2. i - 1 = (j - 1) + 1
        BY <3>2
      <4> QED
        BY <3>6, <4>1, <4>2
    <3>8. w[i].end - w[1].start \in Int /\ w[j].end - w[1].start \in Int
      <4>1. w[i].end \in Int /\ w[j].end \in Int /\ w[1].start \in Int
        BY <1>1, <1>3, <2>3, <3>2, Zenon
      <4>2. \A x, y \in Int : x - y \in Int
        OBVIOUS
      <4> QED
        BY <4>1, <4>2, Zenon
    <3>9. \A x, y \in Int : p <= y /\ 2 * y <= x => 2 * p <= x
      BY <3>7
    <3>10. 2 * p <= w[i].end - w[1].start
      BY <3>4, <3>5, <3>6, <3>8, <3>9, Zenon
    <3> QED
      BY <2>3, <3>7, <3>10, Zenon
  <2> QED
    BY <2>4, <2>5
<1>5. k \in 1..k /\ k - 1 \in Nat
  BY <1>1
<1>6. ~Short(k)
  BY <1>4, <1>5
<1> QED
  BY <1>5, <1>6, PowersDouble

\* If the configuration fits, what the source leaves is what validate_state accepts.
LEMMA FittingLoads ==
    ASSUME NEW s, Good(s), Fits
    PROVE  Loads(s)
<1>1. Len(Queries) <= MAX_WINDOWS /\ TooLong = {}
  BY DEF Fits
<1>2. Len(Queries) \in Nat /\ MAX_WINDOWS \in Nat
  BY SearchAssumption, LenProperties
<1>3. Longest = MAX_WINDOWS
  BY <1>1, <1>2 DEF Longest
<1> QED
  BY <1>1, <1>3 DEF Loads, Good, Loadable

\* The source never spoils its own checkpoint: with any configuration of which a pass can
\* begin within the limits of validate_state, every start finds a checkpoint it accepts, and
\* with any other the windows saved are at most those a pass begins with, none empty.  The
\* queue exceeds one window per query by no more than the logarithm of the pass
\* (engine.rs 68-82, 499-532, 646-673).
THEOREM CheckpointAlwaysLoads == Spec => []CheckpointLoads
<1> DEFINE Accepted == Fits => pc # "refused"
<1>1. Init => Accepted
  BY DEF Init
<1>2. SInv /\ Accepted /\ [Next]_vars => Accepted'
  <2> SUFFICES ASSUME SInv, Accepted, [Next]_vars, Fits PROVE pc' # "refused"
    BY DEF Fits
  <2>1. CASE Restart
    BY <2>1, FittingLoads DEF Restart, SInv, TInv, IInv
  <2>2. CASE ~Restart
    BY <2>2 DEF Next, GitHub, Tick, Create, Index, Touch, Delete, StartSearch, Response, Split,
                Blocked, TotalChanged, ShortPage, NextPage, LastPage, Failed, Fetched,
                EndSearch, Commit, Abort, vars, source
  <2> QED
    BY <2>1, <2>2
<1>3. SInv /\ Accepted => CheckpointLoads
  <2> SUFFICES ASSUME SInv, Accepted PROVE CheckpointLoads
    OBVIOUS
  <2> DEFINE w == state.windows
             n == Len(w)
             K == Len(Queries)
  <2>1. /\ TypeOK /\ Good(state) /\ Good(saved) /\ w \in Seq(Window)
        /\ ShapedBy(w, n, state.watermark, state.target)
    BY DEF SInv, TInv, IInv, Shaped, Good, Checkpoint
  <2>2. QueueIsShallow
    <3> SUFFICES ASSUME n - K > 0
                 PROVE  2^(n - K - 1) < state.target - state.watermark
      BY DEF QueueIsShallow
    <3>1. K \in Nat \ {0} /\ n \in Nat
      BY <2>1, Numbers, LenProperties, EmptySeq
    <3>2. PICK d : d = n - K - 1
      OBVIOUS
    <3>3. PICK k : k = n - K + 1
      OBVIOUS
    <3>4. d \in Nat /\ k \in 1..n /\ k - 1 = d + 1 /\ 1 \in 1..n /\ w # <<>>
      BY <3>1, <3>2, <3>3, EmptySeq
    <3>5. w[1].start < w[1].end
      BY <2>1, <3>4, LenProperties DEF Good, Loadable
    <3> HIDE DEF w, n, K
    <3>6. /\ w[1].query_index \in Int /\ w[1].query_index >= 1
          /\ w[1].start \in Int /\ w[k].end \in Int
      BY <2>1, <3>4, WindowNumbers DEF n
    <3>7. \A i \in 1..k : w[i].query_index = w[1].query_index
      <4> SUFFICES ASSUME NEW i \in 1..k PROVE w[i].query_index = w[1].query_index
        OBVIOUS
      <4>1. i \in 1..n /\ i + K - n <= 1
        BY <3>1, <3>3, <3>4
      <4>2. w[i].query_index = QueryAt(w[1].query_index, i, n)
        BY <2>1, <4>1 DEF ShapedBy
      <4> QED
        BY <3>1, <3>6, <4>1, <4>2 DEF QueryAt, K
    <3>8. 2^(k - 1) <= w[k].end - w[1].start
      BY <2>1, <3>4, <3>5, <3>7, WindowsGrow DEF n
    <3>9. PICK p : p = 2^d
      OBVIOUS
    <3>10. p \in Nat /\ p > 0 /\ 2^(k - 1) = 2 * p
      <4>1. 2^d \in Nat /\ 2^(d + 1) = 2 * 2^d
        BY <3>4, PowersDouble
      <4>2. {} \in SUBSET (1..d) /\ IsFiniteSet(SUBSET (1..d)) /\ Cardinality(SUBSET (1..d)) = p
        BY <3>4, <3>9, PowerCounts
      <4>3. p # 0
        BY <4>2, FS_EmptySet
      <4> QED
        BY <3>4, <3>9, <4>1, <4>3
    <3>11. /\ state.watermark <= w[1].start /\ w[k].end <= state.target
      BY <2>1, <3>4 DEF ShapedBy
    <3>12. state.watermark \in Int /\ state.target \in Int
      BY <2>1, Numbers DEF Good, Checkpoint, Time, None
    <3>13. p < state.target - state.watermark
      BY <3>6, <3>8, <3>10, <3>11, <3>12
    <3> QED
      BY <3>2, <3>9, <3>13
  <2>3. Fits => Loads(saved) /\ pc # "refused"
    BY <2>1, FittingLoads
  <2>4. Len(saved.windows) <= MAX_WINDOWS \/ Len(saved.windows) <= Len(Queries)
    BY <2>1 DEF Good, Loadable, Longest
  <2> QED
    BY <2>1, <2>2, <2>3, <2>4 DEF CheckpointLoads, Good, Loadable
<1> QED
  BY <1>1, <1>2, <1>3, ShapeHoldsFirst, NextKeepsShape, PTL DEF Spec

=============================================================================
