--------------------------- MODULE WatchlistProofs --------------------------
(***************************************************************************)
(* Theorems about Watchlist, for any number of repositories, any budget    *)
(* and any faults of theirs.                                               *)
(***************************************************************************)
EXTENDS Watchlist, TLAPS, FiniteSetTheorems

(***************************************************************************)
(* The inductive invariant.                                                *)
(***************************************************************************)

\* TypeOK without the order of the work: which rows a cycle has still to refresh does not
\* matter here, only how they are.
Typed ==
    /\ site \in [Ids -> {"public"} \cup Faults]
    /\ published \in [Ids -> Tag] /\ release \in [Ids -> Tag] /\ floor \in [Ids -> Tag]
    /\ watched \in [Ids -> BOOLEAN] /\ private \in [Ids -> BOOLEAN]
    /\ last \in [Ids -> 0..N] /\ fresh \subseteq Ids
    /\ changes \subseteq [repo: Ids, before: Tag, after: Tag]
    /\ pc \in {"idle", "sources", "watching", "release", "commit"}
    /\ seen \in [Ids -> Candidate]
    /\ moves \in 0..MaxMoves /\ cancels \in 0..MaxCancels /\ toggles \in 0..MaxToggles

\* What the cycle found at its start is not newer than what GitHub has, and what its watch
\* source read afterwards is not older.
FloorIsPast == \A i \in Ids : floor[i] <= published[i]
WatchedIsRead ==
    \A i \in Ids : seen[i].kind = "watch" /\ site[i] = "public" => seen[i].release >= floor[i]

IInv == Typed /\ FloorIsPast /\ WatchedIsRead

(***************************************************************************)
(* The operators.                                                          *)
(***************************************************************************)
LEMMA Bounds ==
    /\ N \in Nat \ {0} /\ MaxRelease \in Nat /\ MaxMoves \in Nat /\ MaxCancels \in Nat
    /\ MaxToggles \in Nat /\ "public" \notin Faults /\ Ids \subseteq Nat \ {0}
    /\ Tag \subseteq Nat /\ 0 \in Tag
BY WatchlistAssumption DEF Ids, Tag

LEMMA UnseenIsCandidate == Unseen \in Candidate /\ Unseen.kind # "watch"
BY Bounds DEF Unseen, Candidate

\* A candidate is kept or replaced by the one that comes.
LEMMA InsertedFacts ==
    ASSUME seen \in [Ids -> Candidate], NEW i \in Ids, NEW c \in Candidate
    PROVE  /\ Inserted(i, c) \in [Ids -> Candidate]
           /\ \A j \in Ids : Inserted(i, c)[j] = seen[j] \/ (j = i /\ Inserted(i, c)[j] = c)
BY DEF Inserted

\* A row that is not refreshed does not move up: the ranks below it only close up.
LEMMA StampedFacts ==
    ASSUME last \in [Ids -> 0..N], NEW S \in SUBSET Ids
    PROVE  /\ Stamped(S) \in [Ids -> 0..N]
           /\ \A i \in Ids \ S : Stamped(S)[i] <= last[i]
<1> DEFINE raw == [i \in Ids |-> IF i \in S THEN N + 1 ELSE last[i]]
           R == {raw[j] : j \in Ids}
           rank(i) == Cardinality(R \cap 1..raw[i])
<1>1. N \in Nat /\ IsFiniteSet(Ids) /\ Cardinality(Ids) = N
  BY Bounds, FS_Interval DEF Ids
<1>2. \A i \in Ids : raw[i] \in Nat
  BY <1>1
<1>3. IsFiniteSet(R) /\ Cardinality(R) <= N
  <2>1. raw \in Surjection(Ids, R)
    BY DEF Surjection
  <2> HIDE DEF raw, R
  <2> QED
    BY <1>1, <2>1, FS_Surjection
<1>4. Stamped(S) = [i \in Ids |-> rank(i)]
  BY DEF Stamped
<1>5. \A i \in Ids \ S : raw[i] = last[i]
  OBVIOUS
<1> HIDE DEF raw, R
<1>6. ASSUME NEW i \in Ids
      PROVE  rank(i) \in 0..N /\ rank(i) <= raw[i]
  <2>1. IsFiniteSet(1..raw[i]) /\ Cardinality(1..raw[i]) = raw[i]
    <3>1. PICK m \in Nat : m = raw[i]
      BY <1>2
    <3>2. IsFiniteSet(1..m) /\ Cardinality(1..m) = m
      <4>1. 1 \in Int /\ m \in Int
        OBVIOUS
      <4>2. IsFiniteSet(1..m) /\ Cardinality(1..m) = IF 1 > m THEN 0 ELSE m - 1 + 1
        BY <4>1, FS_Interval
      <4> QED
        BY <4>2
    <3> QED
      BY <3>1, <3>2
  <2>2. rank(i) <= raw[i] /\ rank(i) \in Nat
    BY <2>1, FS_Subset, FS_CardinalityType
  <2>3. rank(i) <= Cardinality(R) /\ Cardinality(R) \in Nat
    BY <1>3, FS_Subset, FS_CardinalityType
  <2> QED
    BY <1>1, <1>3, <2>2, <2>3
<1> HIDE DEF rank
<1> QED
  BY <1>4, <1>5, <1>6

\* What a commit stores of a repository that the watch source refreshed is what it read.
LEMMA MergedFacts ==
    ASSUME Typed
    PROVE  /\ [i \in Ids |-> Merged(i)] \in [Ids -> Tag]
           /\ Changes \subseteq [repo: Ids, before: Tag, after: Tag]
           /\ \A i \in Refreshed : Merged(i) = seen[i].release
<1>1. \A i \in Ids : seen[i].release \in Tag /\ release[i] \in Tag
  BY DEF Typed, Candidate
<1>2. \A i \in Ids : Merged(i) \in Tag
  BY <1>1 DEF Merged
<1> QED
  BY <1>1, <1>2 DEF Changes, Merged, Refreshed

(***************************************************************************)
(* The steps.                                                              *)
(***************************************************************************)
LEMMA GithubKeepsInvariant ==
    ASSUME IInv, NEW i \in Ids, Publish(i) \/ Move(i) \/ SetWatched(i)
    PROVE  IInv'
<1>1. UNCHANGED <<release, private, last, changes, fresh, pc, todo, seen, floor, cancels>>
  BY DEF Publish, Move, SetWatched, github, rows, cycle, user
<1>2. Typed /\ FloorIsPast /\ WatchedIsRead
  BY DEF IInv
<1>3. CASE Publish(i)
  <2>1. /\ UNCHANGED <<site, moves, watched, toggles>>
        /\ published' = [published EXCEPT ![i] = @ + 1] /\ published[i] < MaxRelease
    BY <1>3 DEF Publish, rows, user
  <2>2. published[i] \in 0..MaxRelease /\ MaxRelease \in Nat
    BY <1>2, Bounds DEF Typed, Tag
  <2>3. published[i] + 1 \in Tag
    BY <2>1, <2>2 DEF Tag
  <2>4. published' \in [Ids -> Tag]
    BY <1>2, <2>1, <2>3 DEF Typed
  <2>5. \A j \in Ids : published'[j] = published[j] \/ (j = i /\ published'[j] = published[i] + 1)
    BY <1>2, <2>1 DEF Typed
  <2>6. floor[i] \in Nat
    BY <1>2, Bounds DEF Typed
  <2>7. FloorIsPast'
    BY <1>1, <1>2, <2>2, <2>5, <2>6 DEF FloorIsPast
  <2>8. Typed'
    BY <1>1, <1>2, <2>1, <2>4 DEF Typed
  <2>9. WatchedIsRead'
    BY <1>1, <1>2, <2>1 DEF WatchedIsRead
  <2> QED
    BY <2>7, <2>8, <2>9 DEF IInv
<1>4. CASE Move(i)
  <2>1. /\ UNCHANGED <<published, watched, toggles>>
        /\ moves' = moves + 1 /\ moves < MaxMoves
    BY <1>4 DEF Move, rows, user
  <2>2. PICK f \in Faults : site' = [site EXCEPT ![i] = f]
    BY <1>4 DEF Move
  <2>3. moves' \in 0..MaxMoves
    BY <1>2, <2>1, Bounds DEF Typed
  <2>4. site' \in [Ids -> {"public"} \cup Faults]
    BY <1>2, <2>2 DEF Typed
  <2>5. \A j \in Ids : site'[j] = "public" => site[j] = "public"
    BY <1>2, <2>2, Bounds DEF Typed
  <2>6. Typed'
    BY <1>1, <1>2, <2>1, <2>3, <2>4 DEF Typed
  <2>7. WatchedIsRead' /\ FloorIsPast'
    BY <1>1, <1>2, <2>1, <2>5 DEF WatchedIsRead, FloorIsPast
  <2> QED
    BY <2>6, <2>7 DEF IInv
<1>5. CASE SetWatched(i)
  <2>1. /\ UNCHANGED <<site, published, moves>>
        /\ toggles' = toggles + 1 /\ toggles < MaxToggles
        /\ watched' = [watched EXCEPT ![i] = ~@]
    BY <1>5 DEF SetWatched, github
  <2>2. toggles' \in 0..MaxToggles
    BY <1>2, <2>1, Bounds DEF Typed
  <2>3. watched' \in [Ids -> BOOLEAN]
    BY <1>2, <2>1 DEF Typed
  <2>4. Typed'
    BY <1>1, <1>2, <2>1, <2>2, <2>3 DEF Typed
  <2> QED
    BY <1>1, <1>2, <2>1, <2>4 DEF IInv, WatchedIsRead, FloorIsPast
<1> QED
  BY <1>3, <1>4, <1>5

\* The cycle forgets the candidates of the last one and looks at GitHub as it is now.
LEMMA StartCycleKeepsInvariant ==
    ASSUME IInv, StartCycle
    PROVE  IInv'
<1>1. /\ pc' = "sources" /\ floor' = published /\ seen' = [i \in Ids |-> Unseen]
      /\ UNCHANGED <<site, published, moves, watched, toggles, release, private, last, changes,
                     fresh, cancels>>
  BY DEF StartCycle, github, rows, user
<1>2. Typed'
  BY <1>1, UnseenIsCandidate DEF IInv, Typed
<1>3. \A i \in Ids : published[i] \in Nat
  BY Bounds DEF IInv, Typed
<1>4. FloorIsPast' /\ WatchedIsRead'
  BY <1>1, <1>3, UnseenIsCandidate DEF FloorIsPast, WatchedIsRead
<1> QED
  BY <1>2, <1>4 DEF IInv

\* A candidate that comes in: of another source, or read from GitHub in this cycle.
LEMMA CandidateKeepsInvariant ==
    ASSUME IInv, NEW i \in Ids, NEW c \in Candidate, seen' = Inserted(i, c),
           c.kind = "watch" /\ site[i] = "public" => c.release = published[i],
           UNCHANGED <<github, rows, floor, cancels>>,
           pc' \in {"idle", "sources", "watching", "release", "commit"}
    PROVE  IInv'
<1>1. UNCHANGED <<site, published, moves, watched, toggles, release, private, last, changes,
                  fresh, floor, cancels>>
  BY DEF github, rows, user
<1>2. Typed /\ FloorIsPast /\ WatchedIsRead
  BY DEF IInv
<1>3. /\ seen' \in [Ids -> Candidate]
      /\ \A j \in Ids : seen'[j] = seen[j] \/ (j = i /\ seen'[j] = c)
  BY <1>2, InsertedFacts DEF Typed
<1>4. Typed'
  BY <1>1, <1>2, <1>3 DEF Typed
<1>5. FloorIsPast'
  BY <1>1, <1>2 DEF FloorIsPast
<1>6. published[i] >= floor[i]
  <2>1. published[i] \in Nat /\ floor[i] \in Nat
    BY <1>2, Bounds DEF Typed
  <2> QED
    BY <1>2, <2>1 DEF FloorIsPast
<1>7. WatchedIsRead'
  <2> SUFFICES ASSUME NEW j \in Ids, seen'[j].kind = "watch", site[j] = "public"
               PROVE  seen'[j].release >= floor[j]
    BY <1>1 DEF WatchedIsRead
  <2>1. CASE seen'[j] = seen[j]
    BY <1>2, <2>1 DEF WatchedIsRead
  <2>2. CASE j = i /\ seen'[j] = c
    BY <1>6, <2>2
  <2> QED
    BY <1>3, <2>1, <2>2
<1> QED
  BY <1>4, <1>5, <1>7 DEF IInv

LEMMA ObserveKeepsInvariant ==
    ASSUME IInv, NEW i \in Ids, NEW kind \in {"sparse", "complete"}, Observe(i, kind)
    PROVE  IInv'
<1> DEFINE c == [kind |-> kind, release |-> 0]
<1>1. c \in Candidate /\ c.kind # "watch"
  BY Bounds DEF Candidate
<1>2. /\ seen' = Inserted(i, c) /\ UNCHANGED <<github, rows, floor, cancels>> /\ pc' = "sources"
  BY DEF Observe
<1> HIDE DEF c
<1> QED
  BY <1>1, <1>2, CandidateKeepsInvariant

LEMMA FetchReleaseKeepsInvariant ==
    ASSUME IInv, NEW i \in Ids, FetchRelease(i)
    PROVE  IInv'
<1> DEFINE c == [kind |-> "watch", release |-> IF site[i] = "public" THEN published[i] ELSE 0]
<1>1. c \in Candidate /\ (site[i] = "public" => c.release = published[i])
  <2>1. published[i] \in Tag /\ 0 \in Tag
    BY Bounds DEF IInv, Typed
  <2> QED
    BY <2>1 DEF Candidate
<1>2. /\ seen' = Inserted(i, c) /\ UNCHANGED <<github, rows, floor, cancels>>
      /\ pc' \in {"commit", "watching"}
  BY DEF FetchRelease, Proceed
<1> HIDE DEF c
<1> QED
  BY <1>1, <1>2, CandidateKeepsInvariant

\* The other steps of the watch source: its plan, its first requests and its errors.
LEMMA WatchSourceKeepsInvariant ==
    ASSUME IInv, WatchSource
    PROVE  IInv'
<1>1. CASE \E i \in Ids : FetchRelease(i)
  BY <1>1, FetchReleaseKeepsInvariant
<1>2. CASE \/ \E due \in SUBSET Ids : PlanWatch(due)
           \/ SkipWatch \/ FetchFails \/ \E i \in Ids : FetchRepository(i) \/ FetchClosed(i)
  <2>1. /\ UNCHANGED <<site, published, moves, watched, toggles, release, last, changes, fresh,
                       seen, floor, cancels>>
        /\ pc' \in {"watching", "release", "commit"}
    BY <1>2 DEF PlanWatch, SkipWatch, FetchFails, FetchRepository, FetchClosed, Break, Proceed,
                github, rows, user
  <2>2. private' = private \/ \E i \in Ids : private' = [private EXCEPT ![i] = TRUE]
    BY <1>2 DEF PlanWatch, SkipWatch, FetchFails, FetchRepository, FetchClosed, rows
  <2>3. Typed /\ FloorIsPast /\ WatchedIsRead
    BY DEF IInv
  <2>4. private' \in [Ids -> BOOLEAN]
    BY <2>2, <2>3 DEF Typed
  <2>5. Typed'
    BY <2>1, <2>3, <2>4 DEF Typed
  <2> QED
    BY <2>1, <2>3, <2>5 DEF IInv, FloorIsPast, WatchedIsRead
<1> QED
  BY <1>1, <1>2 DEF WatchSource

LEMMA CommitKeepsInvariant ==
    ASSUME IInv, Commit
    PROVE  IInv'
<1>1. /\ release' = [i \in Ids |-> Merged(i)] /\ changes' = changes \cup Changes
      /\ last' = Stamped(Refreshed) /\ fresh' = Refreshed /\ pc' = "idle"
      /\ UNCHANGED <<site, published, moves, watched, toggles, private, seen, floor, cancels>>
  BY DEF Commit, github, user
<1>2. Typed /\ FloorIsPast /\ WatchedIsRead
  BY DEF IInv
<1>3. Refreshed \subseteq Ids
  BY DEF Refreshed, Candidates
<1>4. last' \in [Ids -> 0..N]
  BY <1>1, <1>2, <1>3, StampedFacts DEF Typed
<1>5. release' \in [Ids -> Tag] /\ changes' \subseteq [repo: Ids, before: Tag, after: Tag]
  BY <1>1, <1>2, MergedFacts DEF Typed
<1>6. Typed'
  BY <1>1, <1>2, <1>3, <1>4, <1>5 DEF Typed
<1> QED
  BY <1>1, <1>2, <1>6 DEF IInv, FloorIsPast, WatchedIsRead

\* A cycle that ends without a commit.
LEMMA LostCycleKeepsInvariant ==
    ASSUME IInv, CommitRefused \/ Cancel
    PROVE  IInv'
<1>1. /\ pc' = "idle" /\ fresh' = {}
      /\ UNCHANGED <<site, published, moves, watched, toggles, release, private, last, changes,
                     seen, floor>>
      /\ cancels' = cancels \/ (cancels < MaxCancels /\ cancels' = cancels + 1)
  BY DEF CommitRefused, Cancel, github, user
<1>2. Typed /\ FloorIsPast /\ WatchedIsRead
  BY DEF IInv
<1>3. cancels' \in 0..MaxCancels
  BY <1>1, <1>2, Bounds DEF Typed
<1>4. Typed'
  BY <1>1, <1>2, <1>3 DEF Typed
<1> QED
  BY <1>1, <1>2, <1>4 DEF IInv, FloorIsPast, WatchedIsRead

LEMMA NextKeepsInvariant == IInv /\ [Next]_vars => IInv'
<1> SUFFICES ASSUME IInv, [Next]_vars PROVE IInv'
  OBVIOUS
<1>1. CASE UNCHANGED vars
  BY <1>1 DEF vars, github, rows, user, cycle, IInv, Typed, FloorIsPast, WatchedIsRead
<1>2. CASE Next
  BY <1>2, GithubKeepsInvariant, StartCycleKeepsInvariant, WatchSourceKeepsInvariant,
     ObserveKeepsInvariant, CommitKeepsInvariant, LostCycleKeepsInvariant DEF Next
<1> QED
  BY <1>1, <1>2

LEMMA InvariantHoldsFirst == Init => IInv
<1> SUFFICES ASSUME Init PROVE IInv
  OBVIOUS
<1>1. Typed
  BY Bounds, UnseenIsCandidate DEF Init, Typed
<1>2. FloorIsPast /\ WatchedIsRead
  BY UnseenIsCandidate DEF Init, FloorIsPast, WatchedIsRead
<1> QED
  BY <1>1, <1>2 DEF IInv

(***************************************************************************)
(* The theorems.                                                           *)
(***************************************************************************)

\* The inductive invariant: what the watch source read in a cycle is not older than the
\* cycle, as long as the repository is public (engine.rs 306-343).
THEOREM WatchlistInvariant == Spec => []IInv
<1> QED
  BY InvariantHoldsFirst, NextKeepsInvariant, PTL DEF Spec

\* The watch clock of a repository advances only in the commit that stores a release of it
\* which is not older than the cycle, whatever other sources saw of it, however requests fail
\* and cycles are cut off, and however ranks are renumbered (db.rs 446-452, 1035-1074).
THEOREM ClockAlwaysMeansFresh == Spec => ClockMeansFresh
<1> DEFINE Step ==
        \A i \in Ids : last'[i] > last[i] \/ i \in fresh' \ fresh =>
            (site[i] = "public" => release'[i] >= floor[i])
<1>1. IInv /\ [Next]_vars => [Step]_vars
  <2> SUFFICES ASSUME IInv, Next PROVE Step
    OBVIOUS
  <2>1. Typed /\ WatchedIsRead
    BY DEF IInv
  <2>2. CASE Commit
    <3> SUFFICES ASSUME NEW i \in Ids, last'[i] > last[i] \/ i \in fresh' \ fresh,
                        site[i] = "public"
                 PROVE  release'[i] >= floor[i]
      OBVIOUS
    <3>1. /\ release' = [j \in Ids |-> Merged(j)] /\ last' = Stamped(Refreshed)
          /\ fresh' = Refreshed /\ Refreshed \subseteq Ids
      BY <2>2 DEF Commit, Refreshed, Candidates
    <3>2. i \in Refreshed
      <4> SUFFICES ASSUME i \notin Refreshed PROVE FALSE
        OBVIOUS
      <4>1. last' \in [Ids -> 0..N] /\ last'[i] <= last[i] /\ last \in [Ids -> 0..N]
        BY <2>1, <3>1, StampedFacts DEF Typed
      <4>2. last'[i] \in Int /\ last[i] \in Int
        BY <4>1
      <4> QED
        BY <3>1, <4>1, <4>2
    <3>3. release'[i] = seen[i].release /\ seen[i].kind = "watch"
      BY <2>1, <3>1, <3>2, MergedFacts DEF Refreshed
    <3> QED
      BY <2>1, <3>3 DEF WatchedIsRead
  <2>3. CASE ~Commit
    <3>1. last' = last /\ (fresh' = fresh \/ fresh' = {})
      BY <2>3 DEF Next, Publish, Move, SetWatched, StartCycle, WatchSource, PlanWatch, SkipWatch,
                  FetchRepository, FetchClosed, FetchRelease, FetchFails, Observe, CommitRefused,
                  Cancel, rows
    <3>2. \A i \in Ids : last[i] \in Int
      BY <2>1 DEF Typed
    <3> QED
      BY <3>1, <3>2
  <2> QED
    BY <2>2, <2>3
<1> QED
  BY <1>1, WatchlistInvariant, PTL DEF Spec, ClockMeansFresh
=============================================================================
