----------------------------- MODULE Watchlist ------------------------------
(***************************************************************************)
(* The watch source of src/src/engine.rs and what Database::ingest makes   *)
(* of its observations: which watched repositories a cycle refreshes and   *)
(* in which order (due_watched), the two requests each of them takes, what *)
(* a failing request does to the rest, and how the release tag of a stored *)
(* row is merged and its changes recorded.                                 *)
(*                                                                         *)
(* Release tags are numbered in the order of their publication, 0 is no    *)
(* release.  last_watch_success is kept as a rank: due_watched only        *)
(* compares it, and a row that is due has all older rows due with it.      *)
(***************************************************************************)
EXTENDS Integers, Sequences, SequencesExt, FiniteSets

CONSTANTS
    N,              \* stored repositories are 1..N
    WATCH,          \* watch_per_cycle
    Faults,         \* what may become of a repository at GitHub
    MaxRelease,     \* bound: releases of a repository
    MaxMoves,       \* bound: repositories that stop answering as public ones
    MaxCancels,     \* bound: cancelled or crashed cycles
    MaxToggles      \* bound: uses of watch and unwatch

ASSUME WatchlistAssumption ==
    /\ N \in Nat \ {0} /\ WATCH \in Nat \ {0}
    /\ \A f \in Faults : f \in {"private", "gone", "moved"}
    /\ MaxRelease \in Nat /\ MaxMoves \in Nat
    /\ MaxCancels \in Nat /\ MaxToggles \in Nat

VARIABLES
    site,       \* GitHub's answer for a repository: "public" or a fault
    published,  \* its latest release at GitHub
    release,    \* repos.latest_release
    watched,    \* repos.watched
    private,    \* repos.private
    last,       \* rank of repos.last_watch_success, 0 if never
    changes,    \* the changes table, field latest_release
    pc, todo,   \* where the cycle is, and what it has still to refresh
    seen,       \* the cycle's candidates
    floor,      \* history: GitHub's releases when the cycle started
    fresh,      \* history: the repositories the last commit refreshed
    moves, cancels, toggles

github == <<site, published, moves>>
user == <<watched, toggles>>
rows == <<user, release, private, last, changes, fresh>>
cycle == <<pc, todo, seen, floor>>
vars == <<github, rows, cycle, cancels>>

-----------------------------------------------------------------------------
Ids == 1..N
Least(a, b) == IF a <= b THEN a ELSE b
Tag == 0..MaxRelease

\* How a candidate was observed: a listing is sparse, search and enrichment return all
\* metadata but no release, the watch source adds the release.
Unseen == [kind |-> "none", release |-> 0]
Candidate == [kind: {"none", "sparse", "complete", "watch"}, release: Tag]
Candidates == {i \in Ids : seen[i].kind # "none"}

\* insert_candidate
Inserted(i, candidate) ==
    IF seen[i].kind \in {"complete", "watch"} /\ candidate.kind = "sparse" THEN seen
    ELSE [seen EXCEPT ![i] = candidate]

\* Mutant: due_watched sorted by id alone.
Before_ById(i, j) == i < j

\* ORDER BY last_watch_success, id
Before(i, j) == last[i] < last[j] \/ (last[i] = last[j] /\ i < j)

\* The rows due after some time: with a row all older ones, and always the rows never
\* refreshed.
DueSets ==
    LET rest == {i \in Ids : watched[i] /\ ~private[i]}
    IN {D \in SUBSET rest :
            /\ \A i \in D, j \in rest : last[j] <= last[i] => j \in D
            /\ \A j \in rest : last[j] = 0 => j \in D}

-----------------------------------------------------------------------------
Publish(i) ==
    /\ published[i] < MaxRelease
    /\ published' = [published EXCEPT ![i] = @ + 1]
    /\ UNCHANGED <<site, moves, rows, cycle, cancels>>

\* Made private, deleted, or renamed: redirects are not followed.
Move(i) ==
    /\ site[i] = "public" /\ moves < MaxMoves
    /\ site' \in {[site EXCEPT ![i] = f] : f \in Faults}
    /\ moves' = moves + 1
    /\ UNCHANGED <<published, rows, cycle, cancels>>

SetWatched(i) ==
    /\ ~private[i] /\ toggles < MaxToggles
    /\ toggles' = toggles + 1
    /\ watched' = [watched EXCEPT ![i] = ~@]
    /\ UNCHANGED <<github, release, private, last, changes, fresh, cycle, cancels>>

-----------------------------------------------------------------------------
StartCycle ==
    /\ pc = "idle"
    /\ pc' = "sources"
    /\ todo' = <<>> /\ seen' = [i \in Ids |-> Unseen]
    /\ floor' = published
    /\ UNCHANGED <<github, rows, cancels>>

\* Another source of the cycle comes across the repository.
Observe(i, kind) ==
    /\ pc = "sources" /\ site[i] = "public"
    /\ kind \in {"sparse", "complete"}
    /\ seen' = Inserted(i, [kind |-> kind, release |-> 0])
    /\ UNCHANGED <<github, rows, pc, todo, floor, cancels>>


\* due_watched, limited to watch_per_cycle.
PlanWatch(due) ==
    /\ pc = "sources" /\ due # {} /\ due \in DueSets
    /\ todo' = SubSeq(SetToSortSeq(due, Before), 1, Least(WATCH, Cardinality(due)))
    /\ pc' = "watching"
    /\ UNCHANGED <<github, rows, seen, floor, cancels>>

\* The watch source is not due, disabled or without work.
SkipWatch ==
    /\ pc = "sources"
    /\ pc' = "commit"
    /\ UNCHANGED <<github, rows, todo, seen, floor, cancels>>

\* After the first repository, on with the others; or the source ends at an error.
Proceed == todo' = Tail(todo) /\ pc' = IF todo' = <<>> THEN "commit" ELSE "watching"
Break == todo' = <<>> /\ pc' = "commit"

FetchRepository(i) ==
    /\ pc = "watching" /\ i = todo[1] /\ site[i] = "public"
    /\ pc' = "release"
    /\ UNCHANGED <<github, rows, todo, seen, floor, cancels>>

\* A private repository is quarantined and skipped, a missing one ends the source too.
FetchClosed(i) ==
    /\ pc = "watching" /\ i = todo[1] /\ site[i] \in {"private", "gone"}
    /\ private' = [private EXCEPT ![i] = TRUE]
    /\ IF site[i] = "gone" THEN Break ELSE Proceed
    /\ UNCHANGED <<github, release, user, last, changes, fresh, seen, floor, cancels>>

\* Any other error: a redirect, an outage, an exhausted quota.
FetchFails ==
    /\ pc \in {"watching", "release"}
    /\ Break
    /\ UNCHANGED <<github, rows, seen, floor, cancels>>


\* The latest release; a repository that closed meanwhile answers 404, which is none.
FetchRelease(i) ==
    /\ pc = "release" /\ i = todo[1]
    /\ site[i] # "moved"
    /\ seen' = Inserted(i, [kind |-> "watch",
                            release |-> IF site[i] = "public" THEN published[i] ELSE 0])
    /\ Proceed
    /\ UNCHANGED <<github, rows, floor, cancels>>

\* merge_repo: only a sparse observation keeps what is stored.
Merged(i) ==
    IF seen[i].kind \in {"none", "sparse"} /\ seen[i].release = 0 THEN release[i]
    ELSE seen[i].release

\* metadata_changes
Changes == {[repo |-> i, before |-> release[i], after |-> Merged(i)] :
               i \in {j \in Ids : Merged(j) # release[j]}}

\* The repositories just refreshed get the highest rank.
Stamped(S) ==
    LET raw == [i \in Ids |-> IF i \in S THEN N + 1 ELSE last[i]]
    IN [i \in Ids |-> Cardinality({raw[j] : j \in Ids} \cap 1..raw[i])]

Refused == \E i \in Candidates : private[i]

\* Mutant: every observation of a watched repository advances the watch clock.
Refreshed_Any == {i \in Candidates : watched[i]}

\* Only successful persisted watch observations advance the watch clock.
Refreshed == {i \in Candidates : seen[i].kind = "watch"}

Commit ==
    /\ pc = "commit" /\ ~Refused
    /\ release' = [i \in Ids |-> Merged(i)]
    /\ changes' = changes \cup Changes
    /\ last' = Stamped(Refreshed)
    /\ fresh' = Refreshed
    /\ pc' = "idle"
    /\ UNCHANGED <<github, user, private, todo, seen, floor, cancels>>

CommitRefused ==
    /\ pc = "commit" /\ Refused
    /\ pc' = "idle" /\ fresh' = {}
    /\ UNCHANGED <<github, release, user, private, last, changes, todo, seen, floor, cancels>>

\* The cycle is cancelled at an await, or the process restarts.
Cancel ==
    /\ pc # "idle" /\ cancels < MaxCancels
    /\ cancels' = cancels + 1
    /\ pc' = "idle" /\ fresh' = {}
    /\ UNCHANGED <<github, release, user, private, last, changes, todo, seen, floor>>

-----------------------------------------------------------------------------
Init ==
    /\ site = [i \in Ids |-> "public"] /\ published = [i \in Ids |-> 0]
    /\ release = published
    /\ watched = [i \in Ids |-> FALSE] /\ private = watched
    /\ last = [i \in Ids |-> 0]
    /\ changes = {} /\ fresh = {}
    /\ pc = "idle" /\ todo = <<>>
    /\ seen = [i \in Ids |-> Unseen] /\ floor = published
    /\ moves = 0 /\ cancels = 0 /\ toggles = 0

WatchSource ==
    \/ \E due \in SUBSET Ids : PlanWatch(due)
    \/ SkipWatch
    \/ \E i \in Ids : FetchRepository(i) \/ FetchClosed(i) \/ FetchRelease(i)
    \/ FetchFails

Next ==
    \/ \E i \in Ids : Publish(i) \/ Move(i) \/ SetWatched(i)
    \/ StartCycle \/ WatchSource
    \/ \E i \in Ids, kind \in {"sparse", "complete"} : Observe(i, kind)
    \/ Commit \/ CommitRefused \/ Cancel

Spec == Init /\ [][Next]_vars

\* Cycles follow each other, each row's interval runs out, and a request for the row at the
\* head of the list is answered now and then; nothing is assumed of any one repository.
FairSpec ==
    /\ Spec
    /\ WF_vars(StartCycle \/ WatchSource \/ Commit \/ CommitRefused)
    /\ SF_vars(PlanWatch({i \in Ids : watched[i] /\ ~private[i]}))
    /\ SF_vars(\E i \in Ids : FetchRepository(i) \/ FetchClosed(i))
    /\ SF_vars(\E i \in Ids : FetchRelease(i))

-----------------------------------------------------------------------------
TypeOK ==
    /\ site \in [Ids -> {"public"} \cup Faults]
    /\ published \in [Ids -> Tag] /\ release \in [Ids -> Tag] /\ floor \in [Ids -> Tag]
    /\ watched \in [Ids -> BOOLEAN] /\ private \in [Ids -> BOOLEAN]
    /\ last \in [Ids -> 0..N] /\ fresh \subseteq Ids
    /\ changes \subseteq [repo: Ids, before: Tag, after: Tag]
    /\ pc \in {"idle", "sources", "watching", "release", "commit"}
    /\ todo \in Seq(Ids) /\ Len(todo) <= WATCH
    /\ seen \in [Ids -> Candidate]
    /\ moves \in 0..MaxMoves /\ cancels \in 0..MaxCancels /\ toggles \in 0..MaxToggles

\* The watch clock of a repository advances only together with a release that is not
\* older than the cycle which read it.
ClockMeansFresh ==
    [][\A i \in Ids : last'[i] > last[i] \/ i \in fresh' \ fresh =>
            (site[i] = "public" => release'[i] >= floor[i])]_vars

\* A watched public repository is refreshed again and again, however many others compete
\* for the budget of a cycle.
WatchedAreRefreshed ==
    \A i \in Ids : []<>(~watched[i] \/ private[i] \/ site[i] # "public" \/ i \in fresh)

\* README.md:157: watching enables "change and release tag tracking".  A recorded change
\* of the release is one that happened: tags are numbered in the order of publication.
RecordedChangesHappened == \A c \in changes : c.after > c.before
=============================================================================
