------------------------------- MODULE Cycle --------------------------------
(***************************************************************************)
(* One discovery cycle of src/src/engine.rs (Engine::run_cycle) against    *)
(* the database and a GitHub that changes while the cycle runs.            *)
(*                                                                         *)
(* A cycle works on a copy of the checkpoint (next) and on a map of        *)
(* candidates; the five sources run one after the other, each request is   *)
(* an await at which GitHub, the user, a cancellation or a crash can       *)
(* intervene, and at the end one transaction stores the candidates with    *)
(* the checkpoint.  Only a quarantine is written before that commit.       *)
(*                                                                         *)
(* A source that is not due, disabled or out of quota is skipped or fails, *)
(* which is left to chance.  Repository names sort like their ids.         *)
(***************************************************************************)
EXTENDS Integers, FiniteSets

CONSTANTS
    N,              \* repository ids are 1..N
    MAX_PENDING,    \* event references kept for verification (1000)
    ENRICH,         \* enrich_per_cycle
    WATCH,          \* watch_per_cycle
    PAGES,          \* max_pages_per_cycle
    PAGE_SIZE,      \* entries of a listing page (100)
    Unsafe,         \* repositories that safe_repo refuses: their names look like secrets
    MaxMoves,       \* bound: visibility changes at GitHub
    MaxCrashes      \* bound: crashes and cancellations

ASSUME CycleAssumption ==
    /\ N \in Nat \ {0} /\ MAX_PENDING \in Nat
    /\ PAGES \in Nat \ {0} /\ PAGE_SIZE \in Nat \ {0}
    /\ ENRICH \in Nat \ {0} /\ WATCH \in Nat \ {0} /\ Unsafe \subseteq 1..N
    /\ MaxMoves \in Nat /\ MaxCrashes \in Nat

VARIABLES
    world,      \* GitHub: whether a repository is public, private or gone
    stored,     \* repos.private, or "none" if there is no row
    complete,   \* repos.metadata_complete
    watched,    \* repos.watched
    saved,      \* app_state, the checkpoint in SQLite
    memory,     \* Engine.state
    next,       \* the running cycle's copy of it
    cand,       \* the running cycle's candidates
    pc,         \* where the cycle is
    todo,       \* repositories still to be fetched by enrichment or watch
    pages,      \* listing pages fetched by this source in this cycle
    queued,     \* history: references this cycle had in its queue and GitHub did not refuse
    moves, crashes

cycleVars == <<next, cand, pc, todo, pages, queued>>
dbVars == <<stored, complete, watched, saved>>
vars == <<world, dbVars, memory, cycleVars, moves, crashes>>

-----------------------------------------------------------------------------
Ids == 1..N
Least(a, b) == IF a <= b THEN a ELSE b
MinOf(S) == CHOOSE i \in S : \A j \in S : i <= j
\* The first n elements of S.
FirstOf(n, S) == {i \in S : Cardinality({j \in S : j < i}) < n}

\* AppState: pending event references and the sequential cursor.  The third field
\* is history: repositories a listing or a search returned.
Checkpoint == [pending: SUBSET Ids, cursor: 0..N, listed: SUBSET Ids]
Blank == [pending |-> {}, cursor |-> 0, listed |-> {}]

NoCandidates == [i \in Ids |-> "none"]
Candidates == {i \in Ids : cand[i] # "none"}
Public == {i \in Ids : world[i] = "public"}

\* insert_candidate: a sparse observation never replaces a complete one.
WithCandidates(S, kind) ==
    [i \in Ids |-> IF i \in S /\ ~(cand[i] = "complete" /\ kind = "sparse")
                   THEN kind ELSE cand[i]]

Listed(S) == [next EXCEPT !.listed = @ \cup S]

-----------------------------------------------------------------------------
\* However a cycle ends, it leaves the engine with a state, and its copy of the checkpoint
\* and its candidates are gone.
CycleEnds(state) ==
    /\ pc' = "idle"
    /\ memory' = state /\ next' = state
    /\ cand' = NoCandidates /\ todo' = {} /\ pages' = 0 /\ queued' = {}

\* run_cycle starts from a clone of the engine's state.
StartCycle ==
    /\ pc = "idle"
    /\ pc' = "events"
    /\ next' = memory /\ queued' = memory.pending
    /\ cand' = NoCandidates /\ todo' = {} /\ pages' = 0
    /\ UNCHANGED <<world, dbVars, memory, moves, crashes>>

\* A source that is not due, has no work or fails before its first result.
Skip(at, to) ==
    /\ pc = at
    /\ pc' = to /\ todo' = {} /\ pages' = 0
    /\ UNCHANGED <<world, dbVars, memory, next, cand, queued, moves, crashes>>

SkipSource ==
    \/ Skip("events", "search") \/ Skip("search", "sequential")
    \/ Skip("sequential", "enrich") \/ Skip("enrich", "watch") \/ Skip("watch", "commit")

\* What requests answer.  Events: references to repositories just created, private or not.
Feed == SUBSET Ids
\* Search: some public repositories.
Results == SUBSET Public
\* GET /repositories?since=c: the next public repositories.
PageAfter(c) == FirstOf(PAGE_SIZE, {i \in Public : i > c})
\* GET /repos/i: what the repository is, or any other error.
Answers(i) == {world[i], "error"}

\* The event feed names new repositories; those that still fit are queued for
\* verification, and nothing else is kept of them.
EventsOk ==
    /\ pc = "events"
    /\ \E refs \in Feed, fit \in SUBSET Ids :
        /\ fit \subseteq refs \ next.pending
        /\ Cardinality(next.pending \cup fit) =
              Least(MAX_PENDING, Cardinality(next.pending \cup refs))
        /\ next' = [next EXCEPT !.pending = @ \cup fit]
        /\ queued' = queued \cup fit
    /\ pc' = "search"
    /\ UNCHANGED <<world, dbVars, memory, cand, todo, pages, moves, crashes>>

\* One page of search results: public repositories with complete metadata.
SearchPage ==
    /\ pc = "search" /\ pages < PAGES
    /\ \E found \in Results :
        /\ cand' = WithCandidates(found, "complete")
        /\ next' = Listed(found)
    /\ pages' = pages + 1
    /\ UNCHANGED <<world, dbVars, memory, pc, todo, queued, moves, crashes>>

\* Without an anchor the sequential source starts at the lowest candidate.
Anchor ==
    /\ pc = "sequential" /\ next.cursor = 0 /\ Candidates # {}
    /\ next' = [next EXCEPT !.cursor = MinOf(Candidates)]
    /\ UNCHANGED <<world, dbVars, memory, cand, pc, todo, pages, queued, moves, crashes>>

\* Mutant: since= is taken to be inclusive.
SequentialPage_Inclusive ==
    /\ pc = "sequential" /\ next.cursor > 0 /\ pages < PAGES
    /\ LET page == PageAfter(next.cursor + 1)
       IN /\ cand' = WithCandidates(page, "sparse")
          /\ next' = [Listed(page) EXCEPT
                        !.cursor = CHOOSE m \in page \cup {@} : \A i \in page \cup {@} : i <= m]
          /\ pages' = 0 /\ pc' = "enrich"
    /\ UNCHANGED <<world, dbVars, memory, todo, queued, moves, crashes>>

\* One page of GET /repositories?since=cursor: sparse observations of the next public
\* repositories; the listing ends when there are no more.
SequentialPage ==
    /\ pc = "sequential" /\ next.cursor > 0 /\ pages < PAGES
    /\ LET page == PageAfter(next.cursor)
       IN /\ cand' = WithCandidates(page, "sparse")
          /\ next' = [Listed(page) EXCEPT
                        !.cursor = CHOOSE m \in page \cup {@} : \A i \in page \cup {@} : i <= m]
          /\ IF Cardinality(page) = PAGE_SIZE
             THEN pages' = pages + 1 /\ pc' = pc
             ELSE pages' = 0 /\ pc' = "enrich"
    /\ UNCHANGED <<world, dbVars, memory, todo, queued, moves, crashes>>

\* enrichment_candidates.
SparseRows == {i \in Ids : stored[i] = "public" /\ ~complete[i]}

\* Enrichment: the first pending references, then sparse rows and sparse candidates up
\* to the budget.
PlanEnrichment ==
    /\ pc = "enrich"
    /\ \E rest \in SUBSET Ids :
        LET refs == FirstOf(ENRICH, next.pending)
            sparse == (SparseRows \cup {i \in Ids : cand[i] = "sparse"}) \ refs
        IN /\ rest \subseteq sparse
           /\ Cardinality(refs \cup rest) = Least(ENRICH, Cardinality(refs \cup sparse))
           /\ refs \cup rest # {}
           /\ todo' = refs \cup rest
    /\ pc' = "enriching"
    /\ UNCHANGED <<world, dbVars, memory, next, cand, pages, queued, moves, crashes>>

\* Mutant: a reference leaves the queue when it is requested, whatever the answer.
EnrichFetch_Taken(i) ==
    /\ pc = "enriching" /\ i \in todo
    /\ next' = [next EXCEPT !.pending = @ \ {i}]
    /\ \/ /\ world[i] = "public"
          /\ cand' = WithCandidates({i}, "complete")
          /\ todo' = todo \ {i}
       \/ /\ cand' = cand
          /\ todo' = {}
    /\ pc' = IF todo' = {} THEN "watch" ELSE pc
    /\ UNCHANGED <<world, dbVars, memory, pages, queued, moves, crashes>>

\* Fetching a repository settles its reference; the first error ends the source.
EnrichFetch(i) ==
    /\ pc = "enriching" /\ i \in todo
    /\ \E answer \in Answers(i) :
       \/ /\ answer = "public"
          /\ next' = [next EXCEPT !.pending = @ \ {i}] /\ queued' = queued
          /\ cand' = WithCandidates({i}, "complete")
          /\ todo' = todo \ {i}
       \/ /\ answer = "private"
          /\ next' = [next EXCEPT !.pending = @ \ {i}] /\ queued' = queued \ {i}
          /\ cand' = cand
          /\ todo' = todo \ {i}
       \/ /\ answer = "gone"
          /\ next' = [next EXCEPT !.pending = @ \ {i}] /\ queued' = queued \ {i}
          /\ cand' = cand
          /\ todo' = {}
       \/ /\ answer = "error"
          /\ next' = next /\ queued' = queued /\ cand' = cand
          /\ todo' = {}
    /\ pc' = IF todo' = {} THEN "watch" ELSE pc
    /\ UNCHANGED <<world, dbVars, memory, pages, moves, crashes>>

\* due_watched: some of the watched public rows are due.
PlanWatch ==
    /\ pc = "watch"
    /\ \E due \in SUBSET {i \in Ids : stored[i] = "public" /\ watched[i]} :
        /\ due # {} /\ Cardinality(due) <= WATCH
        /\ todo' = due
    /\ pc' = "watching"
    /\ UNCHANGED <<world, dbVars, memory, next, cand, pages, queued, moves, crashes>>

\* A watched repository that is no longer public is quarantined at once, outside the
\* cycle's commit; a 404 or another error also ends the source.
WatchFetch(i) ==
    /\ pc = "watching" /\ i \in todo
    /\ \E answer \in Answers(i) :
       \/ /\ answer = "public"
          /\ cand' = WithCandidates({i}, "complete")
          /\ todo' = todo \ {i}
          /\ stored' = stored
       \/ /\ answer \in {"private", "gone"}
          /\ stored' = [stored EXCEPT ![i] = "quarantined"]
          /\ cand' = cand
          /\ todo' = IF answer = "gone" THEN {} ELSE todo \ {i}
       \/ /\ answer = "error"
          /\ cand' = cand /\ stored' = stored
          /\ todo' = {}
    /\ pc' = IF todo' = {} THEN "commit" ELSE pc
    /\ UNCHANGED <<world, complete, watched, saved, memory, next, pages, queued, moves, crashes>>

\* Mutant: the stored row is not read.
Refused_Never == FALSE

\* Database::ingest refuses the whole batch for one candidate that safe_repo refuses, as
\* observed or as stored: a stored private row.  The assessments are the engine's own.
Refused == \E i \in Candidates : i \in Unsafe \/ stored[i] = "quarantined"

Commit ==
    /\ pc = "commit" /\ ~Refused
    /\ stored' = [i \in Ids |-> IF i \in Candidates THEN "public" ELSE stored[i]]
    /\ complete' = [i \in Ids |-> complete[i] \/ cand[i] = "complete"]
    /\ saved' = next
    /\ CycleEnds(next)
    /\ UNCHANGED <<world, watched, moves, crashes>>

\* Mutant: the checkpoint is saved although the data are refused.
CommitRefused_Saves ==
    /\ pc = "commit" /\ Refused
    /\ saved' = next
    /\ CycleEnds(next)
    /\ UNCHANGED <<world, stored, complete, watched, moves, crashes>>

\* The transaction is rolled back and run_cycle returns the error.
CommitRefused ==
    /\ pc = "commit" /\ Refused
    /\ CycleEnds(memory)
    /\ UNCHANGED <<world, dbVars, moves, crashes>>

-----------------------------------------------------------------------------
\* Mutant: the cycle works on the engine's state in place.
Cancel_InPlace ==
    /\ pc # "idle" /\ crashes < MaxCrashes
    /\ CycleEnds(next)
    /\ crashes' = crashes + 1
    /\ UNCHANGED <<world, dbVars, moves>>

\* The cycle's future is dropped at an await: the engine and its state stay.
Cancel ==
    /\ pc # "idle" /\ crashes < MaxCrashes
    /\ CycleEnds(memory)
    /\ crashes' = crashes + 1
    /\ UNCHANGED <<world, dbVars, moves>>

\* The process dies; Engine::new loads the checkpoint from SQLite.
Restart ==
    /\ crashes < MaxCrashes
    /\ crashes' = crashes + 1
    /\ CycleEnds(saved)
    /\ UNCHANGED <<world, dbVars, moves>>

Move(i) ==
    /\ moves < MaxMoves
    /\ moves' = moves + 1
    /\ \E v \in {"public", "private", "gone"} \ {world[i]} : world' = [world EXCEPT ![i] = v]
    /\ UNCHANGED <<dbVars, memory, cycleVars, crashes>>

SetWatched(i) ==
    /\ stored[i] = "public"
    /\ watched' = [watched EXCEPT ![i] = ~@]
    /\ UNCHANGED <<world, stored, complete, saved, memory, cycleVars, moves, crashes>>

Init ==
    /\ world = [i \in Ids |-> "public"]
    /\ stored = [i \in Ids |-> "none"]
    /\ complete = [i \in Ids |-> FALSE]
    /\ watched = [i \in Ids |-> FALSE]
    /\ saved = Blank /\ memory = Blank /\ next = Blank
    /\ cand = NoCandidates
    /\ pc = "idle" /\ todo = {} /\ pages = 0 /\ queued = {}
    /\ moves = 0 /\ crashes = 0

Sources ==
    \/ SkipSource \/ EventsOk \/ SearchPage \/ Anchor \/ SequentialPage
    \/ PlanEnrichment \/ PlanWatch
    \/ \E i \in Ids : EnrichFetch(i) \/ WatchFetch(i)

Next ==
    \/ StartCycle \/ Sources \/ Commit \/ CommitRefused
    \/ Cancel \/ Restart
    \/ \E i \in Ids : Move(i) \/ SetWatched(i)

Spec == Init /\ [][Next]_vars

\* Cycles are started again and again and every request ends; the sequential listing
\* does not fail for ever.
FairSpec ==
    /\ Spec
    /\ WF_vars(StartCycle \/ Sources \/ Commit \/ CommitRefused)
    /\ SF_vars(SequentialPage)

-----------------------------------------------------------------------------
TypeOK ==
    /\ world \in [Ids -> {"public", "private", "gone"}]
    /\ stored \in [Ids -> {"none", "public", "quarantined"}]
    /\ complete \in [Ids -> BOOLEAN] /\ watched \in [Ids -> BOOLEAN]
    /\ saved \in Checkpoint /\ memory \in Checkpoint /\ next \in Checkpoint
    /\ cand \in [Ids -> {"none", "sparse", "complete"}]
    /\ pc \in {"idle", "events", "search", "sequential", "enrich", "enriching",
               "watch", "watching", "commit"}
    /\ todo \subseteq Ids /\ pages \in 0..PAGES /\ queued \subseteq Ids
    /\ moves \in 0..MaxMoves /\ crashes \in 0..MaxCrashes

\* Discovery state never runs ahead of the data: whatever a page behind the saved cursor
\* or watermark listed is in the database, after any cancellation, crash or rollback.
DataBehindCursor == \A i \in saved.listed : stored[i] # "none"

\* A commit leaves each event reference its cycle had in the queue in the persistent queue
\* or with its repository stored, unless GitHub answered that it is not public; nothing
\* but a commit takes a reference off the persistent queue.
ReferencesAreKept ==
    [][/\ Commit => \A i \in queued : i \in saved'.pending \/ stored'[i] # "none"
       /\ ~Commit => saved.pending \subseteq saved'.pending]_vars

\* The engine's state is the stored one: a failed or cancelled cycle leaves no trace in
\* memory that the next cycle would build on.  And it can be loaded again: the queue of
\* references never outgrows what validate_state accepts (engine.rs 156-170, 632-675).
MemoryIsSaved ==
    /\ TypeOK
    /\ memory = saved
    /\ Cardinality(saved.pending) <= MAX_PENDING

\* A quarantined repository stays quarantined, even when a listing returns it again.
QuarantineIsFinal ==
    [][\A i \in Ids : stored[i] = "quarantined" => stored'[i] = "quarantined"]_vars

\* Repositories that refuse the commit of every cycle that lists, searches or enriches
\* them: public at GitHub, but quarantined here or with a name that looks like a secret.
Barred == \E j \in Public : stored[j] = "quarantined" \/ j \in Unsafe

\* Every public repository after the saved cursor is eventually stored or no longer
\* public, although requests fail, cycles are cancelled and commits are refused - unless
\* a repository that ingest refuses stays public: it may be in every later cycle, and
\* then no source advances any more.  Without one, refused commits come to an end.  The
\* cursor is anchored at a repository, so none before the second is ever after it.
SequentialCatchesUp ==
    \A i \in 2..N :
        \/ <>[]Barred
        \/ (world[i] = "public" /\ saved.cursor \in 1..(i - 1)) ~>
           (world[i] # "public" \/ stored[i] # "none")

\* What the log says when a source fails (engine.rs 633): "source failed independently;
\* completed pages will be committed with their data".  A cycle that comes to its commit
\* stores what its listings returned.
PagesAreCommitted ==
    [][pc = "commit" /\ pc' = "idle" /\ crashes' = crashes =>
          next.listed \subseteq saved'.listed]_vars
=============================================================================
