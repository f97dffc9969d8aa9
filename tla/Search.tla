------------------------------- MODULE Search -------------------------------
(***************************************************************************)
(* The search source of src/src/engine.rs: collect_search and              *)
(* apply_search_page walk a queue of time windows over GitHub's search     *)
(* index, split the saturated ones and advance a watermark once the queue  *)
(* is empty.  The queue, the watermark and the repositories listed are     *)
(* saved together by the cycle's commit; a cancelled or failed cycle goes  *)
(* back to what was saved.                                                 *)
(*                                                                         *)
(* GitHub, as the requests use it: a repository appears in the index some  *)
(* time after it was created; a query returns the repositories created in  *)
(* an inclusive range of seconds, sorted by update time, latest first, a   *)
(* page at a time, of the first CAP only.                                  *)
(*                                                                         *)
(* A configuration may have more queries than a checkpoint may have        *)
(* windows, or longer ones than it may hold: nothing rejects it.           *)
(***************************************************************************)
EXTENDS Integers, Sequences, SequencesExt, FiniteSets

CONSTANTS
    Repos,          \* repository ids
    Queries,        \* the configured queries, each as the set of repositories it matches
    Unsendable,     \* queries that public_query refuses: over 4096 bytes with their range, an OR
    TooLong,        \* queries that validate_state refuses: over 4096 bytes
    START,          \* the initial watermark
    SETTLE,         \* a pass ends this long before now (120 s)
    OVERLAP,        \* SEARCH_OVERLAP_SECONDS (600)
    CAP,            \* results the index returns for a query (1000)
    PAGE,           \* results on a page (100)
    MAX_WINDOWS,    \* MAX_SEARCH_WINDOWS (512)
    MAX_PAGES,      \* max_pages_per_cycle
    LAG,            \* a repository is in the index this long after its creation
    Horizon,        \* bound: the last second
    MaxTouches,     \* bound: updates of a repository in the index
    MaxDeletes,     \* bound: repositories that leave the index
    MaxAborts       \* bound: cancellations, crashes and refused commits

ASSUME SearchAssumption ==
    /\ IsFiniteSet(Repos) /\ Queries \in Seq(SUBSET Repos) /\ Queries # <<>>
    /\ SETTLE \in Nat /\ OVERLAP \in Nat /\ START \in OVERLAP..Horizon
    /\ PAGE \in Nat \ {0} /\ CAP \in Nat \ {0} /\ CAP % PAGE = 0
    /\ Unsendable \subseteq DOMAIN Queries /\ TooLong \subseteq Unsendable
    /\ MAX_WINDOWS \in Nat /\ MAX_PAGES \in Nat \ {0}
    /\ LAG \in Nat /\ LAG <= SETTLE + OVERLAP
    /\ Horizon \in Nat /\ MaxTouches \in Nat /\ MaxDeletes \in Nat /\ MaxAborts \in Nat

VARIABLES
    now,        \* wall clock in seconds
    born,       \* creation time of a repository, Unborn before, None once it is deleted
    index,      \* repositories in the index
    earlier,    \* for each, those in the index that were updated before it
    state,      \* the running cycle's checkpoint
    saved,      \* the checkpoint in SQLite and in Engine.state
    pc,         \* "idle", "search" or "commit"; "refused" if the engine does not start
    pages,      \* pages fetched in this cycle
    torn,       \* history: repositories updated while a window was between two pages
    touches, deletes, aborts

world == <<now, born, index, earlier, torn, touches, deletes>>
source == <<state, saved, pc, pages, aborts>>
vars == <<world, source>>

-----------------------------------------------------------------------------
Time == 0..Horizon
Unborn == Horizon + 1
None == 0 - 1

\* SearchWindow; query_index is the position of its query.
Window == [start: Time, end: Time, page: 1..(CAP \div PAGE),
           query_index: DOMAIN Queries, expected_total: {None} \cup 0..CAP]

\* AppState: watermark, target (search_target_end, None when empty) and windows; listed
\* is the history of the repositories inserted as candidates.
Checkpoint == [watermark: Time, target: {None} \cup Time, windows: Seq(Window),
               listed: SUBSET Repos]
Start == [watermark |-> START, target |-> None, windows |-> <<>>, listed |-> {}]

window == state.windows[1]

\* Everything GitHub's index has for a window.  The place of a repository in what is returned
\* counts it and those updated after it.
Hits(w) == {r \in index : r \in Queries[w.query_index] /\ born[r] \in w.start..w.end}
Total == Cardinality(Hits(window))
Place(w, r) == Cardinality(Hits(w) \ earlier[r])
PageOf(w) == {r \in Hits(w) : Place(w, r) \in (w.page - 1) * PAGE + 1 .. w.page * PAGE}

-----------------------------------------------------------------------------
(***************************************************************************)
(* GitHub and time.                                                        *)
(***************************************************************************)
Tick ==
    /\ now < Horizon
    /\ \A r \in Repos : born[r] \in 0..(now - LAG) => r \in index
    /\ now' = now + 1
    /\ UNCHANGED <<born, index, earlier, torn, touches, deletes, source>>

Create(r) ==
    /\ born[r] = Unborn
    /\ born' = [born EXCEPT ![r] = now]
    /\ UNCHANGED <<now, index, earlier, torn, touches, deletes, source>>

Index(r) ==
    /\ born[r] \in 0..now /\ r \notin index
    /\ index' = index \cup {r}
    /\ earlier' = [earlier EXCEPT ![r] = index]
    /\ UNCHANGED <<now, born, torn, touches, deletes, source>>

\* A repository is updated and moves to the front of every result.
BetweenPages == \E s \in {state, saved} : \E i \in DOMAIN s.windows : s.windows[i].page > 1
Touch(r) ==
    /\ touches < MaxTouches
    /\ r \in index /\ earlier[r] # index \ {r}
    /\ earlier' = [q \in Repos |-> IF q = r THEN index \ {r} ELSE earlier[q] \ {r}]
    /\ touches' = touches + 1
    /\ torn' = IF BetweenPages THEN torn \cup {r} ELSE torn
    /\ UNCHANGED <<now, born, index, deletes, source>>

\* A repository is deleted or made private and leaves the index.
Delete(r) ==
    /\ deletes < MaxDeletes
    /\ r \in index
    /\ index' = index \ {r}
    /\ earlier' = [q \in Repos |-> IF q = r THEN {} ELSE earlier[q] \ {r}]
    /\ born' = [born EXCEPT ![r] = None]
    /\ deletes' = deletes + 1
    /\ UNCHANGED <<now, torn, touches, source>>

-----------------------------------------------------------------------------
(***************************************************************************)
(* The source.                                                             *)
(***************************************************************************)

\* An empty queue becomes one window per query, from the watermark to a little before
\* now; a queue left by an earlier cycle is continued as it is.
StartSearch ==
    /\ pc = "idle"
    /\ IF state.windows # <<>> THEN state' = state
       ELSE /\ state.watermark < now - SETTLE
            /\ state' = [state EXCEPT
                    !.target = now - SETTLE,
                    !.windows = [q \in DOMAIN Queries |->
                        [start |-> state.watermark, end |-> now - SETTLE, page |-> 1,
                         query_index |-> q, expected_total |-> None]]]
    /\ pc' = "search" /\ pages' = 0
    /\ UNCHANGED <<world, saved, aborts>>

\* Every request is preceded by the loop's condition and, before anything is sent, by the
\* client's look at the query; an error ends the source.
Fetching == /\ pc = "search" /\ state.windows # <<>> /\ pages < MAX_PAGES
            /\ window.query_index \notin Unsendable
Failed == pc' = "commit" /\ pages' = pages + 1 /\ UNCHANGED <<world, saved, aborts>>
Fetched == pc' = pc /\ pages' = pages + 1 /\ UNCHANGED <<world, saved, aborts>>

\* Mutant: the limit of the queue is forgotten.
CanSplit_Unlimited(w) == w.end - w.start > 1

CanSplit(w) == w.end - w.start > 1 /\ Len(state.windows) < MAX_WINDOWS

\* Mutant: the halves do not share the middle second.
Halves_Apart(w) ==
    LET mid == w.start + (w.end - w.start) \div 2
        fresh == [w EXCEPT !.page = 1, !.expected_total = None]
    IN << [fresh EXCEPT !.end = mid], [fresh EXCEPT !.start = mid + 1] >>

Halves(w) ==
    LET mid == w.start + (w.end - w.start) \div 2
        fresh == [w EXCEPT !.page = 1, !.expected_total = None]
    IN << [fresh EXCEPT !.end = mid], [fresh EXCEPT !.start = mid] >>

\* Saturated results, or results GitHub calls incomplete, split the window.
Split(incomplete) ==
    /\ Fetching /\ (incomplete \/ Total > CAP)
    /\ CanSplit(window)
    /\ state' = [state EXCEPT !.windows = Halves(window) \o Tail(@)]
    /\ Fetched

\* The window can't be split: it is kept and blocks the queue.
Blocked(incomplete) ==
    /\ Fetching /\ (incomplete \/ Total > CAP)
    /\ ~CanSplit(window)
    /\ state' = state
    /\ Failed

Usable == Fetching /\ Total <= CAP

\* Mutant: the total is compared on the first page only.
Changed_Never == FALSE

\* The total of the previous page is not the total of this one.
Changed == window.expected_total \notin {None, Total}

Requeued(w) == [state.windows EXCEPT ![1] = w]

\* Mutant: the window starts again, but with the total it no longer has.
TotalChanged_Kept ==
    /\ Usable /\ Changed
    /\ state' = [state EXCEPT !.windows = Requeued([window EXCEPT !.page = 1])]
    /\ Failed

\* The total differs from the one of the previous page: the window starts again.
TotalChanged ==
    /\ Usable /\ Changed
    /\ state' = [state EXCEPT
            !.windows = Requeued([window EXCEPT !.page = 1, !.expected_total = None])]
    /\ Failed

\* A page that is short of the total, or one without a link to the next: what it has is
\* kept, the window stays.
ShortPage ==
    /\ Usable /\ ~Changed
    /\ \E some \in SUBSET PageOf(window) :
        /\ some # PageOf(window) \/ window.page * PAGE < Total
        /\ state' = [state EXCEPT !.listed = @ \cup some]
    /\ Failed

NextPage ==
    /\ Usable /\ ~Changed
    /\ window.page * PAGE < Total
    /\ state' = [state EXCEPT
            !.listed = @ \cup PageOf(window),
            !.windows = Requeued([window EXCEPT !.page = @ + 1, !.expected_total = Total])]
    /\ Fetched

\* The window is done.  With the last one the watermark follows, a little behind.
Advanced(s) ==
    IF s.windows # <<>> THEN s
    ELSE [s EXCEPT !.watermark = s.target - OVERLAP, !.target = None]

LastPage ==
    /\ Usable /\ ~Changed
    /\ window.page * PAGE >= Total
    /\ state' = Advanced([state EXCEPT !.listed = @ \cup PageOf(window), !.windows = Tail(@)])
    /\ Fetched

\* The queue is empty, the page budget is spent, or a request fails.
EndSearch ==
    /\ pc = "search"
    /\ pc' = "commit"
    /\ UNCHANGED <<world, state, saved, pages, aborts>>

Commit ==
    /\ pc = "commit"
    /\ saved' = state
    /\ pc' = "idle" /\ pages' = 0
    /\ UNCHANGED <<world, state, aborts>>

\* A cancellation or a refused commit: the engine and its state stay.
Abort ==
    /\ pc \in {"search", "commit"} /\ aborts < MaxAborts
    /\ aborts' = aborts + 1
    /\ state' = saved
    /\ pc' = "idle" /\ pages' = 0
    /\ UNCHANGED <<world, saved>>

\* validate_state, of what a commit stored.
Loads(s) ==
    /\ Len(s.windows) <= MAX_WINDOWS
    /\ \A i \in DOMAIN s.windows :
        s.windows[i].start < s.windows[i].end /\ s.windows[i].query_index \notin TooLong
    /\ s.windows # <<>> => s.target # None

\* The process dies.  Engine::new takes up the stored checkpoint, or refuses it and does
\* not start, now or at any later time.
Restart ==
    /\ pc # "refused" /\ aborts < MaxAborts
    /\ aborts' = aborts + 1
    /\ state' = saved
    /\ pc' = (IF Loads(saved) THEN "idle" ELSE "refused") /\ pages' = 0
    /\ UNCHANGED <<world, saved>>

-----------------------------------------------------------------------------
Init ==
    /\ now = START
    /\ born = [r \in Repos |-> Unborn]
    /\ index = {} /\ earlier = [r \in Repos |-> {}]
    /\ state = Start /\ saved = Start
    /\ pc = "idle" /\ pages = 0 /\ torn = {} /\ touches = 0 /\ deletes = 0 /\ aborts = 0

GitHub == Tick \/ \E r \in Repos : Create(r) \/ Index(r) \/ Touch(r) \/ Delete(r)

Response ==
    \/ \E incomplete \in BOOLEAN : Split(incomplete) \/ Blocked(incomplete)
    \/ TotalChanged \/ ShortPage \/ NextPage \/ LastPage

Next == GitHub \/ StartSearch \/ Response \/ EndSearch \/ Commit \/ Abort \/ Restart

Spec == Init /\ [][Next]_vars

\* Cycles follow each other and end; GitHub gives a complete answer again and again.
FairSpec ==
    /\ Spec
    /\ WF_vars(StartSearch) /\ WF_vars(EndSearch) /\ WF_vars(Commit)
    /\ SF_vars(Split(FALSE) \/ TotalChanged \/ NextPage \/ LastPage)

-----------------------------------------------------------------------------
TypeOK ==
    /\ now \in Time /\ born \in [Repos -> Time \cup {Unborn, None}]
    /\ index \subseteq Repos /\ earlier \in [Repos -> SUBSET index]
    /\ \A r, q \in index : q \in earlier[r] <=> q # r /\ r \notin earlier[q]
    /\ state \in Checkpoint /\ saved \in Checkpoint
    /\ torn \subseteq Repos
    /\ pc \in {"idle", "search", "commit", "refused"} /\ pages \in 0..MAX_PAGES
    /\ touches \in 0..MaxTouches /\ deletes \in 0..MaxDeletes /\ aborts \in 0..MaxAborts

\* Splitting goes depth first, so that the queue grows with the logarithm of the pass: at
\* most about thirty windows more than queries, for any range of dates.  Where the queries
\* leave less room than that, MAX_SEARCH_WINDOWS blocks a saturated window.
QueueIsShallow ==
    LET splits == Len(state.windows) - Len(Queries)
    IN splits > 0 => 2^(splits - 1) < state.target - state.watermark

\* A configuration of which validate_state accepts the windows a pass starts with.
Fits == Len(Queries) <= MAX_WINDOWS /\ TooLong = {}

\* The source does not spoil its own checkpoint: no split, dropped or repeated window,
\* update, cancellation or refused commit makes the next start refuse what was saved.  Only
\* the configuration can, with more queries than windows, or with a query that is too long;
\* and then too the windows are never more than those the pass started with, or the limit.
CheckpointLoads ==
    /\ TypeOK /\ QueueIsShallow
    /\ Fits => Loads(saved) /\ pc # "refused"
    /\ Len(saved.windows) <= MAX_WINDOWS \/ Len(saved.windows) <= Len(Queries)
    /\ \A i \in DOMAIN saved.windows : saved.windows[i].start < saved.windows[i].end

\* The watermark never passes a repository that was not listed, provided the index shows
\* it in time: not through the split of a saturated window, a changed total, an error in
\* the middle of a window or a cycle that is thrown away (engine.rs 489-563).  Only one that
\* is itself updated between two pages may be missed: it moves in front of the page that
\* was read (crawler.rs 494, sort=updated), while the others move back.
NoSilentGap ==
    \A r \in index :
        born[r] < saved.watermark /\ (\E q \in DOMAIN Queries : r \in Queries[q])
            => r \in saved.listed \cup torn

\* A checkpoint's queue, for the current query and every later one: windows that follow each
\* other to the target without a gap, those of later queries from the watermark on.
Tiles(s) ==
    LET w == s.windows
        LastOf(i) == i = Len(w) \/ w[i + 1].query_index # w[i].query_index
    IN /\ \A i \in DOMAIN w :
            /\ w[i].end = IF LastOf(i) THEN s.target ELSE w[i + 1].start
            /\ i > 1 /\ LastOf(i - 1) => /\ w[i].start = s.watermark
                                         /\ w[i].query_index = w[i - 1].query_index + 1
       /\ w # <<>> => Last(w).query_index = Len(Queries)

\* The queue leaves no second out, however its windows are split, started again, finished,
\* saved and taken up by a later cycle (engine.rs 489-563).
QueueTiles == Tiles(state)

\* A pass ends, unless its next window can never be read: more repositories than GitHub
\* returns were created in a range too short to be split or with the queue at its limit,
\* or the client refuses its query.
Stuck ==
    /\ state.windows # <<>>
    /\ window.query_index \in Unsendable \/ (Total > CAP /\ ~CanSplit(window))
SearchDrains == state.windows # <<>> ~> (state.windows = <<>> \/ Stuck)
=============================================================================
