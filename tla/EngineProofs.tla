---------------------------- MODULE EngineProofs ----------------------------
(***************************************************************************)
(* Theorems about two parts of one engine that run beside each other:      *)
(* Cycle, for any number of repositories and every value of the limits,    *)
(* and then Jobs, for any rows, permits, threads and deadlines.  The two   *)
(* share no definition.                                                    *)
(***************************************************************************)
EXTENDS Cycle, Jobs, TLAPS, FiniteSetTheorems

(***************************************************************************)
(* Facts about sets of ids.                                                *)
(***************************************************************************)

LEMMA IdsAreNaturals == Ids \subseteq Nat /\ Ids \subseteq 0..N /\ IsFiniteSet(Ids)
<1>1. IsFiniteSet(Ids)
  BY CycleAssumption, FS_Interval DEF Ids
<1> QED
  BY <1>1, CycleAssumption DEF Ids

\* A non-empty set of naturals has a least element, so MinOf chooses one of them.
LEMMA LeastElement ==
    ASSUME NEW S, S \subseteq Nat, S # {}
    PROVE  \E i \in S : \A j \in S : i <= j
<1>1. PICK i \in S : \A j \in S : ~ (<<j, i>> \in OpToRel(<, Nat))
  BY NatLessThanWellFounded, WFMin
<1>2. ASSUME NEW j \in S PROVE i <= j
  <2>1. ~(j < i)
    BY <1>1 DEF OpToRel
  <2> QED
    BY <2>1
<1> QED
  BY <1>2

\* A non-empty set of naturals with an upper bound has a greatest element, which is what
\* the listing takes as its cursor.
LEMMA GreatestElement ==
    ASSUME NEW S, NEW b \in Nat, S \subseteq 0..b, S # {}
    PROVE  \E m \in S : \A i \in S : i <= m
<1> DEFINE Bounds == {n \in Nat : \A i \in S : i <= n}
<1>1. PICK m \in Bounds : \A n \in Bounds : m <= n
  <2>1. b \in Bounds
    OBVIOUS
  <2> QED
    BY <2>1, LeastElement
<1>2. m \in S
  <2> SUFFICES ASSUME m \notin S PROVE FALSE
    OBVIOUS
  <2>1. \A i \in S : i \in Nat /\ i <= m - 1
    OBVIOUS
  <2>2. m - 1 \in Nat
    <3>1. PICK i \in S : TRUE
      OBVIOUS
    <3> QED
      BY <2>1, <3>1
  <2>3. m - 1 \in Bounds
    BY <2>1, <2>2
  <2> QED
    BY <1>1, <2>3
<1> QED
  BY <1>2

\* The queue of references fits what validate_state accepts.
QueueFits(c) == Cardinality(c.pending) <= MAX_PENDING

LEMMA PendingIsFinite ==
    ASSUME NEW c \in Checkpoint
    PROVE  IsFiniteSet(c.pending) /\ Cardinality(c.pending) \in Nat
<1>1. c.pending \in SUBSET Ids
  BY DEF Checkpoint
<1> QED
  BY <1>1, IdsAreNaturals, FS_Subset, FS_CardinalityType

\* Taking a reference out of the queue leaves a checkpoint whose queue is no longer.
LEMMA Dequeue ==
    ASSUME NEW c \in Checkpoint, NEW i \in Ids
    PROVE  /\ [c EXCEPT !.pending = @ \ {i}] \in Checkpoint
           /\ QueueFits(c) => QueueFits([c EXCEPT !.pending = @ \ {i}])
<1>1. [c EXCEPT !.pending = @ \ {i}] \in Checkpoint
  BY DEF Checkpoint
<1>2. [c EXCEPT !.pending = @ \ {i}].pending = c.pending \ {i}
  BY DEF Checkpoint
<1>3. Cardinality(c.pending \ {i}) <= Cardinality(c.pending)
  <2>1. IsFiniteSet(c.pending) /\ Cardinality(c.pending) \in Nat
    BY PendingIsFinite
  <2>2. Cardinality(c.pending \ {i}) \in {Cardinality(c.pending), Cardinality(c.pending) - 1}
    BY <2>1, FS_RemoveElement
  <2> QED
    BY <2>1, <2>2
<1>4. Cardinality(c.pending \ {i}) \in Nat
  BY <1>1, <1>2, PendingIsFinite
<1> QED
  BY <1>1, <1>2, <1>3, <1>4, PendingIsFinite, CycleAssumption DEF QueueFits

(***************************************************************************)
(* The inductive invariant.  While a cycle runs, everything its copy of    *)
(* the checkpoint claims to have listed or settled is stored or among its  *)
(* candidates; the two become one at the commit.                           *)
(***************************************************************************)
Covered(i) == stored[i] # "none" \/ cand[i] # "none"

NextIsCovered ==
    pc # "idle" =>
        /\ \A i \in next.listed : Covered(i)
        /\ \A i \in queued : i \in next.pending \/ Covered(i)

\* memory stays within the limits, so the copies made of it do.
NextQueueFits == QueueFits(next)

IInv ==
    /\ MemoryIsSaved /\ DataBehindCursor
    /\ NextIsCovered /\ NextQueueFits

\* A source gives ids a candidate, and takes none away.
LEMMA WithCandidatesFacts ==
    ASSUME cand \in [Ids -> {"none", "sparse", "complete"}],
           NEW S, NEW kind \in {"sparse", "complete"}
    PROVE  /\ WithCandidates(S, kind) \in [Ids -> {"none", "sparse", "complete"}]
           /\ \A i \in Ids : i \in S \/ cand[i] # "none" => WithCandidates(S, kind)[i] # "none"
BY DEF WithCandidates

LEMMA BlankIsCheckpoint == Blank \in Checkpoint /\ QueueFits(Blank)
<1>1. Cardinality(Blank.pending) = 0
  BY FS_EmptySet DEF Blank
<1> QED
  BY <1>1, CycleAssumption DEF Blank, Checkpoint, QueueFits

LEMMA InitInvariant == Init => IInv
<1> SUFFICES ASSUME Init PROVE IInv
  OBVIOUS
<1>1. TypeOK
  BY BlankIsCheckpoint, CycleAssumption DEF Init, TypeOK, NoCandidates
<1> QED
  BY <1>1, BlankIsCheckpoint
     DEF Init, IInv, MemoryIsSaved, DataBehindCursor, NextIsCovered, NextQueueFits,
         QueueFits, Blank

\* What every step of a source does: the database's checkpoint and the engine's stay, and
\* the copy, its candidates and the rows change so that everything listed or settled
\* remains covered.
SourceStep ==
    /\ pc # "idle"
    /\ saved' = saved /\ memory' = memory
    /\ QueueFits(next')
    /\ next'.listed \subseteq Ids
    /\ \A i \in Ids : stored[i] # "none" => stored'[i] # "none"
    /\ \A i \in Ids : Covered(i) => Covered(i)'
    /\ \A i \in next'.listed : i \in next.listed \/ Covered(i)'
    /\ \A i \in queued' :
          \/ i \in queued /\ i \notin next.pending
          \/ i \in next'.pending \/ Covered(i)'

LEMMA SourceStepKeepsInvariant ==
    ASSUME IInv, SourceStep, TypeOK'
    PROVE  IInv'
<1>1. saved \in Checkpoint
  BY DEF IInv, MemoryIsSaved, TypeOK
<1>2. MemoryIsSaved'
  BY DEF IInv, MemoryIsSaved, SourceStep
<1>3. DataBehindCursor'
  BY <1>1 DEF IInv, DataBehindCursor, SourceStep, Checkpoint
<1>4. NextIsCovered'
  <2>1. next'.listed \subseteq Ids /\ queued' \subseteq Ids
    BY DEF SourceStep, TypeOK
  <2>2. ASSUME NEW i \in next'.listed PROVE Covered(i)'
    BY <2>1, <2>2 DEF IInv, NextIsCovered, SourceStep
  <2>3. ASSUME NEW i \in queued' PROVE i \in next'.pending \/ Covered(i)'
    BY <2>1, <2>3 DEF IInv, NextIsCovered, SourceStep
  <2> QED
    BY <2>2, <2>3 DEF NextIsCovered
<1>5. NextQueueFits'
  BY DEF SourceStep, NextQueueFits, QueueFits
<1> QED
  BY <1>2, <1>3, <1>4, <1>5 DEF IInv

\* A step that leaves the copy, the candidates and the rows alone.
LEMMA PlanningStep ==
    ASSUME IInv, pc # "idle", UNCHANGED <<dbVars, memory, next, cand, queued>>
    PROVE  SourceStep
<1>1. next \in Checkpoint
  BY DEF IInv, MemoryIsSaved, TypeOK
<1> QED
  BY <1>1 DEF IInv, NextQueueFits, SourceStep, dbVars, Covered, Checkpoint

LEMMA SkipStep == IInv /\ SkipSource => TypeOK' /\ SourceStep
<1> SUFFICES ASSUME IInv, SkipSource PROVE TypeOK' /\ SourceStep
  OBVIOUS
<1>1. pc # "idle" /\ UNCHANGED <<world, dbVars, memory, next, cand, queued, moves, crashes>>
  BY DEF SkipSource, Skip
<1>2. pc' \in {"search", "sequential", "enrich", "watch", "commit"} /\ todo' = {} /\ pages' = 0
  BY DEF SkipSource, Skip
<1> QED
  BY <1>1, <1>2, PlanningStep, CycleAssumption DEF IInv, MemoryIsSaved, TypeOK, dbVars

LEMMA EventsStep == IInv /\ EventsOk => TypeOK' /\ SourceStep
<1> SUFFICES ASSUME IInv, EventsOk PROVE TypeOK' /\ SourceStep
  OBVIOUS
<1>1. TypeOK /\ next \in Checkpoint
  BY DEF IInv, MemoryIsSaved, TypeOK
<1>2. PICK refs \in Feed, fit \in SUBSET Ids :
        /\ fit \subseteq refs \ next.pending
        /\ Cardinality(next.pending \cup fit) =
              Least(MAX_PENDING, Cardinality(next.pending \cup refs))
        /\ next' = [next EXCEPT !.pending = @ \cup fit]
        /\ queued' = queued \cup fit
  BY DEF EventsOk
<1>3. next' \in Checkpoint
  BY <1>1, <1>2 DEF Checkpoint
<1>4. next'.pending = next.pending \cup fit /\ next'.listed = next.listed
  BY <1>1, <1>2 DEF Checkpoint
<1>5. QueueFits(next')
  <2>1. next.pending \cup refs \in SUBSET Ids
    BY <1>1, <1>2 DEF Feed, Checkpoint
  <2>2. Cardinality(next.pending \cup refs) \in Nat
    BY <2>1, IdsAreNaturals, FS_Subset, FS_CardinalityType
  <2> QED
    BY <1>2, <1>4, <2>2, CycleAssumption DEF Least, QueueFits
<1>6. SourceStep
  BY <1>1, <1>2, <1>3, <1>4, <1>5 DEF EventsOk, SourceStep, dbVars, Covered, Checkpoint
<1> QED
  BY <1>1, <1>2, <1>3, <1>6 DEF EventsOk, TypeOK, dbVars

LEMMA SearchStep == IInv /\ SearchPage => TypeOK' /\ SourceStep
<1> SUFFICES ASSUME IInv, SearchPage PROVE TypeOK' /\ SourceStep
  OBVIOUS
<1>1. TypeOK /\ next \in Checkpoint
  BY DEF IInv, MemoryIsSaved, TypeOK
<1>2. PICK found \in Results : cand' = WithCandidates(found, "complete") /\ next' = Listed(found)
  BY DEF SearchPage
<1>3. found \subseteq Ids
  BY <1>2 DEF Results, Public
<1>4. /\ cand' \in [Ids -> {"none", "sparse", "complete"}]
      /\ \A i \in Ids : i \in found \/ cand[i] # "none" => cand'[i] # "none"
  BY <1>1, <1>2, WithCandidatesFacts DEF TypeOK
<1>5. /\ next' \in Checkpoint
      /\ next'.listed = next.listed \cup found
      /\ next'.pending = next.pending
  BY <1>1, <1>2, <1>3 DEF Listed, Checkpoint
<1>6. SourceStep
  BY <1>1, <1>3, <1>4, <1>5
     DEF IInv, NextQueueFits, QueueFits, SearchPage, SourceStep, dbVars, Covered, Checkpoint
<1>7. pages' \in 0..PAGES
  BY <1>1, CycleAssumption DEF SearchPage, TypeOK
<1> QED
  BY <1>1, <1>4, <1>5, <1>6, <1>7 DEF SearchPage, TypeOK, dbVars

LEMMA AnchorStep == IInv /\ Anchor => TypeOK' /\ SourceStep
<1> SUFFICES ASSUME IInv, Anchor PROVE TypeOK' /\ SourceStep
  OBVIOUS
<1>1. TypeOK /\ next \in Checkpoint
  BY DEF IInv, MemoryIsSaved, TypeOK
<1>2. MinOf(Candidates) \in 0..N
  <2>1. Candidates \subseteq Nat /\ Candidates # {} /\ Candidates \subseteq 0..N
    BY IdsAreNaturals DEF Anchor, Candidates
  <2>2. \E i \in Candidates : \A j \in Candidates : i <= j
    BY <2>1, LeastElement
  <2>3. MinOf(Candidates) \in Candidates
    BY <2>2 DEF MinOf
  <2> QED
    BY <2>1, <2>3
<1>3. next' = [next EXCEPT !.cursor = MinOf(Candidates)]
  BY DEF Anchor
<1>4. /\ next' \in Checkpoint
      /\ next'.listed = next.listed /\ next'.pending = next.pending
  BY <1>1, <1>2, <1>3 DEF Checkpoint
<1>5. SourceStep
  BY <1>1, <1>4
     DEF IInv, NextQueueFits, QueueFits, Anchor, SourceStep, dbVars, Covered, Checkpoint
<1> QED
  BY <1>1, <1>4, <1>5 DEF Anchor, TypeOK, dbVars

LEMMA SequentialStep == IInv /\ SequentialPage => TypeOK' /\ SourceStep
<1> SUFFICES ASSUME IInv, SequentialPage PROVE TypeOK' /\ SourceStep
  OBVIOUS
<1>1. TypeOK /\ next \in Checkpoint
  BY DEF IInv, MemoryIsSaved, TypeOK
<1> DEFINE page == PageAfter(next.cursor)
           seen == page \cup {next.cursor}
           top == CHOOSE m \in seen : \A i \in seen : i <= m
<1>2. page \subseteq Ids
  BY DEF PageAfter, FirstOf, Public
<1>3. top \in 0..N
  <2>1. next.cursor \in 0..N
    BY <1>1 DEF Checkpoint
  <2>2. seen \subseteq 0..N /\ seen # {}
    BY <1>2, <2>1, IdsAreNaturals
  <2>3. \E m \in seen : \A i \in seen : i <= m
    BY <2>2, GreatestElement, CycleAssumption
  <2>4. top \in seen
    BY <2>3
  <2> QED
    BY <2>2, <2>4
<1>4. cand' = WithCandidates(page, "sparse") /\ next' = [Listed(page) EXCEPT !.cursor = top]
  <2>1. Listed(page).cursor = next.cursor
    BY <1>1 DEF Listed, Checkpoint
  <2> QED
    BY <2>1 DEF SequentialPage
<1> HIDE DEF page, top
<1>5. /\ cand' \in [Ids -> {"none", "sparse", "complete"}]
      /\ \A i \in Ids : i \in page \/ cand[i] # "none" => cand'[i] # "none"
  BY <1>1, <1>4, WithCandidatesFacts DEF TypeOK
<1>6. /\ next' \in Checkpoint
      /\ next'.listed = next.listed \cup page
      /\ next'.pending = next.pending
  BY <1>1, <1>2, <1>3, <1>4 DEF Listed, Checkpoint
<1>7. SourceStep
  BY <1>1, <1>2, <1>5, <1>6
     DEF IInv, NextQueueFits, QueueFits, SequentialPage, SourceStep, dbVars, Covered, Checkpoint
<1>8. pages' \in 0..PAGES /\ pc' \in {"sequential", "enrich"}
  BY <1>1, CycleAssumption DEF SequentialPage, TypeOK
<1> QED
  BY <1>1, <1>5, <1>6, <1>7, <1>8 DEF SequentialPage, TypeOK, dbVars

LEMMA PlanStep == IInv /\ (PlanEnrichment \/ PlanWatch) => TypeOK' /\ SourceStep
<1> SUFFICES ASSUME IInv, PlanEnrichment \/ PlanWatch PROVE TypeOK' /\ SourceStep
  OBVIOUS
<1>1. TypeOK /\ next \in Checkpoint
  BY DEF IInv, MemoryIsSaved, TypeOK
<1>2. /\ pc # "idle" /\ pc' \in {"enriching", "watching"}
      /\ UNCHANGED <<world, dbVars, memory, next, cand, pages, queued, moves, crashes>>
  BY DEF PlanEnrichment, PlanWatch
<1>3. todo' \subseteq Ids
  <2>1. CASE PlanEnrichment
    <3>1. FirstOf(ENRICH, next.pending) \subseteq Ids
      BY <1>1 DEF FirstOf, Checkpoint
    <3> QED
      BY <2>1, <3>1 DEF PlanEnrichment
  <2>2. CASE PlanWatch
    BY <2>2 DEF PlanWatch
  <2> QED
    BY <2>1, <2>2
<1> QED
  BY <1>1, <1>2, <1>3, PlanningStep DEF TypeOK, dbVars

LEMMA EnrichStep ==
    ASSUME IInv, NEW i \in Ids, EnrichFetch(i)
    PROVE  TypeOK' /\ SourceStep
<1>1. TypeOK /\ next \in Checkpoint /\ QueueFits(next)
  BY DEF IInv, MemoryIsSaved, TypeOK, NextQueueFits
<1> DEFINE taken == [next EXCEPT !.pending = @ \ {i}]
<1>2. taken \in Checkpoint /\ QueueFits(taken)
  BY <1>1, Dequeue
<1>3. taken.pending = next.pending \ {i} /\ taken.listed = next.listed
  BY <1>1 DEF Checkpoint
<1> HIDE DEF taken
<1>4. /\ \/ next' = taken /\ cand' = WithCandidates({i}, "complete") /\ queued' = queued
         \/ next' = taken /\ cand' = cand /\ queued' = queued \ {i}
         \/ next' = next /\ cand' = cand /\ queued' = queued
      /\ todo' \subseteq todo /\ pc # "idle" /\ pc' \in {pc, "watch"}
      /\ UNCHANGED <<world, dbVars, memory, pages, moves, crashes>>
  BY DEF EnrichFetch, taken
<1>5. /\ next' \in Checkpoint /\ QueueFits(next') /\ queued' \subseteq queued
      /\ cand' \in [Ids -> {"none", "sparse", "complete"}]
      /\ \A j \in Ids : cand[j] # "none" => cand'[j] # "none"
      /\ next'.listed = next.listed
      /\ next.pending \ {i} \subseteq next'.pending
      /\ i \in next.pending => i \in next'.pending \/ cand'[i] # "none" \/ i \notin queued'
  BY <1>1, <1>2, <1>3, <1>4, WithCandidatesFacts DEF TypeOK
<1>6. SourceStep
  <2>1. \A j \in Ids : Covered(j) => Covered(j)'
    BY <1>4, <1>5 DEF Covered, dbVars
  <2>2. \A j \in queued' :
          \/ j \in queued /\ j \notin next.pending
          \/ j \in next'.pending \/ Covered(j)'
    BY <1>5 DEF Covered
  <2>3. next'.listed \subseteq Ids
    BY <1>5 DEF Checkpoint
  <2> QED
    BY <1>4, <1>5, <2>1, <2>2, <2>3 DEF SourceStep, dbVars
<1> QED
  BY <1>1, <1>4, <1>5, <1>6 DEF TypeOK, dbVars

LEMMA WatchStep ==
    ASSUME IInv, NEW i \in Ids, WatchFetch(i)
    PROVE  TypeOK' /\ SourceStep
<1>1. TypeOK /\ next \in Checkpoint /\ QueueFits(next)
  BY DEF IInv, MemoryIsSaved, TypeOK, NextQueueFits
<1>2. /\ \/ cand' = WithCandidates({i}, "complete") /\ stored' = stored
         \/ cand' = cand /\ stored' = [stored EXCEPT ![i] = "quarantined"]
         \/ cand' = cand /\ stored' = stored
      /\ todo' \subseteq todo /\ pc # "idle" /\ pc' \in {pc, "commit"}
      /\ UNCHANGED <<world, complete, watched, saved, memory, next, pages, queued, moves, crashes>>
  BY DEF WatchFetch
<1>3. /\ cand' \in [Ids -> {"none", "sparse", "complete"}]
      /\ stored' \in [Ids -> {"none", "public", "quarantined"}]
      /\ \A j \in Ids : cand[j] # "none" => cand'[j] # "none"
      /\ \A j \in Ids : stored[j] # "none" => stored'[j] # "none"
  BY <1>1, <1>2, WithCandidatesFacts DEF TypeOK
<1>4. SourceStep
  BY <1>1, <1>2, <1>3 DEF SourceStep, Covered, Checkpoint
<1> QED
  BY <1>1, <1>2, <1>3, <1>4 DEF TypeOK

LEMMA SourcesKeepInvariant == IInv /\ Sources => IInv'
<1> SUFFICES ASSUME IInv, Sources PROVE IInv'
  OBVIOUS
<1>1. TypeOK' /\ SourceStep
  BY SkipStep, EventsStep, SearchStep, AnchorStep, SequentialStep, PlanStep, EnrichStep,
     WatchStep DEF Sources
<1> QED
  BY <1>1, SourceStepKeepsInvariant

\* Whatever makes the next copy the saved checkpoint leaves it with no claim that is not
\* stored, and with no reference but those of its queue.
LEMMA SavedIsCovered ==
    ASSUME MemoryIsSaved', DataBehindCursor', next' = saved', queued' \subseteq next'.pending
    PROVE  NextIsCovered' /\ NextQueueFits'
BY DEF MemoryIsSaved, DataBehindCursor, NextIsCovered, NextQueueFits, QueueFits, Covered

\* The copy a cycle starts from is the saved checkpoint.
LEMMA StartCycleKeepsInvariant == IInv /\ StartCycle => IInv'
<1> SUFFICES ASSUME IInv, StartCycle PROVE IInv'
  OBVIOUS
<1>1. TypeOK' /\ MemoryIsSaved'
  BY CycleAssumption
     DEF IInv, MemoryIsSaved, TypeOK, StartCycle, dbVars, NoCandidates, Checkpoint
<1>2. /\ next' = saved' /\ saved' = saved /\ stored' = stored
      /\ queued' \subseteq next'.pending
  BY DEF IInv, MemoryIsSaved, StartCycle, dbVars
<1>3. DataBehindCursor'
  BY <1>2 DEF IInv, DataBehindCursor
<1> QED
  BY <1>1, <1>2, <1>3, SavedIsCovered DEF IInv

\* One transaction stores the candidates and the checkpoint that counts on them.
LEMMA CommitKeepsInvariant == IInv /\ Commit => IInv'
<1> SUFFICES ASSUME IInv, Commit PROVE IInv'
  OBVIOUS
<1>1. TypeOK /\ next \in Checkpoint
  BY DEF IInv, MemoryIsSaved, TypeOK
<1>2. \A i \in Ids : Covered(i) => stored'[i] # "none"
  BY DEF Commit, Covered, Candidates
<1>3. TypeOK'
  BY <1>1, CycleAssumption DEF Commit, CycleEnds, NoCandidates, TypeOK
<1>4. MemoryIsSaved' /\ next' = saved' /\ queued' \subseteq next'.pending
  BY <1>3 DEF IInv, MemoryIsSaved, NextQueueFits, QueueFits, Commit, CycleEnds
<1>5. DataBehindCursor'
  BY <1>1, <1>2 DEF IInv, NextIsCovered, DataBehindCursor, Commit, Checkpoint
<1> QED
  BY <1>4, <1>5, SavedIsCovered DEF IInv

\* A refused commit, a cancellation and a crash leave the data and their checkpoint as
\* they are and abandon the copy.
LEMMA AbandonKeepsInvariant == IInv /\ (CommitRefused \/ Cancel \/ Restart) => IInv'
<1> SUFFICES ASSUME IInv, CommitRefused \/ Cancel \/ Restart PROVE IInv'
  OBVIOUS
<1>1. /\ CycleEnds(saved)
      /\ crashes' \in {crashes, crashes + 1} /\ crashes' <= MaxCrashes
      /\ UNCHANGED <<world, dbVars, moves>>
  BY CycleAssumption DEF CommitRefused, Cancel, Restart, IInv, MemoryIsSaved, TypeOK
<1>2. TypeOK' /\ MemoryIsSaved' /\ next' = saved' /\ queued' \subseteq next'.pending
  BY <1>1, CycleAssumption
     DEF IInv, MemoryIsSaved, TypeOK, CycleEnds, NoCandidates, dbVars
<1>3. DataBehindCursor'
  BY <1>1 DEF IInv, DataBehindCursor, dbVars
<1> QED
  BY <1>2, <1>3, SavedIsCovered DEF IInv

\* What GitHub and the user do meanwhile touches neither.
LEMMA WorldKeepsInvariant ==
    ASSUME IInv, NEW i \in Ids, Move(i) \/ SetWatched(i)
    PROVE  IInv'
<1>1. UNCHANGED <<stored, saved, memory, next, cand, pc, queued>>
  BY DEF Move, SetWatched, dbVars, cycleVars
<1>2. TypeOK' /\ MemoryIsSaved'
  <2>1. CASE Move(i)
    <3>1. PICK v \in {"public", "private", "gone"} : world' = [world EXCEPT ![i] = v]
      BY <2>1 DEF Move
    <3> QED
      BY <2>1, <3>1, CycleAssumption
         DEF Move, IInv, MemoryIsSaved, TypeOK, dbVars, cycleVars
  <2>2. CASE SetWatched(i)
    BY <2>2 DEF SetWatched, IInv, MemoryIsSaved, TypeOK, cycleVars
  <2> QED
    BY <2>1, <2>2
<1> QED
  BY <1>1, <1>2 DEF IInv, DataBehindCursor, NextIsCovered, NextQueueFits, QueueFits, Covered

LEMMA NextKeepsInvariant == IInv /\ [Next]_vars => IInv'
<1>1. IInv /\ UNCHANGED vars => IInv'
  BY DEF vars, cycleVars, dbVars, IInv, MemoryIsSaved, TypeOK, DataBehindCursor,
         NextIsCovered, NextQueueFits, QueueFits, Covered
<1> QED
  BY <1>1, SourcesKeepInvariant, StartCycleKeepsInvariant, CommitKeepsInvariant,
     AbandonKeepsInvariant, WorldKeepsInvariant DEF Next

\* Whatever answers come and wherever the cycle is cut off, the inductive invariant holds.
THEOREM CycleInvariant == Spec => []IInv
BY InitInvariant, NextKeepsInvariant, PTL DEF Spec

(***************************************************************************)
(* The properties.                                                         *)
(***************************************************************************)

\* Everything the stored cursor and watermarks claim to be behind them is in the
\* database, however many cycles were cancelled, crashed or refused.
THEOREM DataAlwaysBehindCursor == Spec => []DataBehindCursor
<1>1. IInv => DataBehindCursor
  BY DEF IInv
<1> QED
  BY <1>1, CycleInvariant, PTL

\* No reference of the event feed is ever lost: a commit leaves it in the queue or with
\* its repository stored, unless it was refused, and nothing else touches the queue.
THEOREM ReferencesAreAlwaysKept == Spec => ReferencesAreKept
<1> DEFINE Kept == /\ Commit => \A i \in queued : i \in saved'.pending \/ stored'[i] # "none"
                   /\ ~Commit => saved.pending \subseteq saved'.pending
<1>1. IInv /\ [Next]_vars => [Kept]_vars
  <2> SUFFICES ASSUME IInv, Next PROVE Kept
    OBVIOUS
  <2>1. ASSUME Commit, NEW i \in queued
        PROVE  i \in saved'.pending \/ stored'[i] # "none"
    <3>1. i \in Ids /\ (i \in next.pending \/ Covered(i))
      BY <2>1 DEF IInv, NextIsCovered, MemoryIsSaved, TypeOK, Commit
    <3> QED
      BY <2>1, <3>1 DEF Commit, Covered, Candidates
  <2>2. ASSUME ~Commit PROVE saved' = saved
    BY <2>2 DEF Next, Sources, StartCycle, SkipSource, Skip, EventsOk, SearchPage, Anchor,
                SequentialPage, PlanEnrichment, EnrichFetch, PlanWatch, WatchFetch,
                CommitRefused, Cancel, Restart, Move, SetWatched, dbVars
  <2> QED
    BY <2>1, <2>2
<1> QED
  BY <1>1, CycleInvariant, PTL DEF Spec, ReferencesAreKept

\* Every reachable state is well typed, the engine's state is the stored one, and the
\* stored queue is never longer than what the next start accepts.
THEOREM MemoryIsAlwaysSaved == Spec => []MemoryIsSaved
<1>1. IInv => MemoryIsSaved
  BY DEF IInv
<1> QED
  BY <1>1, CycleInvariant, PTL

\* No commit, fetch or restart takes a repository out of quarantine.
THEOREM QuarantineIsAlwaysFinal == Spec => QuarantineIsFinal
<1>1. IInv /\ [Next]_vars =>
        [\A i \in Ids : stored[i] = "quarantined" => stored'[i] = "quarantined"]_vars
  <2> SUFFICES ASSUME IInv, Next, NEW i \in Ids, stored[i] = "quarantined"
               PROVE  stored'[i] = "quarantined"
    OBVIOUS
  <2>1. stored \in [Ids -> {"none", "public", "quarantined"}]
    BY DEF IInv, MemoryIsSaved, TypeOK
  <2>2. CASE Commit
    BY <2>2 DEF Commit, Refused
  <2>3. ASSUME NEW j \in Ids, WatchFetch(j) PROVE stored'[i] = "quarantined"
    BY <2>1, <2>3 DEF WatchFetch
  <2>4. CASE ~Commit /\ ~ \E j \in Ids : WatchFetch(j)
    <3>1. stored' = stored
      BY <2>4 DEF Next, Sources, StartCycle, SkipSource, Skip, EventsOk, SearchPage, Anchor,
                  SequentialPage, PlanEnrichment, EnrichFetch, PlanWatch, CommitRefused,
                  Cancel, Restart, Move, SetWatched, dbVars
    <3> QED
      BY <3>1
  <2> QED
    BY <2>2, <2>3, <2>4
<1> QED
  BY <1>1, CycleInvariant, PTL DEF Spec, QuarantineIsFinal

-----------------------------------------------------------------------------
(***************************************************************************)
(*                                  JOBS                                   *)
(***************************************************************************)

(***************************************************************************)
(* The inductive invariant.                                                *)
(***************************************************************************)

\* The row that is awaited was claimed.
AwaitedIsClaimed == caller.msg # None => Current \in Attempts

\* What the dispatcher is told comes from what took place: a result of a closure, the exit
\* of a child, an answer.  A lookup that ends well has sent nothing yet.
ResultsAreTrue ==
    /\ caller.pc = "ok" => Current \in effect[caller.msg]
    /\ \A m \in Messages : \A k \in Attempts :
          \/ job[m][k].pc = "ok" /\ m \notin Webs
          \/ job[m][k].child = "shown"
          => k \in effect[m]

WorkersAreCounted ==
    \A kind \in {"toast", "web"} :
        IsFiniteSet(Live(kind)) /\ Cardinality(Live(kind)) <= Permits[kind]

JobsIInv == JobsTypeOK /\ AwaitedIsClaimed /\ ResultsAreTrue /\ DeliveredTookEffect /\ WorkersAreCounted

(***************************************************************************)
(* Closures.                                                               *)
(***************************************************************************)
Job == [pc: {"none", "queued", "running", "show", "ok", "error"}, left: 0..Timeout,
        cancelled: BOOLEAN, child: {"none", "running", "shown", "failed"}]
Active == {"queued", "running", "show"}

LEMMA NoJobIsJob == NoJob \in Job
BY JobsAssumption DEF NoJob, Job

LEMMA JobsAreTyped ==
    ASSUME JobsTypeOK, NEW m \in Messages, NEW k \in Attempts
    PROVE  job[m][k] \in Job
BY DEF JobsTypeOK, Job

LEMMA KindOf ==
    ASSUME NEW m \in Messages
    PROVE  /\ m \in Files <=> Kind(m) = "file"
           /\ m \in Toasts <=> Kind(m) = "toast"
           /\ m \in Webs <=> Kind(m) = "web"
           /\ Kind(m) \in {"file", "toast", "web"}
BY JobsAssumption DEF Kind, Messages

LEMMA IsLive ==
    ASSUME NEW kind, NEW m \in Messages, NEW k \in Attempts
    PROVE  <<m, k>> \in Live(kind) <=> Kind(m) = kind /\ job[m][k].pc \in Active
BY DEF Live, Active, Attempted

LEMMA JobIsTyped ==
    ASSUME JobsTypeOK
    PROVE  job \in [Messages -> [Attempts -> Job]]
BY DEF JobsTypeOK, Job

\* Closures that end or are let go of, and those of files, which ask for no permit, keep
\* the count.
LEMMA WorkersStayCounted ==
    ASSUME WorkersAreCounted,
           \A n \in Messages : \A l \in Attempts :
                job'[n][l].pc \in Active => job[n][l].pc \in Active \/ Kind(n) = "file"
    PROVE  WorkersAreCounted'
<1> SUFFICES ASSUME NEW kind \in {"toast", "web"}
             PROVE  IsFiniteSet(Live(kind)') /\ Cardinality(Live(kind)') <= Permits[kind]
  BY DEF WorkersAreCounted
<1>1. Live(kind)' \subseteq Live(kind)
  BY DEF Live, Active, Attempted
<1>2. /\ IsFiniteSet(Live(kind)) /\ Cardinality(Live(kind)) <= Permits[kind]
      /\ Permits[kind] \in Nat
  BY JobsAssumption DEF WorkersAreCounted
<1>3. /\ IsFiniteSet(Live(kind)') /\ Cardinality(Live(kind)') <= Cardinality(Live(kind))
  BY <1>1, <1>2, FS_Subset
<1>4. Cardinality(Live(kind)) \in Nat /\ Cardinality(Live(kind)') \in Nat
  BY <1>2, <1>3, FS_CardinalityType
<1> QED
  BY <1>2, <1>3, <1>4

\* What was true stays true: effects are never undone.
LEMMA ResultsStayTrue ==
    ASSUME ResultsAreTrue, \A m \in Messages : effect[m] \subseteq effect'[m],
           \A n \in Messages : \A l \in Attempts :
                /\ job'[n][l].pc = "ok" /\ n \notin Webs => job[n][l].pc = "ok" \/ l \in effect'[n]
                /\ job'[n][l].child = "shown" => job[n][l].child = "shown" \/ l \in effect'[n],
           caller'.pc = "ok" => Current' \in effect'[caller'.msg]
    PROVE  ResultsAreTrue'
BY DEF ResultsAreTrue

\* The future lets go of its closure, which lives on or is forgotten.
LEMMA DroppedJob ==
    ASSUME JobsTypeOK, NEW m \in Messages, Current \in Attempts, job' = Dropped(m)
    PROVE  /\ job' \in [Messages -> [Attempts -> Job]]
           /\ \A n \in Messages : \A l \in Attempts :
                 /\ job'[n][l].pc \in Active => job[n][l].pc \in Active
                 /\ job'[n][l].pc = "ok" => job[n][l].pc = "ok"
                 /\ job'[n][l].child = "shown" => job[n][l].child = "shown"
<1> DEFINE k == Current
           j == job[m][k]
           i == IF j.pc \in {"none", "ok", "error"} THEN NoJob
                ELSE [j EXCEPT !.cancelled = m \in Toasts]
<1>1. j \in Job
  BY JobsAreTyped
<1>2. job' = [job EXCEPT ![m][k] = i]
  BY DEF Dropped
<1>3. /\ i \in Job
      /\ i.pc \in Active => j.pc \in Active
      /\ i.pc # "ok"
      /\ i.child = "shown" => j.child = "shown"
  <2>1. CASE j.pc \in {"none", "ok", "error"}
    BY <2>1, NoJobIsJob DEF NoJob, Active
  <2>2. CASE j.pc \notin {"none", "ok", "error"}
    <3>1. i = [j EXCEPT !.cancelled = m \in Toasts]
      BY <2>2
    <3>2. (m \in Toasts) \in BOOLEAN
      OBVIOUS
    <3> HIDE DEF i, j
    <3> QED
      BY <1>1, <2>2, <3>1, <3>2 DEF Job, Active
  <2> QED
    BY <2>1, <2>2
<1> HIDE DEF i
<1>4. /\ job' \in [Messages -> [Attempts -> Job]] /\ job'[m][k] = i
      /\ \A n \in Messages : \A l \in Attempts : n # m \/ l # k => job'[n][l] = job[n][l]
  BY <1>2, <1>3, JobIsTyped
<1> QED
  BY <1>3, <1>4

\* A closure that ends.
LEMMA EndedJob ==
    ASSUME JobsTypeOK, NEW m \in Messages, NEW k \in Attempts, NEW result \in {"ok", "error"},
           job' = Ended(m, k, result)
    PROVE  /\ job' \in [Messages -> [Attempts -> Job]]
           /\ job'[m][k].pc \in {"none", result} /\ job'[m][k].child = "none"
           /\ \A n \in Messages : \A l \in Attempts :
                 n # m \/ l # k => job'[n][l] = job[n][l]
<1> DEFINE awaited == caller.msg = m /\ caller.pc = "running" /\ Current = k
           i == IF awaited THEN [NoJob EXCEPT !.pc = result] ELSE NoJob
<1>1. job' = [job EXCEPT ![m][k] = i]
  BY DEF Ended
<1>2. i \in Job /\ i.pc \in {"none", result} /\ i.child = "none"
  <2>1. CASE awaited
    BY <2>1, NoJobIsJob DEF Job, NoJob
  <2>2. CASE ~awaited
    BY <2>2, NoJobIsJob DEF NoJob
  <2> QED
    BY <2>1, <2>2
<1> HIDE DEF i
<1> QED
  BY <1>1, <1>2, JobIsTyped

(***************************************************************************)
(* The steps.                                                              *)
(***************************************************************************)

LEMMA InvariantHoldsFirst == JobsInit => JobsIInv
<1> SUFFICES ASSUME JobsInit PROVE JobsIInv
  OBVIOUS
<1>1. /\ row \in [Messages -> [status: {"pending", "held", "delivered", "failed"},
                               attempts: 0..MAX_ATTEMPTS]]
      /\ \A m \in Messages : row[m].status = "pending"
  BY JobsAssumption DEF JobsInit
<1>2. job \in [Messages -> [Attempts -> Job]] /\ \A m \in Messages, k \in Attempts : job[m][k] = NoJob
  BY NoJobIsJob DEF JobsInit
<1>3. caller \in [msg: Messages \cup {None}, left: 0..Timeout,
                  pc: {"idle", "admission", "running", "post", "sent", "ok", "error"}]
      /\ caller.msg = None /\ caller = Idle /\ caller.pc = "idle"
  BY JobsAssumption DEF JobsInit, Idle
<1>4. effect \in [Messages -> SUBSET Attempts] /\ aborts \in 0..MaxAborts
  BY JobsAssumption DEF JobsInit
<1>5. JobsTypeOK
  BY <1>1, <1>2, <1>3, <1>4 DEF JobsTypeOK, Job
<1>6. AwaitedIsClaimed /\ ResultsAreTrue /\ DeliveredTookEffect
  <2>1. AwaitedIsClaimed
    BY <1>3 DEF AwaitedIsClaimed
  <2>2. ResultsAreTrue
    BY <1>2, <1>3 DEF ResultsAreTrue, NoJob
  <2>3. DeliveredTookEffect
    BY <1>1 DEF DeliveredTookEffect
  <2> QED
    BY <2>1, <2>2, <2>3
<1>7. \A kind : Live(kind) = {}
  BY <1>2 DEF Live, NoJob, Attempted
<1>8. WorkersAreCounted
  BY <1>7, FS_EmptySet, JobsAssumption DEF WorkersAreCounted
<1> QED
  BY <1>5, <1>6, <1>8 DEF JobsIInv

CallerType == [msg: Messages \cup {None}, left: 0..Timeout,
               pc: {"idle", "admission", "running", "post", "sent", "ok", "error"}]

\* What a step of the dispatcher finds when it awaits something.
LEMMA Awaiting ==
    ASSUME JobsIInv, caller.pc # "idle"
    PROVE  /\ caller.msg \in Messages /\ Current \in Attempts /\ caller \in CallerType
           /\ row[caller.msg].status = "held"
BY DEF JobsIInv, JobsTypeOK, AwaitedIsClaimed, Idle, CallerType

LEMMA AwaitingIsTyped ==
    ASSUME row' \in [Messages -> [status: {"pending", "held", "delivered", "failed"},
                                  attempts: 0..MAX_ATTEMPTS]],
           caller' \in CallerType, caller'.msg \in Messages, row'[caller'.msg].status = "held",
           job' \in [Messages -> [Attempts -> Job]], effect' \in [Messages -> SUBSET Attempts],
           aborts' \in 0..MaxAborts
    PROVE  JobsTypeOK'
<1>1. caller'.msg # None
  BY JobsAssumption DEF Messages
<1> QED
  BY <1>1 DEF JobsTypeOK, CallerType, Job

LEMMA ClaimKeepsInvariant ==
    ASSUME JobsIInv, NEW m \in Messages, Claim(m)
    PROVE  JobsIInv'
<1> DEFINE k == row[m].attempts + 1
<1>1. JobsTypeOK
  BY DEF JobsIInv
<1>2. k \in Attempts /\ row[m].status = "pending" /\ caller = Idle
  <2>1. row[m].attempts \in Nat /\ row[m].attempts < MaxClaims[m] /\ MaxClaims[m] \in 0..MAX_ATTEMPTS
    BY <1>1, JobsAssumption DEF Claim, JobsTypeOK, Messages
  <2> QED
    BY <2>1, JobsAssumption DEF Claim, Attempts
<1>3. UNCHANGED <<effect, aborts>> /\ row' = [row EXCEPT ![m] = [status |-> "held", attempts |-> k]]
  BY DEF Claim
<1> HIDE DEF k
<1>4. /\ row' \in [Messages -> [status: {"pending", "held", "delivered", "failed"},
                                attempts: 0..MAX_ATTEMPTS]]
      /\ row'[m].status = "held" /\ row'[m].attempts = k
      /\ \A n \in Messages : n # m => row'[n] = row[n]
  BY <1>1, <1>2, <1>3, JobsAssumption DEF JobsTypeOK, Attempts
<1>5. /\ caller' \in CallerType /\ caller'.msg = m /\ caller'.pc # "ok"
  BY JobsAssumption DEF Claim, CallerType
<1>6. /\ job' \in [Messages -> [Attempts -> Job]]
      /\ \A n \in Messages : \A l \in Attempts :
            /\ job'[n][l].pc \in Active => job[n][l].pc \in Active \/ Kind(n) = "file"
            /\ job'[n][l].pc = "ok" => job[n][l].pc = "ok"
            /\ job'[n][l].child = job[n][l].child
  <2>1. CASE job' = job
    BY <1>1, <2>1, JobIsTyped
  <2>2. CASE m \in Files /\ job' = [job EXCEPT ![m][k].pc = "queued"]
    <3>1. job[m][k] \in Job /\ Kind(m) = "file"
      BY <1>1, <1>2, <2>2, JobsAreTyped, KindOf
    <3>2. job' = [job EXCEPT ![m][k] = [job[m][k] EXCEPT !.pc = "queued"]]
      BY <2>2
    <3>3. [job[m][k] EXCEPT !.pc = "queued"] \in Job
      BY <3>1 DEF Job
    <3>4. job'[m][k].pc = "queued" /\ job'[m][k].child = job[m][k].child
      BY <1>1, <1>2, <3>1, <3>2, JobIsTyped DEF Job
    <3>5. \A n \in Messages : \A l \in Attempts : n # m \/ l # k => job'[n][l] = job[n][l]
      BY <1>1, <1>2, <3>2, JobIsTyped
    <3>6. job' \in [Messages -> [Attempts -> Job]]
      BY <1>1, <1>2, <3>2, <3>3, JobIsTyped
    <3> QED
      BY <3>1, <3>4, <3>5, <3>6
  <2> QED
    BY <2>1, <2>2 DEF Claim, k
<1>7. JobsTypeOK'
  <2>1. effect' \in [Messages -> SUBSET Attempts] /\ aborts' \in 0..MaxAborts
    BY <1>1, <1>3 DEF JobsTypeOK
  <2> QED
    BY <1>4, <1>5, <1>6, <2>1, AwaitingIsTyped
<1>8. AwaitedIsClaimed'
  BY <1>2, <1>4, <1>5 DEF AwaitedIsClaimed, Current
<1>9. ResultsAreTrue'
  BY <1>3, <1>5, <1>6, ResultsStayTrue DEF JobsIInv
<1>10. DeliveredTookEffect'
  BY <1>3, <1>4 DEF JobsIInv, DeliveredTookEffect
<1>11. WorkersAreCounted'
  BY <1>6, WorkersStayCounted DEF JobsIInv
<1> QED
  BY <1>7, <1>8, <1>9, <1>10, <1>11 DEF JobsIInv

\* A step of the delivery that is awaited.
LEMMA DeliveryKeepsInvariant ==
    ASSUME JobsIInv, caller.pc # "idle", UNCHANGED <<row, aborts>>,
           caller' \in CallerType, caller'.msg = caller.msg,
           job' \in [Messages -> [Attempts -> Job]],
           \A n \in Messages : \A l \in Attempts :
               /\ job'[n][l].pc = "ok" => job[n][l].pc = "ok"
               /\ job'[n][l].child = "shown" => job[n][l].child = "shown",
           effect' \in [Messages -> SUBSET Attempts],
           \A m \in Messages : effect[m] \subseteq effect'[m],
           caller'.pc = "ok" => Current \in effect'[caller.msg],
           WorkersAreCounted'
    PROVE  JobsIInv'
<1>1. JobsTypeOK /\ caller.msg \in Messages /\ Current \in Attempts /\ row[caller.msg].status = "held"
  BY Awaiting DEF JobsIInv
<1>2. JobsTypeOK'
  <2>1. /\ row' \in [Messages -> [status: {"pending", "held", "delivered", "failed"},
                                  attempts: 0..MAX_ATTEMPTS]]
        /\ aborts' \in 0..MaxAborts
    BY <1>1 DEF JobsTypeOK
  <2>2. caller'.msg \in Messages /\ row'[caller'.msg].status = "held"
    BY <1>1
  <2> QED
    BY <2>1, <2>2, AwaitingIsTyped
<1>3. AwaitedIsClaimed' /\ Current' = Current
  BY <1>1 DEF AwaitedIsClaimed, Current
<1>4. ResultsAreTrue'
  BY <1>3, ResultsStayTrue DEF JobsIInv
<1>5. DeliveredTookEffect'
  BY DEF JobsIInv, DeliveredTookEffect
<1> QED
  BY <1>2, <1>3, <1>4, <1>5 DEF JobsIInv

LEMMA AdmitKeepsInvariant ==
    ASSUME JobsIInv, Admit
    PROVE  JobsIInv'
<1> DEFINE m == caller.msg
           k == Current
           j == [job[m][k] EXCEPT !.pc = "queued", !.left = caller.left]
<1>1. /\ caller.msg \in Messages /\ Current \in Attempts /\ caller \in CallerType /\ JobsTypeOK
      /\ caller.pc = "admission"
  BY Awaiting DEF Admit, JobsIInv
<1>2. /\ UNCHANGED <<row, effect, aborts>> /\ caller' = [caller EXCEPT !.pc = "running"]
      /\ job' = [job EXCEPT ![m][k].pc = "queued", ![m][k].left = caller.left]
      /\ Cardinality(Live(Kind(m))) < Permits[Kind(m)]
  BY DEF Admit
<1>3. job[m][k] \in Job /\ caller.left \in 0..Timeout
  BY <1>1, JobsAreTyped DEF CallerType
<1>4. j \in Job /\ j.pc = "queued" /\ j.child = job[m][k].child
  BY <1>3 DEF Job
<1>5. job' = [job EXCEPT ![m][k] = j]
  BY <1>1, <1>2, <1>3, JobIsTyped DEF Job
<1> HIDE DEF j
<1>6. /\ job' \in [Messages -> [Attempts -> Job]] /\ job'[m][k] = j
      /\ \A n \in Messages : \A l \in Attempts : n # m \/ l # k => job'[n][l] = job[n][l]
  BY <1>1, <1>4, <1>5, JobIsTyped
<1>7. WorkersAreCounted'
  <2> SUFFICES ASSUME NEW kind \in {"toast", "web"}
               PROVE  IsFiniteSet(Live(kind)') /\ Cardinality(Live(kind)') <= Permits[kind]
    BY DEF WorkersAreCounted
  <2>1. /\ IsFiniteSet(Live(kind)) /\ Cardinality(Live(kind)) <= Permits[kind]
        /\ Permits[kind] \in Nat /\ Cardinality(Live(kind)) \in Nat
    BY JobsAssumption, FS_CardinalityType DEF JobsIInv, WorkersAreCounted
  <2>2. CASE Kind(m) # kind
    <3>1. Live(kind)' \subseteq Live(kind)
      BY <1>6, <2>2 DEF Live, Attempted
    <3> QED
      BY <2>1, <3>1, FS_Subset, FS_CardinalityType
  <2>3. CASE Kind(m) = kind
    <3>1. Live(kind)' \subseteq Live(kind) \cup {<<m, k>>}
      BY <1>6 DEF Live, Attempted
    <3>2. /\ IsFiniteSet(Live(kind) \cup {<<m, k>>})
          /\ \/ Cardinality(Live(kind) \cup {<<m, k>>}) = Cardinality(Live(kind))
             \/ Cardinality(Live(kind) \cup {<<m, k>>}) = Cardinality(Live(kind)) + 1
      BY <2>1, FS_AddElement, Zenon
    <3>3. /\ IsFiniteSet(Live(kind)')
          /\ Cardinality(Live(kind)') <= Cardinality(Live(kind) \cup {<<m, k>>})
      BY <3>1, <3>2, FS_Subset
    <3>4. Cardinality(Live(kind)') \in Nat
      BY <3>3, FS_CardinalityType
    <3> QED
      BY <1>2, <2>1, <2>3, <3>2, <3>3, <3>4
  <2> QED
    BY <2>2, <2>3
<1>8. /\ \A n \in Messages : \A l \in Attempts :
            /\ job'[n][l].pc = "ok" => job[n][l].pc = "ok"
            /\ job'[n][l].child = "shown" => job[n][l].child = "shown"
  BY <1>4, <1>6
<1>9. caller' \in CallerType /\ caller'.msg = caller.msg /\ caller'.pc = "running"
  BY <1>1, <1>2 DEF CallerType
<1> QED
  BY <1>1, <1>2, <1>6, <1>7, <1>8, <1>9, DeliveryKeepsInvariant DEF JobsTypeOK

LEMMA ResultKeepsInvariant ==
    ASSUME JobsIInv, Result
    PROVE  JobsIInv'
<1> DEFINE m == caller.msg
<1>1. /\ m \in Messages /\ Current \in Attempts /\ caller \in CallerType /\ JobsTypeOK
      /\ caller.pc = "running"
  BY Awaiting DEF Result, JobsIInv
<1>2. /\ UNCHANGED <<row, effect, aborts>> /\ job' = Dropped(m)
      /\ job[m][Current].pc \in {"ok", "error"}
      /\ caller' = IF m \in Webs /\ job[m][Current].pc = "ok"
                   THEN [caller EXCEPT !.pc = "post", !.left = Timeout]
                   ELSE [caller EXCEPT !.pc = job[m][Current].pc]
  BY DEF Result
<1>3. /\ job' \in [Messages -> [Attempts -> Job]]
      /\ \A n \in Messages : \A l \in Attempts :
            /\ job'[n][l].pc \in Active => job[n][l].pc \in Active
            /\ job'[n][l].pc = "ok" => job[n][l].pc = "ok"
            /\ job'[n][l].child = "shown" => job[n][l].child = "shown"
  BY <1>1, <1>2, DroppedJob
<1>4. /\ caller' \in CallerType /\ caller'.msg = m
      /\ caller'.pc = "ok" => m \notin Webs /\ job[m][Current].pc = "ok"
  <2> DEFINE done == job[m][Current].pc
  <2>1. CASE m \in Webs /\ done = "ok"
    <3>1. caller' = [caller EXCEPT !.pc = "post", !.left = Timeout]
      BY <1>2, <2>1
    <3>2. Timeout \in 0..Timeout
      BY JobsAssumption
    <3> HIDE DEF done
    <3> QED
      BY <1>1, <3>1, <3>2 DEF CallerType
  <2>2. CASE ~(m \in Webs /\ done = "ok")
    <3>1. caller' = [caller EXCEPT !.pc = done] /\ done \in {"ok", "error"}
      BY <1>2, <2>2
    <3> HIDE DEF done
    <3>2. caller' \in CallerType /\ caller'.msg = m /\ caller'.pc = done
      BY <1>1, <3>1 DEF CallerType
    <3> QED
      BY <2>2, <3>1, <3>2 DEF done
  <2> QED
    BY <2>1, <2>2
<1>5. caller'.pc = "ok" => Current \in effect'[m]
  BY <1>1, <1>2, <1>4 DEF JobsIInv, ResultsAreTrue
<1>6. WorkersAreCounted'
  BY <1>3, WorkersStayCounted DEF JobsIInv
<1> QED
  BY <1>1, <1>2, <1>3, <1>4, <1>5, <1>6, DeliveryKeepsInvariant DEF JobsTypeOK

LEMMA ExpireKeepsInvariant ==
    ASSUME JobsIInv, Expire
    PROVE  JobsIInv'
<1>1. /\ caller.msg \in Messages /\ Current \in Attempts /\ caller \in CallerType /\ JobsTypeOK
      /\ caller.pc # "idle"
  BY Awaiting DEF Expire, JobsIInv
<1>2. /\ UNCHANGED <<row, effect, aborts>> /\ job' = Dropped(caller.msg)
      /\ caller' = [caller EXCEPT !.pc = "error"]
  BY DEF Expire
<1>3. /\ job' \in [Messages -> [Attempts -> Job]]
      /\ \A n \in Messages : \A l \in Attempts :
            /\ job'[n][l].pc \in Active => job[n][l].pc \in Active
            /\ job'[n][l].pc = "ok" => job[n][l].pc = "ok"
            /\ job'[n][l].child = "shown" => job[n][l].child = "shown"
  BY <1>1, <1>2, DroppedJob
<1>4. caller' \in CallerType /\ caller'.msg = caller.msg /\ caller'.pc = "error"
  BY <1>1, <1>2 DEF CallerType
<1>5. WorkersAreCounted'
  BY <1>3, WorkersStayCounted DEF JobsIInv
<1> QED
  BY <1>1, <1>2, <1>3, <1>4, <1>5, DeliveryKeepsInvariant DEF JobsTypeOK

\* The request and its answer, which leave the closures alone.
LEMMA PostKeepsInvariant ==
    ASSUME JobsIInv, Post \/ Answer
    PROVE  JobsIInv'
<1>1. /\ caller.msg \in Messages /\ Current \in Attempts /\ caller \in CallerType /\ JobsTypeOK
      /\ caller.pc # "idle"
  BY Awaiting DEF Post, Answer, JobsIInv
<1>2. UNCHANGED <<row, job, aborts>>
  BY DEF Post, Answer
<1>3. job' \in [Messages -> [Attempts -> Job]] /\ WorkersAreCounted'
  BY <1>1, <1>2, JobIsTyped, WorkersStayCounted DEF JobsIInv
<1>4. /\ effect' \in [Messages -> SUBSET Attempts]
      /\ \A m \in Messages : effect[m] \subseteq effect'[m]
  <2>1. CASE effect' = effect
    BY <1>1, <2>1 DEF JobsTypeOK
  <2>2. CASE effect' = [effect EXCEPT ![caller.msg] = @ \cup {Current}]
    BY <1>1, <2>2 DEF JobsTypeOK
  <2> QED
    BY <2>1, <2>2 DEF Post, Answer
<1>5. /\ caller' \in CallerType /\ caller'.msg = caller.msg
      /\ caller'.pc = "ok" => Current \in effect'[caller.msg]
  <2>1. CASE Post
    BY <1>1, <2>1 DEF Post, CallerType
  <2>2. CASE Answer
    BY <1>1, <2>2 DEF Answer, CallerType
  <2> QED
    BY <2>1, <2>2
<1> QED
  BY <1>1, <1>2, <1>3, <1>4, <1>5, DeliveryKeepsInvariant

\* The end of a delivery, by its result or because the engine is dropped.
LEMMA FinishKeepsInvariant ==
    ASSUME JobsIInv, Finish \/ Abort
    PROVE  JobsIInv'
<1> DEFINE m == caller.msg
<1>1. JobsTypeOK
  BY DEF JobsIInv
<1>2. caller' = Idle /\ UNCHANGED effect
  BY DEF Finish, Abort
<1>3. m # None => m \in Messages /\ Current \in Attempts
  BY <1>1, JobsAssumption DEF JobsIInv, AwaitedIsClaimed, JobsTypeOK
<1>4. /\ job' \in [Messages -> [Attempts -> Job]]
      /\ \A n \in Messages : \A l \in Attempts :
            /\ job'[n][l].pc \in Active => job[n][l].pc \in Active
            /\ job'[n][l].pc = "ok" => job[n][l].pc = "ok"
            /\ job'[n][l].child = "shown" => job[n][l].child = "shown"
  <2>1. CASE job' = job
    BY <1>1, <2>1, JobIsTyped
  <2>2. CASE m # None /\ job' = Dropped(m)
    BY <1>1, <1>3, <2>2, DroppedJob
  <2> QED
    BY <2>1, <2>2 DEF Finish, Abort
<1>5. PICK status \in {"pending", "delivered", "failed"} :
          /\ row' = row \/ (m # None /\ row' = [row EXCEPT ![m].status = status])
          /\ status = "delivered" => m # None /\ Current \in effect[m]
  <2>1. CASE Finish
    <3>1. m # None
      BY <2>1, Awaiting, JobsAssumption DEF Finish, Messages
    <3>2. CASE caller.pc = "ok"
      BY <2>1, <3>1, <3>2 DEF Finish, JobsIInv, ResultsAreTrue
    <3>3. CASE caller.pc = "error" /\ Current = MAX_ATTEMPTS
      BY <2>1, <3>1, <3>3 DEF Finish
    <3>4. CASE caller.pc = "error" /\ Current # MAX_ATTEMPTS
      BY <2>1, <3>1, <3>4 DEF Finish
    <3> QED
      BY <2>1, <3>2, <3>3, <3>4 DEF Finish
  <2>2. CASE Abort
    BY <2>2 DEF Abort
  <2> QED
    BY <2>1, <2>2
<1>6. /\ row' \in [Messages -> [status: {"pending", "held", "delivered", "failed"},
                                attempts: 0..MAX_ATTEMPTS]]
      /\ \A n \in Messages : row'[n].attempts = row[n].attempts
      /\ \A n \in Messages : row'[n].status = "delivered" =>
              row[n].status = "delivered" \/ row[n].attempts \in effect[n]
  <2>1. row \in [Messages -> [status: {"pending", "held", "delivered", "failed"},
                              attempts: 0..MAX_ATTEMPTS]]
    BY <1>1 DEF JobsTypeOK
  <2>2. CASE row' = row
    BY <2>1, <2>2
  <2>3. CASE m # None /\ row' = [row EXCEPT ![m].status = status]
    <3>1. m \in Messages /\ row[m].attempts = Current
      BY <1>3, <2>3 DEF Current
    <3>2. /\ row'[m].status = status /\ row'[m].attempts = row[m].attempts
          /\ \A n \in Messages : n # m => row'[n] = row[n]
      BY <2>1, <2>3, <3>1
    <3>3. row' \in [Messages -> [status: {"pending", "held", "delivered", "failed"},
                                attempts: 0..MAX_ATTEMPTS]]
      BY <2>1, <2>3, <3>1
    <3> QED
      BY <1>5, <3>1, <3>2, <3>3
  <2> QED
    BY <1>5, <2>2, <2>3
<1>7. aborts' \in 0..MaxAborts
  <2>1. CASE Finish
    BY <1>1, <2>1 DEF Finish, JobsTypeOK
  <2>2. CASE Abort
    BY <1>1, <2>2, JobsAssumption DEF Abort, JobsTypeOK
  <2> QED
    BY <2>1, <2>2
<1>8. /\ caller' = Idle /\ caller'.msg = None /\ caller'.pc = "idle" /\ caller' \in CallerType
  BY <1>2, JobsAssumption DEF Idle, CallerType
<1>9. JobsTypeOK'
  BY <1>1, <1>2, <1>4, <1>6, <1>7, <1>8 DEF JobsTypeOK, CallerType, Job
<1>10. AwaitedIsClaimed'
  BY <1>8 DEF AwaitedIsClaimed
<1>11. ResultsAreTrue'
  BY <1>2, <1>4, <1>8, ResultsStayTrue DEF JobsIInv
<1>12. DeliveredTookEffect'
  BY <1>2, <1>6 DEF JobsIInv, DeliveredTookEffect
<1>13. WorkersAreCounted'
  BY <1>4, WorkersStayCounted DEF JobsIInv
<1> QED
  BY <1>9, <1>10, <1>11, <1>12, <1>13 DEF JobsIInv

\* A step of a closure, or of time.
LEMMA ClosureKeepsInvariant ==
    ASSUME JobsIInv, UNCHANGED <<row, aborts>>,
           caller' = [caller EXCEPT !.left = caller'.left], caller'.left \in 0..Timeout,
           caller.left = 0 => caller'.left = 0,
           job' \in [Messages -> [Attempts -> Job]], effect' \in [Messages -> SUBSET Attempts],
           \A m \in Messages : effect[m] \subseteq effect'[m],
           \A n \in Messages : \A l \in Attempts :
                /\ job'[n][l].pc \in Active => job[n][l].pc \in Active
                /\ job'[n][l].pc = "ok" /\ n \notin Webs => job[n][l].pc = "ok" \/ l \in effect'[n]
                /\ job'[n][l].child = "shown" => job[n][l].child = "shown" \/ l \in effect'[n]
    PROVE  JobsIInv'
<1>1. JobsTypeOK /\ caller \in CallerType
  BY DEF JobsIInv, JobsTypeOK, CallerType
<1>2. /\ caller' \in CallerType /\ caller'.msg = caller.msg /\ caller'.pc = caller.pc
      /\ caller'.left = 0 \/ caller.left # 0
  BY <1>1 DEF CallerType
<1>3. IF caller'.msg = None THEN caller' = Idle ELSE row'[caller'.msg].status = "held"
  <2>1. CASE caller.msg = None
    <3>1. caller = Idle
      BY <1>1, <2>1 DEF JobsTypeOK
    <3>2. caller'.left = 0
      BY <3>1 DEF Idle
    <3> QED
      BY <1>2, <2>1, <3>1, <3>2 DEF Idle
  <2>2. CASE caller.msg # None
    BY <1>1, <1>2, <2>2 DEF JobsTypeOK
  <2> QED
    BY <2>1, <2>2
<1>4. JobsTypeOK'
  BY <1>1, <1>2, <1>3 DEF JobsTypeOK, CallerType, Job
<1>5. AwaitedIsClaimed' /\ Current' = Current
  BY <1>2 DEF JobsIInv, AwaitedIsClaimed, Current
<1>6. caller'.pc = "ok" => Current' \in effect'[caller'.msg]
  <2> SUFFICES ASSUME caller.pc = "ok" PROVE Current \in effect'[caller.msg]
    BY <1>2, <1>5
  <2>1. caller.msg \in Messages /\ Current \in effect[caller.msg]
    BY Awaiting DEF JobsIInv, ResultsAreTrue
  <2> QED
    BY <2>1
<1>7. ResultsAreTrue'
  BY <1>6, ResultsStayTrue DEF JobsIInv
<1>8. DeliveredTookEffect'
  BY DEF JobsIInv, DeliveredTookEffect
<1>9. WorkersAreCounted'
  BY WorkersStayCounted DEF JobsIInv
<1> QED
  BY <1>4, <1>5, <1>7, <1>8, <1>9 DEF JobsIInv

\* The same for a step that changes one closure.
LEMMA OneClosureKeepsInvariant ==
    ASSUME JobsIInv, NEW m \in Messages, NEW k \in Attempts, Others,
           effect' = effect \/ effect' = [effect EXCEPT ![m] = @ \cup {k}],
           job' \in [Messages -> [Attempts -> Job]],
           \A n \in Messages : \A l \in Attempts :
                n # m \/ l # k => job'[n][l] = job[n][l],
           job'[m][k].pc \in Active => job[m][k].pc \in Active,
           job'[m][k].pc = "ok" /\ m \notin Webs => job[m][k].pc = "ok" \/ k \in effect'[m],
           job'[m][k].child = "shown" => job[m][k].child = "shown" \/ k \in effect'[m]
    PROVE  JobsIInv'
<1>1. effect \in [Messages -> SUBSET Attempts] /\ caller \in CallerType
  BY DEF JobsIInv, JobsTypeOK, CallerType
<1>2. /\ effect' \in [Messages -> SUBSET Attempts]
      /\ \A n \in Messages : effect[n] \subseteq effect'[n]
  BY <1>1
<1>3. UNCHANGED <<row, aborts>> /\ caller' = caller
  BY DEF Others
<1>4. caller' = [caller EXCEPT !.left = caller'.left] /\ caller'.left \in 0..Timeout
  BY <1>1, <1>3 DEF CallerType
<1>5. \A n \in Messages : \A l \in Attempts :
                /\ job'[n][l].pc \in Active => job[n][l].pc \in Active
                /\ job'[n][l].pc = "ok" /\ n \notin Webs => job[n][l].pc = "ok" \/ l \in effect'[n]
                /\ job'[n][l].child = "shown" => job[n][l].child = "shown" \/ l \in effect'[n]
  OBVIOUS
<1> QED
  BY <1>2, <1>3, <1>4, <1>5, ClosureKeepsInvariant

LEMMA EndKeepsInvariant ==
    ASSUME JobsIInv, NEW m \in Messages, NEW k \in Attempts, NEW result \in {"ok", "error"},
           job' = Ended(m, k, result), Others,
           effect' = effect \/ effect' = [effect EXCEPT ![m] = @ \cup {k}],
           result = "ok" /\ m \notin Webs => k \in effect'[m]
    PROVE  JobsIInv'
<1>1. /\ job' \in [Messages -> [Attempts -> Job]]
      /\ job'[m][k].pc \in {"none", result} /\ job'[m][k].child = "none"
      /\ \A n \in Messages : \A l \in Attempts :
            n # m \/ l # k => job'[n][l] = job[n][l]
  BY EndedJob DEF JobsIInv
<1>2. job'[m][k].pc \notin Active
  BY <1>1 DEF Active
<1> QED
  BY <1>1, <1>2, OneClosureKeepsInvariant

LEMMA StartKeepsInvariant ==
    ASSUME JobsIInv, NEW m \in Messages, NEW k \in Attempts, Start(m, k)
    PROVE  JobsIInv'
<1>1. Others /\ effect' = effect /\ job[m][k].pc = "queued"
  BY DEF Start
<1>2. CASE job' = Ended(m, k, "error")
  BY <1>1, <1>2, EndKeepsInvariant
<1>3. CASE job' = [job EXCEPT ![m][k].pc = "running"]
  <2> DEFINE j == [job[m][k] EXCEPT !.pc = "running"]
  <2>1. job' = [job EXCEPT ![m][k] = j]
    BY <1>3
  <2>2. j \in Job /\ j.pc = "running" /\ j.child = job[m][k].child
    BY JobsAreTyped DEF Job, JobsIInv
  <2> HIDE DEF j
  <2>3. /\ job' \in [Messages -> [Attempts -> Job]] /\ job'[m][k] = j
        /\ \A n \in Messages : \A l \in Attempts :
              n # m \/ l # k => job'[n][l] = job[n][l]
    BY <2>1, <2>2, JobIsTyped DEF JobsIInv
  <2> QED
    BY <1>1, <2>2, <2>3, OneClosureKeepsInvariant DEF Active
<1> QED
  BY <1>2, <1>3 DEF Start

LEMMA ReturnKeepsInvariant ==
    ASSUME JobsIInv, NEW m \in Messages, NEW k \in Attempts, Return(m, k)
    PROVE  JobsIInv'
<1>1. Others /\ m \notin Toasts
  BY DEF Return
<1>2. CASE job' = Ended(m, k, "error") /\ effect' = effect
  BY <1>1, <1>2, EndKeepsInvariant
<1>3. CASE job' = Ended(m, k, "ok")
           /\ effect' = IF m \in Files THEN [effect EXCEPT ![m] = @ \cup {k}] ELSE effect
  <2>1. effect \in [Messages -> SUBSET Attempts]
    BY DEF JobsIInv, JobsTypeOK
  <2>2. m \notin Webs => k \in effect'[m]
    BY <1>1, <1>3, <2>1 DEF Messages
  <2> QED
    BY <1>1, <1>3, <2>2, EndKeepsInvariant
<1> QED
  BY <1>2, <1>3 DEF Return

LEMMA CheckKeepsInvariant ==
    ASSUME JobsIInv, NEW m \in Messages, NEW k \in Attempts, Check(m, k)
    PROVE  JobsIInv'
<1>1. Others /\ effect' = effect /\ job[m][k].pc = "running"
  BY DEF Check
<1>2. CASE job' = Ended(m, k, "error")
  BY <1>1, <1>2, EndKeepsInvariant
<1>3. CASE job' = [job EXCEPT ![m][k].pc = "show", ![m][k].child = "running"]
  <2> DEFINE j == [job[m][k] EXCEPT !.pc = "show", !.child = "running"]
  <2>1. job[m][k] \in Job
    BY JobsAreTyped DEF JobsIInv
  <2>2. job' = [job EXCEPT ![m][k] = j]
    BY <1>3, <2>1, JobIsTyped DEF Job, JobsIInv
  <2>3. j \in Job /\ j.pc = "show" /\ j.child = "running"
    BY <2>1 DEF Job
  <2> HIDE DEF j
  <2>4. /\ job' \in [Messages -> [Attempts -> Job]] /\ job'[m][k] = j
        /\ \A n \in Messages : \A l \in Attempts :
              n # m \/ l # k => job'[n][l] = job[n][l]
    BY <2>2, <2>3, JobIsTyped DEF JobsIInv
  <2> QED
    BY <1>1, <2>3, <2>4, OneClosureKeepsInvariant DEF Active
<1> QED
  BY <1>2, <1>3 DEF Check

LEMMA ChildKeepsInvariant ==
    ASSUME JobsIInv, NEW m \in Messages, NEW k \in Attempts, Child(m, k)
    PROVE  JobsIInv'
<1>1. PICK end \in {"shown", "failed"} :
          /\ job' = [job EXCEPT ![m][k].child = end]
          /\ effect' = effect \/ effect' = [effect EXCEPT ![m] = @ \cup {k}]
          /\ end = "shown" => effect' = [effect EXCEPT ![m] = @ \cup {k}]
  BY DEF Child
<1>2. Others /\ effect \in [Messages -> SUBSET Attempts] /\ job[m][k] \in Job
  BY JobsAreTyped DEF Child, JobsIInv, JobsTypeOK
<1> DEFINE j == [job[m][k] EXCEPT !.child = end]
<1>3. job' = [job EXCEPT ![m][k] = j]
  BY <1>1
<1>4. j \in Job /\ j.pc = job[m][k].pc /\ j.child = end
  BY <1>2 DEF Job
<1> HIDE DEF j
<1>5. /\ job' \in [Messages -> [Attempts -> Job]] /\ job'[m][k] = j
      /\ \A n \in Messages : \A l \in Attempts :
            n # m \/ l # k => job'[n][l] = job[n][l]
  BY <1>3, <1>4, JobIsTyped DEF JobsIInv
<1>6. end = "shown" => k \in effect'[m]
  BY <1>1, <1>2
<1> QED
  BY <1>1, <1>2, <1>4, <1>5, <1>6, OneClosureKeepsInvariant

LEMMA PollKeepsInvariant ==
    ASSUME JobsIInv, NEW m \in Messages, NEW k \in Attempts, Poll(m, k)
    PROVE  JobsIInv'
<1>1. /\ Others /\ effect' = effect
      /\ job' = Ended(m, k, IF job[m][k].child = "shown" /\ MayGoOn(m, k) THEN "ok" ELSE "error")
  BY DEF Poll
<1>2. CASE job[m][k].child = "shown" /\ MayGoOn(m, k)
  <2>1. job' = Ended(m, k, "ok")
    BY <1>1, <1>2
  <2>2. k \in effect'[m]
    BY <1>1, <1>2 DEF JobsIInv, ResultsAreTrue
  <2> QED
    BY <1>1, <2>1, <2>2, EndKeepsInvariant
<1>3. CASE ~(job[m][k].child = "shown" /\ MayGoOn(m, k))
  <2>1. job' = Ended(m, k, "error")
    BY <1>1, <1>3
  <2> QED
    BY <1>1, <2>1, EndKeepsInvariant
<1> QED
  BY <1>2, <1>3

LEMMA TickKeepsInvariant ==
    ASSUME JobsIInv, Tick
    PROVE  JobsIInv'
<1>1. /\ caller \in CallerType /\ effect \in [Messages -> SUBSET Attempts]
      /\ job \in [Messages -> [Attempts -> Job]]
  BY JobIsTyped DEF JobsIInv, JobsTypeOK, CallerType
<1>2. \A t \in 0..Timeout : Less(t) \in 0..Timeout /\ (t = 0 => Less(t) = 0)
  BY JobsAssumption DEF Less
<1>3. /\ UNCHANGED <<row, aborts>> /\ effect' = effect
      /\ caller' = [caller EXCEPT !.left = Less(caller.left)]
      /\ \A m \in Messages : \A k \in Attempts :
            job'[m][k] = [job[m][k] EXCEPT !.left = Less(job[m][k].left)]
      /\ job' \in [Messages -> [Attempts -> Job]]
  <2>1. \A m \in Messages : \A k \in Attempts :
            [job[m][k] EXCEPT !.left = Less(job[m][k].left)] \in Job
    <3> SUFFICES ASSUME NEW m \in Messages, NEW k \in Attempts
                 PROVE  [job[m][k] EXCEPT !.left = Less(job[m][k].left)] \in Job
      OBVIOUS
    <3>1. job[m][k] \in Job
      BY <1>1
    <3> QED
      BY <1>2, <3>1 DEF Job
  <2> QED
    BY <2>1 DEF Tick
<1>4. /\ caller' = [caller EXCEPT !.left = caller'.left] /\ caller'.left \in 0..Timeout
      /\ caller.left = 0 => caller'.left = 0
  <2>1. caller.left \in 0..Timeout /\ caller'.left = Less(caller.left)
    BY <1>1, <1>3 DEF CallerType
  <2> QED
    BY <1>2, <1>3, <2>1
<1>5. \A m \in Messages : \A k \in Attempts :
          job'[m][k].pc = job[m][k].pc /\ job'[m][k].child = job[m][k].child
  <2> SUFFICES ASSUME NEW m \in Messages, NEW k \in Attempts
               PROVE  job'[m][k].pc = job[m][k].pc /\ job'[m][k].child = job[m][k].child
    OBVIOUS
  <2>1. job[m][k] \in Job
    BY <1>1
  <2>2. job'[m][k] = [job[m][k] EXCEPT !.left = Less(job[m][k].left)]
    BY <1>3
  <2> QED
    BY <2>1, <2>2 DEF Job
<1> QED
  BY <1>1, <1>3, <1>4, <1>5, ClosureKeepsInvariant

LEMMA JobsNextKeepsInvariant ==
    ASSUME JobsIInv, [JobsNext]_jobsVars
    PROVE  JobsIInv'
<1>1. ASSUME NEW m \in Messages, NEW k \in Attempts,
             Start(m, k) \/ Return(m, k) \/ Check(m, k) \/ Child(m, k) \/ Poll(m, k)
      PROVE  JobsIInv'
  BY <1>1, StartKeepsInvariant, ReturnKeepsInvariant, CheckKeepsInvariant, ChildKeepsInvariant,
     PollKeepsInvariant
<1>2. CASE Admit \/ Result \/ Expire \/ Post \/ Answer \/ Finish \/ Abort \/ Tick
  BY <1>2, AdmitKeepsInvariant, ResultKeepsInvariant, ExpireKeepsInvariant, PostKeepsInvariant,
     FinishKeepsInvariant, TickKeepsInvariant
<1>3. CASE UNCHANGED jobsVars
  BY <1>3 DEF jobsVars, JobsIInv, JobsTypeOK, AwaitedIsClaimed, ResultsAreTrue, DeliveredTookEffect,
              WorkersAreCounted, Current, Live, Attempted
<1> QED
  BY <1>1, <1>2, <1>3, ClaimKeepsInvariant DEF JobsNext

(***************************************************************************)
(* The theorems.                                                           *)
(***************************************************************************)

\* What the dispatcher is told of a delivery took place, and permits are counted, at every
\* step of every closure (notifier.rs 69-146, 615-669).
THEOREM JobsInvariant == JobsSpec => []JobsIInv
<1>1. JobsInit => JobsIInv
  BY InvariantHoldsFirst
<1>2. JobsIInv /\ [JobsNext]_jobsVars => JobsIInv'
  BY JobsNextKeepsInvariant
<1> QED
  BY <1>1, <1>2, PTL DEF JobsSpec

\* However many deliveries gave up, no more closures of a kind live than its semaphore has
\* permits (notifier.rs 87).
THEOREM WorkersAreAlwaysAdmitted == JobsSpec => []WorkersAreAdmitted
<1>1. JobsIInv => WorkersAreAdmitted
  BY DEF JobsIInv, WorkersAreCounted, WorkersAreAdmitted
<1> QED
  BY <1>1, JobsInvariant, PTL

\* A row counts as delivered only when the attempt that was awaited took effect, whatever
\* earlier attempts nobody waits for any more still do.
THEOREM DeliveredAlwaysTookEffect == JobsSpec => []DeliveredTookEffect
<1>1. JobsIInv => DeliveredTookEffect
  BY DEF JobsIInv
<1> QED
  BY <1>1, JobsInvariant, PTL

=============================================================================
