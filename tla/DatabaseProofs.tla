--------------------------- MODULE DatabaseProofs ---------------------------
(***************************************************************************)
(* Theorems about the two parts that keep the database: Outbox, for every  *)
(* set of repositories and channels and every value of the limits, and     *)
(* that it implements Ledger; and then Startup, for any processes and      *)
(* every value of the bounds.  The two share no definition.                *)
(***************************************************************************)
EXTENDS Outbox, Startup, TLAPS, FiniteSetTheorems, SequenceTheorems

(***************************************************************************)
(* Type correctness.                                                       *)
(***************************************************************************)

\* A row stays a row when one column takes a legal value.
LEMMA ColumnUpdates ==
    ASSUME NEW row \in Row
    PROVE  /\ \A s \in Status : [row EXCEPT !.status = s] \in Row
           /\ \A a \in 0..MAX_ATTEMPTS : [row EXCEPT !.attempts = a] \in Row
           /\ \A l \in 0..LEASE : [row EXCEPT !.lease = l] \in Row
           /\ \A w \in 0..MAX_DELAY : [row EXCEPT !.wait = w] \in Row
<1>1. \A s \in Status : [row EXCEPT !.status = s] \in Row
  BY DEF Row
<1>2. \A a \in 0..MAX_ATTEMPTS : [row EXCEPT !.attempts = a] \in Row
  BY DEF Row
<1>3. \A l \in 0..LEASE : [row EXCEPT !.lease = l] \in Row
  BY DEF Row
<1>4. \A w \in 0..MAX_DELAY : [row EXCEPT !.wait = w] \in Row
  BY DEF Row
<1> QED
  BY <1>1, <1>2, <1>3, <1>4

\* Settling a row: status and lease, and after an error the next attempt, change together.
LEMMA SettleTyped ==
    ASSUME NEW row \in Row, NEW s \in Status, NEW w \in 0..MAX_DELAY
    PROVE  /\ [row EXCEPT !.status = s, !.lease = 0] \in Row
           /\ [row EXCEPT !.status = s, !.wait = w, !.lease = 0] \in Row
<1>1. 0 \in 0..LEASE
  BY OutboxAssumption
<1>2. [row EXCEPT !.status = s] \in Row
  BY ColumnUpdates
<1>3. [[row EXCEPT !.status = s] EXCEPT !.lease = 0] \in Row
  BY <1>1, <1>2, ColumnUpdates
<1>4. [[row EXCEPT !.status = s] EXCEPT !.wait = w] \in Row
  BY <1>2, ColumnUpdates
<1>5. [[[row EXCEPT !.status = s] EXCEPT !.wait = w] EXCEPT !.lease = 0] \in Row
  BY <1>1, <1>4, ColumnUpdates
<1> QED
  BY <1>3, <1>5

\* The three row updates of the SQL statements keep a row a row.
LEMMA RowUpdates ==
    ASSUME NEW row \in Row
    PROVE  /\ CancelRow(row) \in Row
           /\ SweepRow(row) \in Row
           /\ Insert(row) \in Row
<1>1. row.status \in Status /\ row.attempts \in 0..MAX_ATTEMPTS
  BY DEF Row
<1>2. CancelRow(row) \in Row
  <2>1. "cancelled" \in Status /\ 0 \in 0..MAX_DELAY
    BY OutboxAssumption DEF Status
  <2> QED
    BY <2>1, SettleTyped DEF CancelRow
<1>3. SweepRow(row) \in Row
  BY DEF Row, Status, SweepRow
<1>4. Insert(row) \in Row
  BY OutboxAssumption DEF Row, Status, Insert, Fresh, Absent
<1> QED
  BY <1>2, <1>3, <1>4

LEMMA AbsentAndFreshAreRows == Absent \in Row /\ Fresh \in Row
BY OutboxAssumption DEF Row, Status, Absent, Fresh

LEMMA WithdrawTyped ==
    ASSUME outbox \in [Key -> Row], NEW R
    PROVE  Withdraw(R) \in [Key -> Row]
BY RowUpdates DEF Withdraw

LEMMA InitTyped == Init => TypeOK
BY OutboxAssumption, AbsentAndFreshAreRows
   DEF Init, TypeOK, RepoRow, Unknown, Events, Job

LEMMA IngestTyped ==
    ASSUME TypeOK, NEW batch \in SUBSET Repos, Ingest(batch)
    PROVE  TypeOK'
<1>1. PICK obs \in [batch -> Observation] :
        /\ \A r \in batch : obs[r].changed => repos[r].stored /\ repos[r].rev < MaxRev
        /\ repos' = [r \in Repos |->
                        IF r \in batch THEN Observed(repos[r], obs[r]) ELSE repos[r]]
        /\ outbox' = [k \in Key |->
                        IF RepoOf(k) \notin batch THEN outbox[k]
                        ELSE LET repo == repos[RepoOf(k)]
                                 o == obs[RepoOf(k)]
                             IN IF ~o.accepted \/ repo.ignored THEN CancelRow(outbox[k])
                                ELSE IF EventOf(k) \in Announces(repo, o) THEN Insert(outbox[k])
                                ELSE outbox[k]]
  BY DEF Ingest
<1>2. repos' \in [Repos -> RepoRow]
  <2> SUFFICES ASSUME NEW r \in Repos, r \in batch
               PROVE  Observed(repos[r], obs[r]) \in RepoRow
    BY <1>1 DEF TypeOK
  <2>1. repos[r] \in RepoRow /\ obs[r] \in Observation
    BY DEF TypeOK
  <2>2. obs[r].changed => repos[r].rev + 1 \in Events
    BY <1>1, <2>1, OutboxAssumption DEF RepoRow, Events
  <2> QED
    BY <2>1, <2>2 DEF RepoRow, Observation, Observed
<1>3. outbox' \in [Key -> Row]
  BY <1>1, RowUpdates DEF TypeOK
<1> QED
  BY <1>2, <1>3 DEF TypeOK, Ingest

LEMMA TransactionsTyped == TypeOK /\ Transactions => TypeOK'
<1> SUFFICES ASSUME TypeOK, Transactions PROVE TypeOK'
  OBVIOUS
<1>1. ASSUME NEW batch \in SUBSET Repos, Ingest(batch) PROVE TypeOK'
  BY <1>1, IngestTyped
<1>2. ASSUME NEW r \in Repos, NEW b \in BOOLEAN, SetReview(r, b) PROVE TypeOK'
  BY <1>2, WithdrawTyped DEF SetReview, TypeOK, RepoRow
<1>3. ASSUME NEW r \in Repos, NEW b \in BOOLEAN, SetWatched(r, b) PROVE TypeOK'
  BY <1>3 DEF SetWatched, TypeOK, RepoRow
<1>4. ASSUME NEW r \in Repos, Quarantine(r) PROVE TypeOK'
  BY <1>4, WithdrawTyped DEF Quarantine, TypeOK, RepoRow
<1>5. ASSUME NEW accepts \in SUBSET Repos, ReEvaluate(accepts) PROVE TypeOK'
  <2>1. ASSUME NEW r \in Repos, NEW a \in BOOLEAN, NEW b \in BOOLEAN
        PROVE  [repos[r] EXCEPT !.accepted = a, !.announced = b] \in RepoRow
    <3>1. [repos[r] EXCEPT !.accepted = a] \in RepoRow
      BY DEF TypeOK, RepoRow
    <3> QED
      BY <3>1 DEF RepoRow
  <2>2. PICK seen \in SUBSET Repos :
           repos' = [r \in Repos |->
                       IF r \in seen
                       THEN [repos[r] EXCEPT !.accepted = r \in accepts,
                                             !.announced = @ \/ r \in accepts]
                       ELSE repos[r]]
    BY <1>5 DEF ReEvaluate
  <2>3. ASSUME NEW r \in Repos
        PROVE  [repos[r] EXCEPT !.accepted = r \in accepts,
                                !.announced = @ \/ r \in accepts] \in RepoRow
    <3>1. (r \in accepts) \in BOOLEAN /\ (repos[r].announced \/ r \in accepts) \in BOOLEAN
      OBVIOUS
    <3> QED
      BY <2>1, <3>1
  <2>4. repos' \in [Repos -> RepoRow]
    BY <2>2, <2>3 DEF TypeOK
  <2> QED
    BY <1>5, <2>4, WithdrawTyped DEF ReEvaluate, TypeOK
<1>6. CASE RetryFailed
  BY <1>6, AbsentAndFreshAreRows, OutboxAssumption DEF RetryFailed, TypeOK
<1> QED
  BY <1>1, <1>2, <1>3, <1>4, <1>5, <1>6 DEF Transactions

LEMMA DispatcherTyped == TypeOK /\ Dispatcher => TypeOK'
<1> SUFFICES ASSUME TypeOK, Dispatcher PROVE TypeOK'
  OBVIOUS
<1>1. CASE StartPass
  BY <1>1, OutboxAssumption DEF StartPass, TypeOK
<1>2. ASSUME NEW k \in Key, Claim(k) PROVE TypeOK'
  <2>1. outbox[k] \in Row /\ outbox[k].attempts < MAX_ATTEMPTS
    BY <1>2 DEF TypeOK, Claim, Claimable, Due
  <2>3. ClaimRow(outbox[k]) \in Row
    <3>1. LEASE \in 0..LEASE /\ outbox[k].attempts + 1 \in 0..MAX_ATTEMPTS
      BY <2>1, OutboxAssumption DEF Row
    <3>2. [outbox[k] EXCEPT !.status = "processing"] \in Row
      BY <2>1, ColumnUpdates DEF Status
    <3>3. [[outbox[k] EXCEPT !.status = "processing"]
             EXCEPT !.attempts = outbox[k].attempts + 1] \in Row
      BY <3>1, <3>2, ColumnUpdates
    <3>4. [[[outbox[k] EXCEPT !.status = "processing"]
             EXCEPT !.attempts = outbox[k].attempts + 1] EXCEPT !.lease = LEASE] \in Row
      BY <3>1, <3>3, ColumnUpdates
    <3> QED
      BY <3>4 DEF ClaimRow
  <2>4. outbox' = [q \in Key |-> IF q = k THEN ClaimRow(outbox[k]) ELSE SweepRow(outbox[q])]
    BY <1>2 DEF Claim
  <2>5. outbox' \in [Key -> Row]
    BY <2>3, <2>4, RowUpdates DEF TypeOK
  <2>6. job' \in Job
    BY <1>2, <2>1, OutboxAssumption DEF Claim, Job, Row
  <2> QED
    BY <1>2, <2>5, <2>6, OutboxAssumption DEF Claim, TypeOK
<1>3. CASE ClaimNothing
  BY <1>3, RowUpdates, OutboxAssumption DEF ClaimNothing, TypeOK
<1>4. CASE BudgetSpent
  BY <1>4, OutboxAssumption DEF BudgetSpent, TypeOK
<1>5. CASE Deliver
  <2>1. job \in Job
    BY <1>5 DEF TypeOK, Deliver
  <2>2. job' \in Job
    BY <1>5, <2>1 DEF Deliver, Job
  <2>3. sent' \in [Key -> Nat]
    BY <1>5, <2>1 DEF Deliver, TypeOK, Job
  <2> QED
    BY <1>5, <2>2, <2>3 DEF Deliver, TypeOK
<1>6. CASE FinishOk
  <2>1. job.key \in Key /\ outbox[job.key] \in Row
    BY <1>6 DEF FinishOk, TypeOK, Job
  <2>2. [outbox[job.key] EXCEPT !.status = "delivered", !.lease = 0] \in Row
    <3>1. "delivered" \in Status /\ 0 \in 0..MAX_DELAY
      BY OutboxAssumption DEF Status
    <3> QED
      BY <2>1, <3>1, SettleTyped
  <2>4. outbox' \in [Key -> Row]
    BY <1>6, <2>1, <2>2 DEF FinishOk, TypeOK
  <2> QED
    BY <1>6, <2>4 DEF FinishOk, TypeOK
<1>7. CASE FinishErr
  <2>1. job.key \in Key /\ outbox[job.key] \in Row
    BY <1>7 DEF FinishErr, TypeOK, Job
  <2>2. PICK delay \in 0..MAX_DELAY, status \in Status :
           outbox' = [outbox EXCEPT ![job.key].status = status,
                                    ![job.key].wait = delay,
                                    ![job.key].lease = 0]
    <3>1. Backoff(outbox[job.key].attempts) \subseteq 0..MAX_DELAY
      BY OutboxAssumption DEF Backoff
    <3>2. "failed" \in Status /\ "pending" \in Status
      BY DEF Status
    <3> QED
      BY <1>7, <3>1, <3>2 DEF FinishErr
  <2>3. [outbox[job.key] EXCEPT !.status = status, !.wait = delay, !.lease = 0] \in Row
    BY <2>1, SettleTyped
  <2>4. outbox' \in [Key -> Row]
    BY <2>1, <2>2, <2>3 DEF TypeOK
  <2> QED
    BY <1>7, <2>4 DEF FinishErr, TypeOK
<1>8. CASE FinishRejected
  BY <1>8, OutboxAssumption DEF FinishRejected, TypeOK
<1> QED
  BY <1>1, <1>2, <1>3, <1>4, <1>5, <1>6, <1>7, <1>8 DEF Dispatcher

LEMMA CrashAndTickTyped == TypeOK /\ (Crash \/ Tick) => TypeOK'
<1> SUFFICES ASSUME TypeOK, Crash \/ Tick PROVE TypeOK'
  OBVIOUS
<1>1. CASE Crash
  BY <1>1, OutboxAssumption DEF Crash, TypeOK
<1>2. CASE Tick
  <2>1. ASSUME NEW row \in Row
        PROVE  [row EXCEPT !.lease = CountDown(@), !.wait = CountDown(@)] \in Row
    <3>1. CountDown(row.lease) \in 0..LEASE /\ CountDown(row.wait) \in 0..MAX_DELAY
      BY OutboxAssumption DEF Row, CountDown
    <3>2. [row EXCEPT !.lease = CountDown(row.lease)] \in Row
      BY <3>1, ColumnUpdates
    <3>3. [[row EXCEPT !.lease = CountDown(row.lease)] EXCEPT !.wait = CountDown(row.wait)] \in Row
      BY <3>1, <3>2, ColumnUpdates
    <3> QED
      BY <3>3
  <2> QED
    BY <1>2, <2>1 DEF Tick, TypeOK
<1> QED
  BY <1>1, <1>2

LEMMA NextTyped == TypeOK /\ [Next]_vars => TypeOK'
<1>1. CASE UNCHANGED vars
  BY <1>1 DEF vars, TypeOK
<1> QED
  BY <1>1, TransactionsTyped, DispatcherTyped, CrashAndTickTyped DEF Next

\* Every reachable state is well typed.
THEOREM TypeCorrect == Spec => []TypeOK
BY InitTyped, NextTyped, PTL DEF Spec

(***************************************************************************)
(* What one step does to the rows, in the form the invariants use.         *)
(***************************************************************************)

\* A withdrawn row is not live, and only its status and lease change.
LEMMA CancelRowFacts ==
    ASSUME NEW row \in Row
    PROVE  /\ CancelRow(row).status \notin Live
           /\ CancelRow(row).status \in {row.status, "cancelled"}
           /\ row.status \notin Live => CancelRow(row) = row
           /\ CancelRow(row).attempts = row.attempts
BY DEF CancelRow, Live, Row

\* Before the dispatcher claims, a row only moves from processing to failed, and only
\* when its attempts are spent.
LEMMA SweepRowFacts ==
    ASSUME NEW row \in Row
    PROVE  /\ SweepRow(row).attempts = row.attempts
           /\ SweepRow(row).status # row.status =>
                /\ row.status = "processing" /\ SweepRow(row).status = "failed"
                /\ row.attempts = MAX_ATTEMPTS
BY OutboxAssumption DEF SweepRow, Row

LEMMA ClaimRowFacts ==
    ASSUME NEW row \in Row
    PROVE  /\ ClaimRow(row).status = "processing"
           /\ ClaimRow(row).attempts = row.attempts + 1
BY DEF ClaimRow, Row

\* A dispatcher step, a crash or the passing of time makes no row live, and leaves the
\* repositories alone.
LEMMA QuietSteps ==
    ASSUME TypeOK, Dispatcher \/ Crash \/ Tick, NEW k \in Key
    PROVE  /\ repos' = repos
           /\ outbox'[k].status \in Live => outbox[k].status \in Live
           /\ outbox'[k].status # "absent" <=> outbox[k].status # "absent"
<1> USE DEF Live
<1>0. outbox[k] \in Row
  BY DEF TypeOK
<1>1. CASE StartPass \/ BudgetSpent \/ Deliver \/ FinishRejected \/ Crash
  BY <1>1 DEF StartPass, BudgetSpent, Deliver, FinishRejected, Crash
<1>2. ASSUME NEW q \in Key, Claim(q)
      PROVE  /\ repos' = repos
             /\ outbox'[k].status \in Live => outbox[k].status \in Live
             /\ outbox'[k].status # "absent" <=> outbox[k].status # "absent"
  <2>1. outbox[q].status \in {"pending", "processing"}
    BY <1>2 DEF Claim, Claimable, Due
  <2>2. outbox'[k] = IF k = q THEN ClaimRow(outbox[k]) ELSE SweepRow(outbox[k])
    BY <1>2 DEF Claim
  <2> QED
    BY <1>0, <1>2, <2>1, <2>2, ClaimRowFacts, SweepRowFacts DEF Claim
<1>3. CASE ClaimNothing
  <2>1. outbox'[k] = SweepRow(outbox[k])
    BY <1>3 DEF ClaimNothing
  <2> QED
    BY <1>0, <1>3, <2>1, SweepRowFacts DEF ClaimNothing
<1>4. CASE FinishOk
  BY <1>0, <1>4 DEF FinishOk, Held, TypeOK, Row, Job
<1>5. CASE FinishErr
  BY <1>0, <1>5 DEF FinishErr, Held, TypeOK, Row, Job
<1>6. CASE Tick
  BY <1>0, <1>6 DEF Tick, TypeOK, Row
<1> QED
  BY <1>1, <1>2, <1>3, <1>4, <1>5, <1>6 DEF Dispatcher

(***************************************************************************)
(* A row that can still be sent belongs to an eligible repository.         *)
(***************************************************************************)

LEMMA TransactionsKeepLiveRowsEligible ==
    TypeOK /\ LiveRowsEligible /\ Transactions => LiveRowsEligible'
<1> SUFFICES ASSUME TypeOK, LiveRowsEligible, Transactions,
                    NEW k \in Key, outbox'[k].status \in Live
             PROVE  Eligible(repos'[RepoOf(k)])
  BY DEF LiveRowsEligible
<1>0. /\ RepoOf(k) \in Repos /\ repos[RepoOf(k)] \in RepoRow
      /\ outbox[k] \in Row
      /\ outbox[k].status \in Live => Eligible(repos[RepoOf(k)])
  BY DEF TypeOK, LiveRowsEligible, RepoOf, Key
<1>w. ASSUME NEW R, outbox' = Withdraw(R)
      PROVE  RepoOf(k) \notin R /\ outbox'[k] = outbox[k]
  BY <1>w, <1>0, CancelRowFacts DEF Withdraw
<1>1. ASSUME NEW batch \in SUBSET Repos, Ingest(batch)
      PROVE  Eligible(repos'[RepoOf(k)])
  <2>1. CASE RepoOf(k) \notin batch
    BY <1>0, <1>1, <2>1 DEF Ingest
  <2>2. CASE RepoOf(k) \in batch
    <3>1. PICK o \in Observation :
            /\ repos'[RepoOf(k)] = Observed(repos[RepoOf(k)], o)
            /\ ~o.accepted \/ repos[RepoOf(k)].ignored => outbox'[k] = CancelRow(outbox[k])
            /\ ~repos[RepoOf(k)].private
      BY <1>0, <1>1, <2>2 DEF Ingest
    <3>2. o.accepted /\ ~repos[RepoOf(k)].ignored
      BY <1>0, <3>1, CancelRowFacts
    <3> QED
      BY <1>0, <3>1, <3>2 DEF Observed, Eligible, RepoRow
  <2> QED
    BY <2>1, <2>2
<1>2. ASSUME NEW r \in Repos, NEW b \in BOOLEAN, SetReview(r, b)
      PROVE  Eligible(repos'[RepoOf(k)])
  <2>1. CASE b
    BY <1>0, <1>2, <1>w, <2>1 DEF SetReview
  <2>2. CASE ~b
    BY <1>0, <1>2, <2>2 DEF SetReview, TypeOK, Eligible, RepoRow
  <2> QED
    BY <2>1, <2>2
<1>3. ASSUME NEW r \in Repos, NEW b \in BOOLEAN, SetWatched(r, b)
      PROVE  Eligible(repos'[RepoOf(k)])
  BY <1>0, <1>3 DEF SetWatched, TypeOK, Eligible, RepoRow
<1>4. ASSUME NEW r \in Repos, Quarantine(r)
      PROVE  Eligible(repos'[RepoOf(k)])
  BY <1>0, <1>4, <1>w DEF Quarantine
<1>5. ASSUME NEW accepts \in SUBSET Repos, ReEvaluate(accepts)
      PROVE  Eligible(repos'[RepoOf(k)])
  <2>1. CASE RepoOf(k) \in accepts
    BY <1>0, <1>5, <1>w, <2>1 DEF ReEvaluate, Eligible, RepoRow
  <2>2. CASE RepoOf(k) \notin accepts
    BY <1>0, <1>5, <1>w, <2>2 DEF ReEvaluate
  <2> QED
    BY <2>1, <2>2
<1>6. CASE RetryFailed
  BY <1>0, <1>6 DEF RetryFailed, Live
<1> QED
  BY <1>1, <1>2, <1>3, <1>4, <1>5, <1>6 DEF Transactions

\* No transaction, crash or delay leaves a sendable row behind for a repository that is
\* private, ignored or not accepted.
THEOREM LiveRowsAlwaysEligible == Spec => []LiveRowsEligible
<1>1. Init => LiveRowsEligible
  BY DEF Init, LiveRowsEligible, Absent, Live
<1>2. TypeOK /\ LiveRowsEligible /\ [Next]_vars => LiveRowsEligible'
  <2>1. CASE UNCHANGED vars
    BY <2>1 DEF vars, LiveRowsEligible
  <2>2. CASE Next
    BY <2>2, TransactionsKeepLiveRowsEligible, QuietSteps DEF Next, LiveRowsEligible
  <2> QED
    BY <2>1, <2>2
<1> QED
  BY <1>1, <1>2, TypeCorrect, PTL DEF Spec

(***************************************************************************)
(* Rows are about the past, so no event key is ever enqueued twice.        *)
(***************************************************************************)

\* Repositories never forget that they are stored, that they were announced, or how many
\* revisions they had; a new row is one the observation announces.
LEMMA TransactionsKeepHistory ==
    TypeOK /\ RowsAreHistory /\ Transactions => RowsAreHistory'
<1> SUFFICES ASSUME TypeOK, RowsAreHistory, Transactions,
                    NEW k \in Key, outbox'[k].status # "absent"
             PROVE  /\ repos'[RepoOf(k)].stored
                    /\ EventOf(k) <= repos'[RepoOf(k)].rev
                    /\ EventOf(k) = 0 => repos'[RepoOf(k)].announced
  BY DEF RowsAreHistory
<1>0. /\ RepoOf(k) \in Repos /\ EventOf(k) \in Nat
      /\ repos[RepoOf(k)] \in RepoRow /\ repos[RepoOf(k)].rev \in Nat
      /\ outbox[k] \in Row
      /\ outbox[k].status # "absent" =>
            /\ repos[RepoOf(k)].stored
            /\ EventOf(k) <= repos[RepoOf(k)].rev
            /\ EventOf(k) = 0 => repos[RepoOf(k)].announced
  BY OutboxAssumption DEF TypeOK, RowsAreHistory, RepoOf, EventOf, Key, Events, RepoRow
<1>c. CancelRow(outbox[k]).status # "absent" => outbox[k].status # "absent"
  BY <1>0 DEF CancelRow, Live
<1>w. ASSUME NEW R, outbox' = Withdraw(R) PROVE outbox[k].status # "absent"
  BY <1>w, <1>c DEF Withdraw
<1>1. ASSUME NEW batch \in SUBSET Repos, Ingest(batch)
      PROVE  /\ repos'[RepoOf(k)].stored
             /\ EventOf(k) <= repos'[RepoOf(k)].rev
             /\ EventOf(k) = 0 => repos'[RepoOf(k)].announced
  <2>1. CASE RepoOf(k) \notin batch
    BY <1>0, <1>1, <2>1 DEF Ingest
  <2>2. CASE RepoOf(k) \in batch
    <3> DEFINE repo == repos[RepoOf(k)]
    <3>1. PICK o \in Observation :
            /\ repos'[RepoOf(k)] = Observed(repo, o)
            /\ o.changed => repo.stored
            /\ outbox'[k] = IF ~o.accepted \/ repo.ignored THEN CancelRow(outbox[k])
                            ELSE IF EventOf(k) \in Announces(repo, o) THEN Insert(outbox[k])
                            ELSE outbox[k]
      BY <1>0, <1>1, <2>2 DEF Ingest
    <3>2. CASE outbox[k].status # "absent"
      BY <1>0, <3>1, <3>2 DEF Observed, RepoRow
    <3>3. CASE outbox[k].status = "absent"
      <4>1. o.accepted /\ ~repo.ignored /\ EventOf(k) \in Announces(repo, o)
        BY <1>c, <3>1, <3>3
      <4>2. \/ EventOf(k) = 0
            \/ EventOf(k) = repo.rev + 1 /\ o.changed
        BY <4>1 DEF Announces
      <4>3. /\ repos'[RepoOf(k)].stored
            /\ repos'[RepoOf(k)].announced
            /\ repos'[RepoOf(k)].rev = IF o.changed THEN repo.rev + 1 ELSE repo.rev
        BY <1>0, <3>1, <4>1 DEF Observed, RepoRow
      <4> QED
        BY <1>0, <4>2, <4>3
    <3> QED
      BY <3>2, <3>3
  <2> QED
    BY <2>1, <2>2
<1>2. ASSUME NEW r \in Repos, NEW b \in BOOLEAN, SetReview(r, b)
      PROVE  /\ repos'[RepoOf(k)].stored
             /\ EventOf(k) <= repos'[RepoOf(k)].rev
             /\ EventOf(k) = 0 => repos'[RepoOf(k)].announced
  <2>1. outbox[k].status # "absent"
    BY <1>2, <1>w DEF SetReview
  <2> QED
    BY <1>0, <1>2, <2>1 DEF SetReview, TypeOK, RepoRow
<1>3. ASSUME NEW r \in Repos, NEW b \in BOOLEAN, SetWatched(r, b)
      PROVE  /\ repos'[RepoOf(k)].stored
             /\ EventOf(k) <= repos'[RepoOf(k)].rev
             /\ EventOf(k) = 0 => repos'[RepoOf(k)].announced
  BY <1>0, <1>3 DEF SetWatched, TypeOK, RepoRow
<1>4. ASSUME NEW r \in Repos, Quarantine(r)
      PROVE  /\ repos'[RepoOf(k)].stored
             /\ EventOf(k) <= repos'[RepoOf(k)].rev
             /\ EventOf(k) = 0 => repos'[RepoOf(k)].announced
  BY <1>0, <1>4, <1>w DEF Quarantine, TypeOK, RepoRow
<1>5. ASSUME NEW accepts \in SUBSET Repos, ReEvaluate(accepts)
      PROVE  /\ repos'[RepoOf(k)].stored
             /\ EventOf(k) <= repos'[RepoOf(k)].rev
             /\ EventOf(k) = 0 => repos'[RepoOf(k)].announced
  <2>1. outbox[k].status # "absent"
    BY <1>5, <1>w DEF ReEvaluate
  <2> QED
    BY <1>0, <1>5, <2>1 DEF ReEvaluate, RepoRow
<1>6. CASE RetryFailed
  <2>1. outbox[k].status # "absent" /\ repos' = repos
    BY <1>6 DEF RetryFailed
  <2> QED
    BY <1>0, <2>1
<1> QED
  BY <1>1, <1>2, <1>3, <1>4, <1>5, <1>6 DEF Transactions

\* The event a commit is about to enqueue never has a row: the database's
\* ON CONFLICT DO NOTHING drops no notification.
THEOREM RowsAreAlwaysHistory == Spec => []RowsAreHistory
<1>1. Init => RowsAreHistory
  BY DEF Init, RowsAreHistory, Absent
<1>2. TypeOK /\ RowsAreHistory /\ [Next]_vars => RowsAreHistory'
  <2>1. CASE UNCHANGED vars
    BY <2>1 DEF vars, RowsAreHistory
  <2>2. CASE Next
    BY <2>2, TransactionsKeepHistory, QuietSteps DEF Next, RowsAreHistory
  <2> QED
    BY <2>1, <2>2
<1> QED
  BY <1>1, <1>2, TypeCorrect, PTL DEF Spec

(***************************************************************************)
(* The row in hand.                                                        *)
(***************************************************************************)

\* A transaction never touches the attempts of a row that is processing or cancelled,
\* and moves it at most to cancelled.
LEMMA TransactionsRespectClaims ==
    ASSUME TypeOK, Transactions, NEW k \in Key,
           outbox[k].status \in {"processing", "cancelled"}
    PROVE  /\ outbox'[k].status \in {"processing", "cancelled"}
           /\ outbox'[k].attempts = outbox[k].attempts
           /\ job' = job
<1>0. outbox[k] \in Row /\ RepoOf(k) \in Repos
  BY DEF TypeOK, RepoOf, Key
<1>w. ASSUME NEW R, outbox' = Withdraw(R)
      PROVE  /\ outbox'[k].status \in {"processing", "cancelled"}
             /\ outbox'[k].attempts = outbox[k].attempts
  BY <1>0, <1>w, CancelRowFacts DEF Withdraw
<1>1. ASSUME NEW batch \in SUBSET Repos, Ingest(batch)
      PROVE  /\ outbox'[k].status \in {"processing", "cancelled"}
             /\ outbox'[k].attempts = outbox[k].attempts
             /\ job' = job
  <2>1. Insert(outbox[k]) = outbox[k]
    BY DEF Insert
  <2>2. outbox'[k] \in {outbox[k], CancelRow(outbox[k])}
    BY <1>0, <1>1, <2>1 DEF Ingest
  <2> QED
    BY <1>0, <1>1, <2>2, CancelRowFacts DEF Ingest
<1>2. ASSUME NEW r \in Repos, NEW b \in BOOLEAN, SetReview(r, b) \/ SetWatched(r, b)
      PROVE  /\ outbox'[k].status \in {"processing", "cancelled"}
             /\ outbox'[k].attempts = outbox[k].attempts
             /\ job' = job
  BY <1>2, <1>w DEF SetReview, SetWatched
<1>3. ASSUME NEW r \in Repos, Quarantine(r)
      PROVE  /\ outbox'[k].status \in {"processing", "cancelled"}
             /\ outbox'[k].attempts = outbox[k].attempts
             /\ job' = job
  BY <1>3, <1>w DEF Quarantine
<1>4. ASSUME NEW accepts \in SUBSET Repos, ReEvaluate(accepts)
      PROVE  /\ outbox'[k].status \in {"processing", "cancelled"}
             /\ outbox'[k].attempts = outbox[k].attempts
             /\ job' = job
  BY <1>4, <1>w DEF ReEvaluate
<1>5. CASE RetryFailed
  BY <1>0, <1>5 DEF RetryFailed
<1> QED
  BY <1>1, <1>2, <1>3, <1>4, <1>5 DEF Transactions

\* Between a claim and its settlement the row is either still that claim or cancelled,
\* whatever commits in between.
THEOREM HeldRowIsAlwaysMine == Spec => []HeldRowIsMine
<1>1. Init => HeldRowIsMine
  BY DEF Init, HeldRowIsMine
<1>2. TypeOK /\ HeldRowIsMine /\ [Next]_vars => HeldRowIsMine'
  <2> SUFFICES ASSUME TypeOK, HeldRowIsMine, [Next]_vars, job' # NoJob
               PROVE  /\ outbox'[job'.key].status \in {"processing", "cancelled"}
                      /\ outbox'[job'.key].attempts = job'.attempt
    BY DEF HeldRowIsMine
  <2>1. CASE UNCHANGED vars
    BY <2>1 DEF vars, HeldRowIsMine
  <2>2. CASE Transactions
    <3>1. job' = job
      BY <2>2 DEF Transactions, Ingest, SetReview, SetWatched, Quarantine, ReEvaluate, RetryFailed
    <3>2. job.key \in Key
      BY <3>1 DEF TypeOK, Job
    <3> QED
      BY <2>2, <3>1, <3>2, TransactionsRespectClaims DEF HeldRowIsMine
  <2>3. ASSUME NEW k \in Key, Claim(k)
        PROVE  /\ outbox'[job'.key].status \in {"processing", "cancelled"}
               /\ outbox'[job'.key].attempts = job'.attempt
    <3>1. job'.key = k /\ job'.attempt = outbox[k].attempts + 1 /\ outbox'[k] = ClaimRow(outbox[k])
      BY <2>3 DEF Claim
    <3> QED
      BY <3>1, ClaimRowFacts DEF TypeOK
  <2>4. CASE Deliver
    <3>1. job \in Job
      BY <2>4 DEF Deliver, TypeOK
    <3>2. job'.key = job.key /\ job'.attempt = job.attempt /\ outbox' = outbox /\ job # NoJob
      BY <2>4, <3>1 DEF Deliver, Job
    <3> QED
      BY <3>2 DEF HeldRowIsMine
  <2>5. CASE StartPass \/ ClaimNothing \/ BudgetSpent
    BY <2>5 DEF StartPass, ClaimNothing, BudgetSpent
  <2>6. CASE FinishOk \/ FinishErr \/ FinishRejected \/ Crash
    BY <2>6 DEF FinishOk, FinishErr, FinishRejected, Crash
  <2>7. CASE Tick
    <3>1. job \in Job /\ job' = job
      BY <2>7 DEF Tick, TypeOK
    <3>2. outbox[job.key] \in Row /\ job.key \in Key
      BY <3>1 DEF TypeOK, Job
    <3>3. /\ outbox'[job.key].status = outbox[job.key].status
          /\ outbox'[job.key].attempts = outbox[job.key].attempts
      BY <2>7, <3>2 DEF Tick, Row
    <3> QED
      BY <3>1, <3>3 DEF HeldRowIsMine
  <2> QED
    BY <2>1, <2>2, <2>3, <2>4, <2>5, <2>6, <2>7 DEF Next, Dispatcher
<1> QED
  BY <1>1, <1>2, TypeCorrect, PTL DEF Spec

(***************************************************************************)
(* Attempts: what a row has paid for.                                      *)
(***************************************************************************)

\* A transaction keeps the attempts of every row, except that "retry failed" starts a
\* failed row over and an insertion starts an absent one.
LEMMA TransactionsAndAttempts ==
    ASSUME TypeOK, Transactions, NEW k \in Key
    PROVE  /\ \/ /\ outbox'[k].attempts = outbox[k].attempts
                 /\ outbox'[k].status \in {outbox[k].status, "cancelled"}
              \/ outbox[k].status \in {"absent", "failed"} /\ outbox'[k] = Fresh
           /\ outbox[k].status = "failed" /\ outbox'[k] = Fresh => retries' = retries + 1
           /\ retries' \in {retries, retries + 1}
           /\ job' = job /\ sent' = sent
           /\ outbox'[k].status = "absent" => outbox[k].status = "absent"
<1> DEFINE Goal ==
           /\ \/ /\ outbox'[k].attempts = outbox[k].attempts
                 /\ outbox'[k].status \in {outbox[k].status, "cancelled"}
              \/ outbox[k].status \in {"absent", "failed"} /\ outbox'[k] = Fresh
           /\ outbox[k].status = "failed" /\ outbox'[k] = Fresh => retries' = retries + 1
           /\ retries' \in {retries, retries + 1}
           /\ job' = job /\ sent' = sent
           /\ outbox'[k].status = "absent" => outbox[k].status = "absent"
<1>0. /\ outbox[k] \in Row /\ RepoOf(k) \in Repos
      /\ Fresh.status = "pending"
      /\ CancelRow(outbox[k]).status # "pending" \/ CancelRow(outbox[k]) = outbox[k]
      /\ CancelRow(outbox[k]).status = "absent" => outbox[k].status = "absent"
  BY CancelRowFacts DEF TypeOK, RepoOf, Key, Fresh, Absent, CancelRow, Live, Row
<1>w. ASSUME outbox'[k] \in {outbox[k], CancelRow(outbox[k])},
             retries' = retries, job' = job, sent' = sent
      PROVE  Goal
  BY <1>0, <1>w, CancelRowFacts
<1>1. ASSUME NEW batch \in SUBSET Repos, Ingest(batch) PROVE Goal
  <2>1. outbox'[k] \in {outbox[k], CancelRow(outbox[k]), Insert(outbox[k])}
    BY <1>0, <1>1 DEF Ingest
  <2>2. CASE outbox'[k] = Insert(outbox[k]) /\ outbox[k].status = "absent"
    BY <1>0, <1>1, <2>2 DEF Ingest, Insert
  <2> QED
    BY <1>1, <1>w, <2>1, <2>2 DEF Ingest, Insert
<1>2. ASSUME NEW r \in Repos, NEW b \in BOOLEAN, SetReview(r, b) \/ SetWatched(r, b) PROVE Goal
  BY <1>2, <1>w DEF SetReview, SetWatched, Withdraw
<1>3. ASSUME NEW r \in Repos, Quarantine(r) PROVE Goal
  BY <1>3, <1>w DEF Quarantine, Withdraw
<1>4. ASSUME NEW accepts \in SUBSET Repos, ReEvaluate(accepts) PROVE Goal
  BY <1>4, <1>w DEF ReEvaluate, Withdraw
<1>5. CASE RetryFailed
  BY <1>0, <1>5 DEF RetryFailed
<1> QED
  BY <1>1, <1>2, <1>3, <1>4, <1>5 DEF Transactions

\* Outside the transactions only a claim adds an attempt, and a row becomes failed only
\* when its attempts are spent.
LEMMA QuietStepsAndAttempts ==
    ASSUME TypeOK, NEW k \in Key,
           \/ StartPass \/ ClaimNothing \/ BudgetSpent \/ Deliver
           \/ FinishOk \/ FinishErr \/ FinishRejected \/ Crash \/ Tick
    PROVE  /\ outbox'[k].attempts = outbox[k].attempts
           /\ outbox'[k].status = "failed" =>
                outbox[k].status = "failed" \/ outbox[k].attempts = MAX_ATTEMPTS
<1>0. outbox[k] \in Row
  BY DEF TypeOK
<1>1. CASE StartPass \/ BudgetSpent \/ Deliver \/ FinishRejected \/ Crash
  BY <1>1 DEF StartPass, BudgetSpent, Deliver, FinishRejected, Crash
<1>2. CASE ClaimNothing
  BY <1>0, <1>2, SweepRowFacts DEF ClaimNothing
<1>3. CASE FinishOk
  BY <1>0, <1>3 DEF FinishOk, TypeOK, Row, Job
<1>4. CASE FinishErr
  <2>1. job.key \in Key
    BY <1>4 DEF FinishErr, TypeOK, Job
  <2>2. outbox[job.key].attempts >= MAX_ATTEMPTS => outbox[job.key].attempts = MAX_ATTEMPTS
    BY <2>1, OutboxAssumption DEF TypeOK, Row
  <2> QED
    <3>1. CASE k = job.key
      <4>1. PICK delay \in Backoff(outbox[k].attempts) :
               outbox'[k] = [outbox[k] EXCEPT
                   !.status = IF outbox[k].attempts >= MAX_ATTEMPTS THEN "failed" ELSE "pending",
                   !.wait = delay,
                   !.lease = 0]
        BY <1>4, <2>1, <3>1 DEF FinishErr, TypeOK
      <4>2. /\ outbox'[k].attempts = outbox[k].attempts
            /\ outbox'[k].status = IF outbox[k].attempts >= MAX_ATTEMPTS THEN "failed" ELSE "pending"
        BY <1>0, <4>1 DEF Row
      <4> QED
        BY <2>2, <3>1, <4>2
    <3>2. CASE k # job.key
      <4>1. outbox'[k] = outbox[k]
        BY <1>4, <2>1, <3>2 DEF FinishErr, TypeOK
      <4> QED
        BY <4>1
    <3> QED
      BY <3>1, <3>2
<1>5. CASE Tick
  BY <1>0, <1>5 DEF Tick, Row
<1> QED
  BY <1>1, <1>2, <1>3, <1>4, <1>5

\* A notification is given up only after MAX_ATTEMPTS claims, however they ended.
THEOREM FailedIsAlwaysExhausted == Spec => []FailedIsExhausted
<1>1. Init => FailedIsExhausted
  BY DEF Init, FailedIsExhausted, Absent
<1>2. TypeOK /\ FailedIsExhausted /\ [Next]_vars => FailedIsExhausted'
  <2> SUFFICES ASSUME TypeOK, FailedIsExhausted, [Next]_vars,
                      NEW k \in Key, outbox'[k].status = "failed"
               PROVE  outbox'[k].attempts = MAX_ATTEMPTS
    BY DEF FailedIsExhausted
  <2>0. /\ outbox[k] \in Row
        /\ outbox[k].status = "failed" => outbox[k].attempts = MAX_ATTEMPTS
    BY DEF TypeOK, FailedIsExhausted
  <2>1. CASE UNCHANGED vars
    BY <2>0, <2>1 DEF vars
  <2>2. CASE Transactions
    <3>1. Fresh.status # "failed"
      BY DEF Fresh, Absent
    <3> QED
      BY <2>0, <2>2, <3>1, TransactionsAndAttempts
  <2>3. ASSUME NEW q \in Key, Claim(q)
        PROVE  outbox'[k].attempts = MAX_ATTEMPTS
    <3>1. outbox'[k] = IF k = q THEN ClaimRow(outbox[k]) ELSE SweepRow(outbox[k])
      BY <2>3 DEF Claim
    <3> QED
      BY <2>0, <3>1, ClaimRowFacts, SweepRowFacts
  <2> QED
    BY <2>0, <2>1, <2>2, <2>3, QuietStepsAndAttempts DEF Next, Dispatcher
<1> QED
  BY <1>1, <1>2, TypeCorrect, PTL DEF Spec

(***************************************************************************)
(* The number of messages.                                                 *)
(***************************************************************************)

\* A row that was never inserted has no attempts.
AbsentIsBlank == \A k \in Key : outbox[k].status = "absent" => outbox[k].attempts = 0

LEMMA AbsentStaysBlank == TypeOK /\ AbsentIsBlank /\ [Next]_vars => AbsentIsBlank'
<1> SUFFICES ASSUME TypeOK, AbsentIsBlank, [Next]_vars,
                    NEW k \in Key, outbox'[k].status = "absent"
             PROVE  outbox'[k].attempts = 0
  BY DEF AbsentIsBlank
<1>0. outbox[k].status = "absent" => outbox[k].attempts = 0
  BY DEF AbsentIsBlank
<1>1. CASE UNCHANGED vars
  BY <1>0, <1>1 DEF vars
<1>2. CASE Transactions
  <2>1. Fresh.status = "pending"
    BY DEF Fresh, Absent
  <2> QED
    BY <1>0, <1>2, <2>1, TransactionsAndAttempts
<1>3. ASSUME NEW q \in Key, Claim(q) PROVE outbox'[k].attempts = 0
  <2>1. outbox[k].status = "absent"
    BY <1>3, QuietSteps DEF Dispatcher
  <2>2. k # q
    BY <1>3, <2>1 DEF Claim, Claimable, Due
  <2> QED
    BY <1>0, <1>3, <2>1, <2>2, SweepRowFacts DEF Claim, TypeOK
<1> QED
  BY <1>0, <1>1, <1>2, <1>3, QuietSteps, QuietStepsAndAttempts DEF Next, Dispatcher

\* The next message of a row is paid for before it is sent.
LEMMA NextKeepsSendsBounded ==
    TypeOK /\ AbsentIsBlank /\ SendsAreBounded /\ [Next]_vars => SendsAreBounded'
<1> SUFFICES ASSUME TypeOK, AbsentIsBlank, SendsAreBounded, [Next]_vars, NEW k \in Key
             PROVE  (sent[k] + Unsent(k) <= outbox[k].attempts + MAX_ATTEMPTS * retries)'
  BY DEF SendsAreBounded
<1>0. /\ sent[k] + Unsent(k) <= outbox[k].attempts + MAX_ATTEMPTS * retries
      /\ sent[k] \in Nat /\ Unsent(k) \in {0, 1} /\ Unsent(k)' \in {0, 1}
      /\ outbox[k].attempts \in 0..MAX_ATTEMPTS /\ retries \in Nat /\ MAX_ATTEMPTS \in Nat
      /\ MAX_ATTEMPTS * retries \in Nat
      /\ MAX_ATTEMPTS * (retries + 1) = MAX_ATTEMPTS * retries + MAX_ATTEMPTS
      /\ outbox[k].status = "absent" => outbox[k].attempts = 0
      /\ Fresh.attempts = 0
  BY OutboxAssumption DEF SendsAreBounded, TypeOK, Row, Unsent, AbsentIsBlank, Fresh, Absent
<1>1. CASE UNCHANGED vars
  <2>1. Unsent(k)' = Unsent(k)
    BY <1>1 DEF vars, Unsent
  <2> QED
    BY <1>0, <1>1, <2>1 DEF vars
<1>2. CASE Transactions
  <2>1. /\ sent' = sent /\ job' = job
        /\ \/ outbox'[k].attempts = outbox[k].attempts
           \/ outbox[k].status = "absent" /\ outbox'[k] = Fresh
           \/ outbox[k].status = "failed" /\ outbox'[k] = Fresh /\ retries' = retries + 1
        /\ retries' \in {retries, retries + 1}
    BY <1>2, TransactionsAndAttempts
  <2>2. Unsent(k)' = Unsent(k)
    BY <2>1 DEF Unsent
  <2>3. CASE retries' = retries
    <3>1. outbox'[k].attempts >= outbox[k].attempts /\ outbox'[k].attempts \in Nat
      BY <1>0, <2>1, <2>3
    <3> QED
      BY <1>0, <2>1, <2>2, <2>3, <3>1
  <2>4. CASE retries' = retries + 1
    <3>1. outbox'[k].attempts \in Nat
      BY <1>0, <2>1
    <3>2. MAX_ATTEMPTS * retries' = MAX_ATTEMPTS * retries + MAX_ATTEMPTS
      BY <1>0, <2>4
    <3>3. sent[k] + Unsent(k) <= outbox[k].attempts + MAX_ATTEMPTS * retries
      BY <1>0
    <3> QED
      BY <1>0, <2>1, <2>2, <3>1, <3>2, <3>3
  <2> QED
    BY <2>1, <2>3, <2>4
<1>3. ASSUME NEW q \in Key, Claim(q)
      PROVE  (sent[k] + Unsent(k) <= outbox[k].attempts + MAX_ATTEMPTS * retries)'
  <2>1. sent' = sent /\ retries' = retries /\ job = NoJob /\ job'.key = q
    BY <1>3 DEF Claim
  <2>2. Unsent(k) = 0
    BY <2>1 DEF Unsent
  <2>3. outbox'[k] = IF k = q THEN ClaimRow(outbox[k]) ELSE SweepRow(outbox[k])
    BY <1>3 DEF Claim
  <2>4. CASE k = q
    BY <1>0, <2>1, <2>2, <2>3, <2>4, ClaimRowFacts DEF TypeOK
  <2>5. CASE k # q
    <3>1. Unsent(k)' = 0
      BY <2>1, <2>5 DEF Unsent
    <3> QED
      BY <1>0, <2>1, <2>2, <2>3, <2>5, <3>1, SweepRowFacts DEF TypeOK
  <2> QED
    BY <2>4, <2>5
<1>4. CASE Deliver
  <2>1. /\ job \in Job /\ job.key \in Key /\ job # NoJob /\ job.step = "claimed"
        /\ outbox' = outbox /\ retries' = retries
        /\ job'.key = job.key /\ job'.step # "claimed"
    BY <1>4 DEF Deliver, TypeOK, Job
  <2>2. Unsent(k)' = 0
    BY <2>1 DEF Unsent
  <2>3. CASE k = job.key
    <3>1. Unsent(k) = 1 /\ sent'[k] \in {sent[k], sent[k] + 1}
      BY <1>4, <2>1, <2>3 DEF Unsent, Deliver, TypeOK
    <3> QED
      BY <1>0, <2>1, <2>2, <3>1
  <2>4. CASE k # job.key
    <3>1. sent'[k] = sent[k]
      BY <1>4, <2>1, <2>4 DEF Deliver, TypeOK
    <3> QED
      BY <1>0, <2>1, <2>2, <3>1
  <2> QED
    BY <2>3, <2>4
<1>5. CASE StartPass \/ ClaimNothing \/ BudgetSpent \/ FinishOk \/ FinishErr
           \/ FinishRejected \/ Crash \/ Tick
  <2>1. sent' = sent /\ retries' = retries /\ job' \in {job, NoJob}
    BY <1>5 DEF StartPass, ClaimNothing, BudgetSpent, FinishOk, FinishErr, FinishRejected,
                Crash, Tick
  <2>2. Unsent(k)' <= Unsent(k)
    BY <1>0, <2>1 DEF Unsent
  <2>3. outbox'[k].attempts = outbox[k].attempts
    BY <1>5, QuietStepsAndAttempts
  <2> QED
    BY <1>0, <2>1, <2>2, <2>3
<1> QED
  BY <1>1, <1>2, <1>3, <1>4, <1>5 DEF Next, Dispatcher

\* Crashes, expired leases and lost answers repeat a message at most as often as it was
\* claimed: MAX_ATTEMPTS times for each use of "retry failed", and for the first round.
THEOREM SendsAlwaysBounded == Spec => []SendsAreBounded
<1>1. Init => AbsentIsBlank /\ SendsAreBounded
  BY OutboxAssumption DEF Init, AbsentIsBlank, SendsAreBounded, Absent, Unsent
<1> QED
  BY <1>1, AbsentStaysBlank, NextKeepsSendsBounded, TypeCorrect, PTL DEF Spec

(***************************************************************************)
(* Delivered means received.                                               *)
(***************************************************************************)

\* The strengthening: a success the dispatcher has in hand was received.
OkWasReceived ==
    job # NoJob /\ job.step = "ok" /\ ~IsFiltered(job.key) => sent[job.key] > 0

LEMMA SentOnlyGrows ==
    ASSUME TypeOK, [Next]_vars, NEW k \in Key
    PROVE  sent'[k] \in Nat /\ sent'[k] >= sent[k]
<1>0. sent[k] \in Nat
  BY DEF TypeOK
<1>1. CASE Deliver
  BY <1>1 DEF Deliver, TypeOK, Job
<1>2. CASE Transactions
  BY <1>0, <1>2, TransactionsAndAttempts
<1>3. CASE UNCHANGED vars \/ StartPass \/ (\E q \in Key : Claim(q)) \/ ClaimNothing \/ BudgetSpent
           \/ FinishOk \/ FinishErr \/ FinishRejected \/ Crash \/ Tick
  <2>1. sent' = sent
    BY <1>3 DEF vars, StartPass, Claim, ClaimNothing, BudgetSpent, FinishOk, FinishErr,
                FinishRejected, Crash, Tick
  <2> QED
    BY <1>0, <2>1
<1> QED
  BY <1>1, <1>2, <1>3 DEF Next, Dispatcher

\* A success in the dispatcher's hands stays received, whatever commits meanwhile.
LEMMA OkIsAlwaysReceived == Spec => []OkWasReceived
<1>1. Init => OkWasReceived
  BY DEF Init, OkWasReceived
<1>2. TypeOK /\ OkWasReceived /\ [Next]_vars => OkWasReceived'
  <2> SUFFICES ASSUME TypeOK, OkWasReceived, [Next]_vars,
                      job' # NoJob, job'.step = "ok", ~IsFiltered(job'.key)
               PROVE  sent'[job'.key] > 0
    BY DEF OkWasReceived
  <2>1. CASE job' = job
    <3>1. job.key \in Key /\ sent[job.key] \in Nat /\ sent[job.key] > 0
      BY <2>1 DEF OkWasReceived, TypeOK, Job
    <3> QED
      BY <2>1, <3>1, SentOnlyGrows
  <2>2. CASE Deliver
    BY <2>2 DEF Deliver, TypeOK, Job, IsFiltered
  <2>3. ASSUME NEW k \in Key, Claim(k) PROVE sent'[job'.key] > 0
    BY <2>3 DEF Claim
  <2>4. CASE FinishOk \/ FinishErr \/ FinishRejected \/ Crash
    BY <2>4 DEF FinishOk, FinishErr, FinishRejected, Crash
  <2>5. Transactions => job' = job
    BY DEF Transactions, Ingest, SetReview, SetWatched, Quarantine, ReEvaluate, RetryFailed
  <2> QED
    BY <2>1, <2>2, <2>3, <2>4, <2>5
       DEF Next, Dispatcher, vars, StartPass, ClaimNothing, BudgetSpent, Tick
<1> QED
  BY <1>1, <1>2, TypeCorrect, PTL DEF Spec

\* No crash, timeout or cancellation makes an unsent notification look delivered.
THEOREM DeliveredWasAlwaysReceived == Spec => []DeliveredWasReceived
<1>1. Init => DeliveredWasReceived
  BY DEF Init, DeliveredWasReceived, Absent
<1>2. TypeOK /\ DeliveredWasReceived /\ OkWasReceived /\ [Next]_vars => DeliveredWasReceived'
  <2> SUFFICES ASSUME TypeOK, DeliveredWasReceived, OkWasReceived, [Next]_vars,
                      NEW k \in Key, outbox'[k].status = "delivered", ~IsFiltered(k)
               PROVE  sent'[k] > 0
    BY DEF DeliveredWasReceived
  <2>1. ASSUME outbox[k].status = "delivered" PROVE sent'[k] > 0
    <3>1. sent[k] \in Nat /\ sent[k] > 0
      BY <2>1 DEF DeliveredWasReceived, TypeOK
    <3> QED
      BY <3>1, SentOnlyGrows
  <2>2. CASE FinishOk
    <3>1. job.key \in Key
      BY <2>2 DEF FinishOk, TypeOK, Job
    <3>2. k # job.key => outbox'[k] = outbox[k]
      BY <2>2, <3>1 DEF FinishOk, TypeOK
    <3> QED
      BY <2>1, <2>2, <3>1, <3>2 DEF FinishOk, OkWasReceived
  <2>3. CASE Transactions
    BY <2>1, <2>3, TransactionsAndAttempts DEF Fresh, Absent
  <2>4. ASSUME NEW q \in Key, Claim(q) PROVE sent'[k] > 0
    BY <2>1, <2>4, ClaimRowFacts, SweepRowFacts DEF Claim, TypeOK
  <2>5. CASE ClaimNothing
    BY <2>1, <2>5, SweepRowFacts DEF ClaimNothing, TypeOK
  <2>6. CASE FinishErr
    BY <2>1, <2>6 DEF FinishErr, TypeOK, Row, Job
  <2>7. CASE Tick
    BY <2>1, <2>7 DEF Tick, TypeOK, Row
  <2> QED
    BY <2>1, <2>2, <2>3, <2>4, <2>5, <2>6, <2>7
       DEF Next, Dispatcher, vars, StartPass, BudgetSpent, Deliver, FinishRejected, Crash
<1> QED
  BY <1>1, <1>2, OkIsAlwaysReceived, TypeCorrect, PTL DEF Spec

(***************************************************************************)
(* Settled rows.                                                           *)
(***************************************************************************)

\* A transaction inserts, restarts or withdraws, none of which selects a settled row.
LEMMA TransactionsKeepSettled ==
    ASSUME TypeOK, Transactions, NEW k \in Key,
           outbox[k].status \in {"delivered", "cancelled"}
    PROVE  outbox'[k] = outbox[k]
<1>0. outbox[k] \in Row /\ RepoOf(k) \in Repos /\ Insert(outbox[k]) = outbox[k]
  BY DEF TypeOK, RepoOf, Key, Insert
<1>w. CancelRow(outbox[k]) = outbox[k]
  BY <1>0, CancelRowFacts DEF Live
<1>1. ASSUME NEW batch \in SUBSET Repos, Ingest(batch) PROVE outbox'[k] = outbox[k]
  BY <1>0, <1>1, <1>w DEF Ingest
<1>2. ASSUME NEW R, outbox' = Withdraw(R) PROVE outbox'[k] = outbox[k]
  BY <1>2, <1>w DEF Withdraw
<1>3. CASE RetryFailed
  BY <1>3 DEF RetryFailed
<1> QED
  BY <1>1, <1>2, <1>3 DEF Transactions, SetReview, SetWatched, Quarantine, ReEvaluate

\* A row that was delivered or cancelled is never moved again.
LEMMA SettledRowStays ==
    ASSUME TypeOK, HeldRowIsMine, [Next]_vars, NEW k \in Key,
           outbox[k].status \in {"delivered", "cancelled"}
    PROVE  outbox'[k].status = outbox[k].status
<1>0. outbox[k] \in Row /\ outbox[k].status \notin {"pending", "processing", "failed", "absent"}
  BY DEF TypeOK
<1>1. CASE Transactions
  BY <1>0, <1>1, TransactionsKeepSettled
<1>2. ASSUME NEW q \in Key, Claim(q) PROVE outbox'[k].status = outbox[k].status
  BY <1>0, <1>2, SweepRowFacts DEF Claim, Claimable, Due
<1>3. CASE ClaimNothing
  BY <1>0, <1>3, SweepRowFacts DEF ClaimNothing
<1>4. CASE FinishOk \/ FinishErr
  <2>1. job.key \in Key /\ job.key # k
    BY <1>0, <1>4 DEF FinishOk, FinishErr, Held, TypeOK, Job
  <2> QED
    BY <1>4, <2>1 DEF FinishOk, FinishErr, TypeOK
<1>5. CASE Tick
  BY <1>0, <1>5 DEF Tick, Row
<1>6. CASE UNCHANGED vars \/ StartPass \/ BudgetSpent \/ Deliver \/ FinishRejected \/ Crash
  BY <1>6 DEF vars, StartPass, BudgetSpent, Deliver, FinishRejected, Crash
<1> QED
  BY <1>1, <1>2, <1>3, <1>4, <1>5, <1>6 DEF Next, Dispatcher

\* Only a delivery sends, and only the message whose claim is in hand.
LEMMA OnlyTheHeldIsSent ==
    ASSUME TypeOK, HeldRowIsMine, [Next]_vars, NEW k \in Key
    PROVE  /\ outbox[k].status = "delivered" => sent'[k] = sent[k]
           /\ sent'[k] <= sent[k] + Unsent(k)
<1>0. sent[k] \in Nat /\ Unsent(k) \in {0, 1}
  BY DEF TypeOK, Unsent
<1>1. CASE Deliver
  <2>1. job \in Job /\ job # NoJob /\ job.step = "claimed" /\ job.key \in Key
    BY <1>1 DEF Deliver, TypeOK, Job
  <2>2. sent' = sent \/ sent' = [sent EXCEPT ![job.key] = @ + 1]
    BY <1>1 DEF Deliver
  <2>3. CASE k = job.key
    <3>1. outbox[k].status # "delivered" /\ Unsent(k) = 1
      BY <2>1, <2>3 DEF HeldRowIsMine, Unsent
    <3> QED
      BY <1>0, <2>2, <2>3, <3>1 DEF TypeOK
  <2>4. CASE k # job.key
    <3>1. sent'[k] = sent[k]
      BY <2>2, <2>4 DEF TypeOK
    <3> QED
      BY <1>0, <3>1
  <2> QED
    BY <2>3, <2>4
<1>2. CASE sent' = sent
  BY <1>0, <1>2
<1>3. Transactions => sent' = sent
  BY DEF Transactions, Ingest, SetReview, SetWatched, Quarantine, ReEvaluate, RetryFailed
<1> QED
  BY <1>1, <1>2, <1>3 DEF Next, Dispatcher, vars, StartPass, Claim, ClaimNothing, BudgetSpent,
                          FinishOk, FinishErr, FinishRejected, Crash, Tick

\* Delivered and cancelled are final, and after them at most the message that was in
\* flight is sent.
THEOREM SettledAlwaysStaysSettled == Spec => SettledStaysSettled
<1> DEFINE Stays ==
        \A k \in Key :
            /\ outbox[k].status \in {"delivered", "cancelled"} => outbox'[k].status = outbox[k].status
            /\ outbox[k].status = "delivered" => sent'[k] = sent[k]
            /\ outbox[k].status = "cancelled" => sent'[k] <= sent[k] + Unsent(k)
<1>1. TypeOK /\ HeldRowIsMine /\ [Next]_vars => [Stays]_vars
  BY SettledRowStays, OnlyTheHeldIsSent
<1> QED
  BY <1>1, TypeCorrect, HeldRowIsAlwaysMine, PTL DEF Spec, SettledStaysSettled

(***************************************************************************)
(* The outbox implements the abstract ledger (Outbox!ImplementsLedger):    *)
(* its first state is the ledger's, and every step of a transaction, of    *)
(* the dispatcher, of the clock or of a crash is a step of the ledger or   *)
(* changes nothing the ledger shows.                                       *)
(***************************************************************************)

\* What the outbox must satisfy for a step to be one of the ledger's.
Mapped ==
    TypeOK /\ LiveRowsEligible /\ RowsAreHistory /\ HeldRowIsMine /\ OkWasReceived

\* The phases of the rows.
LEMMA PhaseFacts ==
    ASSUME NEW row \in Row
    PROVE  /\ PhaseOf(row) = "none" <=> row.status = "absent"
           /\ PhaseOf(row) = "queued" <=> row.status \in {"pending", "processing"}
           /\ PhaseOf(row) = "failed" <=> row.status = "failed"
           /\ PhaseOf(row) = "cancelled" <=> row.status = "cancelled"
           /\ PhaseOf(row) = "delivered" <=> row.status = "delivered"
           /\ PhaseOf(row) \in {"none", "queued", "failed", "cancelled", "delivered"}
<1> row.status \in {"absent", "pending", "processing", "delivered", "failed", "cancelled"}
  BY DEF Row, Status
<1> QED
  BY DEF PhaseOf

\* Withdrawing a row cancels what is queued or failed and nothing else.
LEMMA PhaseOfWithdrawn ==
    ASSUME NEW row \in Row
    PROVE  PhaseOf(CancelRow(row)) = IF PhaseOf(row) \in {"queued", "failed"}
                                     THEN "cancelled" ELSE PhaseOf(row)
<1>1. CASE row.status \in Live
  <2>1. CancelRow(row).status = "cancelled"
    BY <1>1 DEF CancelRow, Row
  <2> QED
    BY <1>1, <2>1, PhaseFacts DEF PhaseOf, Live
<1>2. CASE row.status \notin Live
  BY <1>2, PhaseFacts, CancelRowFacts DEF Live
<1> QED
  BY <1>1, <1>2

LEMMA PhaseOfSwept ==
    ASSUME NEW row \in Row
    PROVE  PhaseOf(SweepRow(row)) \in {PhaseOf(row)}
                 \cup IF PhaseOf(row) = "queued" THEN {"failed"} ELSE {}
<1>1. CASE SweepRow(row).status = row.status
  BY <1>1 DEF PhaseOf
<1>2. CASE SweepRow(row).status # row.status
  <2>1. row.status = "processing" /\ SweepRow(row).status = "failed"
    BY <1>2, SweepRowFacts
  <2> QED
    BY <2>1 DEF PhaseOf
<1> QED
  BY <1>1, <1>2

LEMMA PhaseOfFresh == PhaseOf(Fresh) = "queued"
BY DEF PhaseOf, Fresh, Absent

LEMMA InitMaps == Init => L!LedgerInit
<1> SUFFICES ASSUME Init PROVE L!LedgerInit
  OBVIOUS
<1>1. \A r \in Repos : Eligible(repos[r]) = FALSE
  BY DEF Init, Eligible, Unknown
<1>2. \A k \in Key : PhaseOf(outbox[k]) = "none" /\ (sent[k] > 0) = FALSE
  BY DEF Init, PhaseOf, Absent
<1> QED
  BY <1>1, <1>2 DEF L!LedgerInit, L!Message, Key

(***************************************************************************)
(* Transactions are commits of the ledger.                                 *)
(***************************************************************************)

\* A transaction is a commit if it publishes only new events of open repositories, and
\* withdraws exactly what is queued or failed of the closed ones.
LEMMA CommitMaps ==
    ASSUME TypeOK, TypeOK', sent' = sent,
           NEW events \in SUBSET (Repos \X Events),
           \A e \in events : /\ Eligible(repos'[e[1]])
                             /\ \A c \in Channels : outbox[<<e[1], e[2], c>>].status = "absent",
           \A k \in Key : PhaseOf(outbox'[k]) =
               IF <<RepoOf(k), EventOf(k)>> \in events THEN "queued"
               ELSE IF ~Eligible(repos'[RepoOf(k)]) /\ PhaseOf(outbox[k]) \in {"queued", "failed"}
                    THEN "cancelled" ELSE PhaseOf(outbox[k])
    PROVE  L!Commit
<1>1. [r \in Repos |-> Eligible(repos'[r])] \in [Repos -> BOOLEAN]
  BY DEF Eligible, TypeOK, RepoRow
<1>2. \A e \in events, c \in Channels : /\ <<e[1], e[2], c>> \in Key /\ e[1] \in Repos
                                        /\ outbox[<<e[1], e[2], c>>] \in Row
  BY DEF Key, TypeOK
<1>3. \A e \in events, c \in Channels : PhaseOf(outbox[<<e[1], e[2], c>>]) = "none"
  BY <1>2, PhaseFacts
<1>4. \A k \in Key : k[1] \in Repos
  BY DEF Key
<1>5. L!Message = Key
  BY DEF L!Message, Key
<1> QED
  BY <1>1, <1>2, <1>3, <1>4, <1>5 DEF L!Commit, RepoOf, EventOf

\* A transaction that publishes nothing.
LEMMA ClosingMaps ==
    ASSUME TypeOK, TypeOK', LiveRowsEligible, sent' = sent,
           NEW R \in SUBSET Repos, outbox' = Withdraw(R),
           \A r \in R : ~Eligible(repos'[r]),
           \A r \in Repos \ R : Eligible(repos[r]) => Eligible(repos'[r])
    PROVE  L!Commit
<1>1. ASSUME NEW k \in Key
      PROVE  PhaseOf(outbox'[k]) =
               IF ~Eligible(repos'[RepoOf(k)]) /\ PhaseOf(outbox[k]) \in {"queued", "failed"}
               THEN "cancelled" ELSE PhaseOf(outbox[k])
  <2>0. outbox[k] \in Row /\ RepoOf(k) \in Repos
    BY DEF TypeOK, Key, RepoOf
  <2>1. CASE RepoOf(k) \in R
    BY <2>0, <2>1, PhaseOfWithdrawn DEF Withdraw
  <2>2. CASE RepoOf(k) \notin R
    <3>1. PhaseOf(outbox[k]) \in {"queued", "failed"} => Eligible(repos'[RepoOf(k)])
      BY <2>0, <2>2, PhaseFacts DEF LiveRowsEligible, Live
    <3> QED
      BY <2>2, <3>1 DEF Withdraw
  <2> QED
    BY <2>1, <2>2
<1> DEFINE none == {}
<1>2. none \in SUBSET (Repos \X Events)
  OBVIOUS
<1>3. \A k \in Key : <<RepoOf(k), EventOf(k)>> \notin none
  OBVIOUS
<1> HIDE DEF none
<1>4. \A e \in none : FALSE
  BY DEF none
<1> QED
  BY <1>1, <1>2, <1>3, <1>4, CommitMaps

\* An observation decides about acceptance, and not about privacy or the user's verdict.
LEMMA ObservedColumns ==
    ASSUME NEW repo \in RepoRow, NEW obs \in Observation
    PROVE  /\ Observed(repo, obs).private = repo.private
           /\ Observed(repo, obs).ignored = repo.ignored
           /\ Observed(repo, obs).accepted = obs.accepted
BY DEF Observed, RepoRow, Observation

LEMMA IngestMaps ==
    ASSUME Mapped, TypeOK', NEW batch \in SUBSET Repos, Ingest(batch)
    PROVE  L!Commit
<1>1. PICK obs \in [batch -> Observation] :
        /\ \A r \in batch : ~repos[r].private
        /\ repos' = [r \in Repos |->
                        IF r \in batch THEN Observed(repos[r], obs[r]) ELSE repos[r]]
        /\ outbox' = [k \in Key |->
                        IF RepoOf(k) \notin batch THEN outbox[k]
                        ELSE LET repo == repos[RepoOf(k)]
                                 o == obs[RepoOf(k)]
                             IN IF ~o.accepted \/ repo.ignored THEN CancelRow(outbox[k])
                                ELSE IF EventOf(k) \in Announces(repo, o) THEN Insert(outbox[k])
                                ELSE outbox[k]]
        /\ sent' = sent
  BY DEF Ingest
<1> DEFINE events == {e \in Repos \X Events : e[1] \in batch /\ e[2] \in Announces(repos[e[1]], obs[e[1]])}
<1>2. ASSUME NEW r \in batch
      PROVE  /\ repos[r] \in RepoRow /\ obs[r] \in Observation /\ r \in Repos
             /\ Eligible(repos'[r]) <=> obs[r].accepted /\ ~repos[r].ignored
             /\ Announces(repos[r], obs[r]) # {} => obs[r].accepted /\ ~repos[r].ignored
  <2>1. repos[r] \in RepoRow /\ obs[r] \in Observation /\ r \in Repos
    BY DEF Mapped, TypeOK
  <2>2. repos'[r] = Observed(repos[r], obs[r]) /\ ~repos[r].private
    BY <1>1, <2>1
  <2>3. /\ Observed(repos[r], obs[r]).private = repos[r].private
        /\ Observed(repos[r], obs[r]).ignored = repos[r].ignored
        /\ Observed(repos[r], obs[r]).accepted = obs[r].accepted
    BY <2>1, ObservedColumns
  <2> QED
    BY <2>1, <2>2, <2>3 DEF Eligible, Announces
<1>3. ASSUME NEW k \in Key, RepoOf(k) \in batch,
             EventOf(k) \in Announces(repos[RepoOf(k)], obs[RepoOf(k)])
      PROVE  outbox[k].status = "absent"
  <2>1. repos[RepoOf(k)] \in RepoRow /\ EventOf(k) \in Nat
    BY <1>2, <1>3 DEF Key, EventOf, Events
  <2>2. \/ EventOf(k) = 0 /\ ~repos[RepoOf(k)].announced
        \/ EventOf(k) = repos[RepoOf(k)].rev + 1
    BY <1>3 DEF Announces
  <2> QED
    BY <2>1, <2>2 DEF Mapped, RowsAreHistory, RepoRow, Events
<1>4. ASSUME NEW e \in events
      PROVE  Eligible(repos'[e[1]]) /\ \A c \in Channels : outbox[<<e[1], e[2], c>>].status = "absent"
  <2>1. \A c \in Channels : /\ <<e[1], e[2], c>> \in Key
                            /\ RepoOf(<<e[1], e[2], c>>) = e[1] /\ EventOf(<<e[1], e[2], c>>) = e[2]
    BY DEF Key, RepoOf, EventOf
  <2> QED
    BY <1>2, <1>3, <2>1
<1>5. ASSUME NEW k \in Key
      PROVE  PhaseOf(outbox'[k]) =
               IF <<RepoOf(k), EventOf(k)>> \in events THEN "queued"
               ELSE IF ~Eligible(repos'[RepoOf(k)]) /\ PhaseOf(outbox[k]) \in {"queued", "failed"}
                    THEN "cancelled" ELSE PhaseOf(outbox[k])
  <2>0. /\ outbox[k] \in Row /\ RepoOf(k) \in Repos /\ EventOf(k) \in Events
        /\ <<RepoOf(k), EventOf(k)>> \in events <=>
               RepoOf(k) \in batch /\ EventOf(k) \in Announces(repos[RepoOf(k)], obs[RepoOf(k)])
    BY DEF Mapped, TypeOK, Key, RepoOf, EventOf
  <2>1. CASE RepoOf(k) \notin batch
    <3>1. outbox'[k] = outbox[k] /\ repos'[RepoOf(k)] = repos[RepoOf(k)]
      BY <1>1, <2>0, <2>1
    <3>2. PhaseOf(outbox[k]) \in {"queued", "failed"} => Eligible(repos[RepoOf(k)])
      BY <2>0, PhaseFacts DEF Mapped, LiveRowsEligible, Live
    <3> QED
      BY <2>0, <2>1, <3>1, <3>2
  <2>2. CASE RepoOf(k) \in batch /\ EventOf(k) \in Announces(repos[RepoOf(k)], obs[RepoOf(k)])
    <3>1. outbox'[k] = Insert(outbox[k])
      BY <1>1, <1>2, <2>2
    <3>2. outbox'[k] = Fresh
      BY <1>3, <2>2, <3>1 DEF Insert
    <3> QED
      BY <2>0, <2>2, <3>2, PhaseOfFresh
  <2>3. CASE /\ RepoOf(k) \in batch /\ EventOf(k) \notin Announces(repos[RepoOf(k)], obs[RepoOf(k)])
             /\ Eligible(repos'[RepoOf(k)])
    <3>1. outbox'[k] = outbox[k]
      BY <1>1, <1>2, <2>3
    <3> QED
      BY <2>0, <2>3, <3>1
  <2>4. CASE /\ RepoOf(k) \in batch /\ EventOf(k) \notin Announces(repos[RepoOf(k)], obs[RepoOf(k)])
             /\ ~Eligible(repos'[RepoOf(k)])
    <3>1. outbox'[k] = CancelRow(outbox[k])
      BY <1>1, <1>2, <2>4
    <3> QED
      BY <2>0, <2>4, <3>1, PhaseOfWithdrawn
  <2> QED
    BY <2>1, <2>2, <2>3, <2>4
<1>6. events \in SUBSET (Repos \X Events) /\ sent' = sent
  BY <1>1
<1> HIDE DEF events
<1> QED
  BY <1>4, <1>5, <1>6, CommitMaps DEF Mapped

\* Review, watching, quarantine and re-evaluation publish nothing.
LEMMA UserAndQuarantineMap ==
    ASSUME Mapped, TypeOK',
           \/ \E r \in Repos, b \in BOOLEAN : SetReview(r, b) \/ SetWatched(r, b)
           \/ \E r \in Repos : Quarantine(r)
           \/ \E accepts \in SUBSET Repos : ReEvaluate(accepts)
    PROVE  L!Commit
<1> USE DEF Mapped
<1>0. /\ \A r \in Repos : repos[r] \in RepoRow
      /\ outbox = Withdraw({})
  BY DEF TypeOK, Withdraw
<1>1. ASSUME NEW r \in Repos, SetReview(r, TRUE) PROVE L!Commit
  <2>1. ~Eligible(repos'[r]) /\ \A q \in Repos \ {r} : repos'[q] = repos[q]
    BY <1>0, <1>1 DEF SetReview, TypeOK, RepoRow, Eligible
  <2>2. {r} \in SUBSET Repos /\ sent' = sent /\ outbox' = Withdraw({r})
    BY <1>1 DEF SetReview
  <2>3. /\ \A q \in {r} : ~Eligible(repos'[q])
        /\ \A q \in Repos \ {r} : Eligible(repos[q]) => Eligible(repos'[q])
    BY <2>1
  <2> QED
    BY <2>2, <2>3, ClosingMaps
<1>2. ASSUME NEW r \in Repos, SetReview(r, FALSE) PROVE L!Commit
  <2>1. \A q \in Repos : Eligible(repos[q]) => Eligible(repos'[q])
    BY <1>0, <1>2 DEF SetReview, TypeOK, RepoRow, Eligible
  <2>2. sent' = sent /\ outbox' = Withdraw({})
    BY <1>0, <1>2 DEF SetReview
  <2> QED
    BY <2>1, <2>2, ClosingMaps
<1>3. ASSUME NEW r \in Repos, NEW b \in BOOLEAN, SetWatched(r, b) PROVE L!Commit
  <2>1. \A q \in Repos : Eligible(repos[q]) => Eligible(repos'[q])
    BY <1>0, <1>3 DEF SetWatched, TypeOK, RepoRow, Eligible
  <2>2. sent' = sent /\ outbox' = Withdraw({})
    BY <1>0, <1>3 DEF SetWatched
  <2> QED
    BY <2>1, <2>2, ClosingMaps
<1>4. ASSUME NEW r \in Repos, Quarantine(r) PROVE L!Commit
  <2>1. ~Eligible(repos'[r]) /\ \A q \in Repos \ {r} : repos'[q] = repos[q]
    BY <1>0, <1>4 DEF Quarantine, TypeOK, RepoRow, Eligible
  <2>2. {r} \in SUBSET Repos /\ sent' = sent /\ outbox' = Withdraw({r})
    BY <1>4 DEF Quarantine
  <2>3. /\ \A q \in {r} : ~Eligible(repos'[q])
        /\ \A q \in Repos \ {r} : Eligible(repos[q]) => Eligible(repos'[q])
    BY <2>1
  <2> QED
    BY <2>2, <2>3, ClosingMaps
<1>5. ASSUME NEW accepts \in SUBSET Repos, ReEvaluate(accepts) PROVE L!Commit
  <2> DEFINE seen == {r \in Repos : repos[r].stored /\ ~repos[r].private}
  <2>1. /\ repos' = [r \in Repos |->
                      IF r \in seen
                      THEN [repos[r] EXCEPT !.accepted = r \in accepts,
                                            !.announced = @ \/ r \in accepts]
                      ELSE repos[r]]
        /\ outbox' = Withdraw(seen \ accepts) /\ sent' = sent
    BY <1>5 DEF ReEvaluate
  <2>2. ASSUME NEW r \in seen
        PROVE  /\ repos'[r].accepted = (r \in accepts)
               /\ repos'[r].ignored = repos[r].ignored
               /\ repos'[r].private = repos[r].private
    BY <1>0, <2>1 DEF RepoRow
  <2>3. \A r \in seen \ accepts : ~Eligible(repos'[r])
    BY <2>2 DEF Eligible
  <2>4. ASSUME NEW r \in Repos \ (seen \ accepts), Eligible(repos[r]) PROVE Eligible(repos'[r])
    <3>1. CASE r \in seen
      BY <2>2, <2>4, <3>1 DEF Eligible
    <3>2. CASE r \notin seen
      BY <2>1, <2>4, <3>2
    <3> QED
      BY <3>1, <3>2
  <2>5. seen \ accepts \in SUBSET Repos
    OBVIOUS
  <2> HIDE DEF seen
  <2> QED
    BY <2>1, <2>3, <2>4, <2>5, ClosingMaps
<1> QED
  BY <1>1, <1>2, <1>3, <1>4, <1>5

LEMMA RetryMaps ==
    ASSUME Mapped, RetryFailed
    PROVE  \E some \in SUBSET L!Message : L!Retry(some)
<1> DEFINE again == {k \in Key : outbox[k].status = "failed" /\ Eligible(repos[RepoOf(k)])}
<1>1. outbox' = [k \in Key |-> IF k \in again THEN Fresh ELSE outbox[k]]
      /\ sent' = sent /\ repos' = repos
  BY DEF RetryFailed
<1>2. \A k \in Key : outbox[k] \in Row
  BY DEF Mapped, TypeOK
<1>3. \A k \in again : PhaseOf(outbox[k]) = "failed"
  BY <1>2, PhaseFacts
<1>4. \A k \in Key : PhaseOf(outbox'[k]) = IF k \in again THEN "queued" ELSE PhaseOf(outbox[k])
  BY <1>1, PhaseOfFresh
<1>5. L!Message = Key /\ again \in SUBSET Key
  BY DEF L!Message, Key
<1> HIDE DEF again
<1> QED
  BY <1>1, <1>3, <1>4, <1>5 DEF L!Retry

(***************************************************************************)
(* The dispatcher's steps.                                                 *)
(***************************************************************************)

\* Given up: the rows a claim finds expired on their last attempt, or a row whose last
\* attempt failed.
LEMMA GiveUpMaps ==
    ASSUME TypeOK, repos' = repos, sent' = sent,
           \A k \in Key : PhaseOf(outbox'[k]) \in {PhaseOf(outbox[k])}
                              \cup IF PhaseOf(outbox[k]) = "queued" THEN {"failed"} ELSE {}
    PROVE  \E some \in SUBSET L!Message : L!GiveUp(some)
<1> DEFINE given == {k \in Key : PhaseOf(outbox'[k]) # PhaseOf(outbox[k])}
<1>1. \A k \in Key : /\ k \in given => PhaseOf(outbox[k]) = "queued" /\ PhaseOf(outbox'[k]) = "failed"
                     /\ k \notin given => PhaseOf(outbox'[k]) = PhaseOf(outbox[k])
  OBVIOUS
<1>2. L!Message = Key /\ given \in SUBSET Key
  BY DEF L!Message, Key
<1> HIDE DEF given
<1> QED
  BY <1>1, <1>2 DEF L!GiveUp

LEMMA ClaimMaps ==
    ASSUME Mapped, (\E k \in Key : Claim(k)) \/ ClaimNothing
    PROVE  \E some \in SUBSET L!Message : L!GiveUp(some)
<1> USE DEF Mapped
<1>0. \A q \in Key : outbox[q] \in Row
  BY DEF TypeOK
<1>1. ASSUME NEW k \in Key, Claim(k) PROVE \E some \in SUBSET L!Message : L!GiveUp(some)
  <2>1. PhaseOf(ClaimRow(outbox[k])) = "queued" /\ PhaseOf(outbox[k]) = "queued"
    BY <1>0, <1>1, ClaimRowFacts, PhaseFacts DEF Claim, Claimable, Due, PhaseOf
  <2>2. \A q \in Key : outbox'[q] = IF q = k THEN ClaimRow(outbox[q]) ELSE SweepRow(outbox[q])
    BY <1>1 DEF Claim
  <2> QED
    BY <1>0, <1>1, <2>1, <2>2, PhaseOfSwept, GiveUpMaps DEF Claim
<1>2. CASE ClaimNothing
  <2>1. \A q \in Key : outbox'[q] = SweepRow(outbox[q])
    BY <1>2 DEF ClaimNothing
  <2> QED
    BY <1>0, <1>2, <2>1, PhaseOfSwept, GiveUpMaps DEF ClaimNothing
<1> QED
  BY <1>1, <1>2

LEMMA FinishErrMaps ==
    ASSUME Mapped, FinishErr
    PROVE  \E some \in SUBSET L!Message : L!GiveUp(some)
<1>1. job.key \in Key /\ \A q \in Key : outbox[q] \in Row
  BY DEF Mapped, TypeOK, Job, FinishErr
<1>2. \A q \in Key : q # job.key => outbox'[q] = outbox[q]
  BY <1>1 DEF FinishErr, Mapped, TypeOK
<1>3. outbox'[job.key].status \in {"failed", "pending"} /\ outbox[job.key].status = "processing"
  BY <1>1 DEF FinishErr, Held, Mapped, TypeOK, Row
<1>4. PhaseOf(outbox'[job.key]) \in {"failed", "queued"} /\ PhaseOf(outbox[job.key]) = "queued"
  BY <1>3 DEF PhaseOf
<1> QED
  BY <1>2, <1>4, GiveUpMaps DEF FinishErr, Mapped

LEMMA FinishOkMaps ==
    ASSUME Mapped, FinishOk
    PROVE  \E m \in L!Message : L!Deliver(m)
<1>1. job.key \in Key /\ job # NoJob /\ job.step = "ok" /\ \A q \in Key : outbox[q] \in Row
  BY DEF Mapped, TypeOK, Job, FinishOk
<1>2. \A q \in Key : q # job.key => outbox'[q] = outbox[q]
  BY <1>1 DEF FinishOk, Mapped, TypeOK
<1>3. outbox'[job.key].status = "delivered" /\ outbox[job.key].status = "processing"
  BY <1>1 DEF FinishOk, Held, Mapped, TypeOK, Row
<1>4. PhaseOf(outbox'[job.key]) = "delivered" /\ PhaseOf(outbox[job.key]) = "queued"
  BY <1>3 DEF PhaseOf
<1>5. sent[job.key] > 0 \/ <<job.key[1], job.key[3]>> \in Filtered
  BY <1>1 DEF Mapped, OkWasReceived, IsFiltered
<1>6. L!Message = Key /\ repos' = repos /\ sent' = sent
  BY DEF L!Message, Key, FinishOk
<1>7. \A q \in Key : PhaseOf(outbox'[q]) = IF q = job.key THEN "delivered" ELSE PhaseOf(outbox[q])
  BY <1>2, <1>4
<1> QED
  BY <1>1, <1>4, <1>5, <1>6, <1>7 DEF L!Deliver

\* A delivery shows when the message arrives.
LEMMA DeliverMaps ==
    ASSUME Mapped, Deliver
    PROVE  (\E m \in L!Message : L!Arrive(m)) \/ UNCHANGED L!lvars
<1>1. job.key \in Key /\ job # NoJob /\ \A q \in Key : outbox[q] \in Row /\ sent[q] \in Nat
  BY DEF Mapped, TypeOK, Job, Deliver
<1>2. CASE sent' = sent
  BY <1>2 DEF Deliver, L!lvars
<1>3. CASE sent' = [sent EXCEPT ![job.key] = @ + 1]
  <2>1. PhaseOf(outbox[job.key]) \in {"queued", "cancelled"}
    BY <1>1, PhaseFacts DEF Mapped, HeldRowIsMine
  <2>2. \A q \in Key : (sent'[q] > 0) = IF q = job.key THEN TRUE ELSE (sent[q] > 0)
    <3>1. \A q \in Key : q # job.key => sent'[q] = sent[q]
      BY <1>3 DEF Mapped, TypeOK
    <3>2. sent'[job.key] = sent[job.key] + 1 /\ sent[job.key] \in Nat
      BY <1>1, <1>3 DEF Mapped, TypeOK
    <3>3. (sent'[job.key] > 0) = TRUE
      BY <3>2
    <3> QED
      BY <3>1, <3>3
  <2>3. L!Message = Key /\ repos' = repos /\ outbox' = outbox
    BY DEF L!Message, Key, Deliver
  <2> QED
    BY <1>1, <2>1, <2>2, <2>3 DEF L!Arrive
<1> QED
  BY <1>2, <1>3 DEF Deliver

\* Time moves leases and delays, which the ledger does not show.
LEMMA TickMaps == Mapped /\ Tick => UNCHANGED L!lvars
<1> SUFFICES ASSUME Mapped, Tick PROVE UNCHANGED L!lvars
  OBVIOUS
<1>1. \A k \in Key : outbox'[k].status = outbox[k].status
  BY DEF Tick, Mapped, TypeOK, Row
<1>2. \A k \in Key : PhaseOf(outbox'[k]) = PhaseOf(outbox[k])
  BY <1>1 DEF PhaseOf
<1> QED
  BY <1>2 DEF Tick, L!lvars

(***************************************************************************)
(* The refinement.                                                         *)
(***************************************************************************)

LEMMA StepMaps == Mapped /\ TypeOK' /\ [Next]_vars => [L!LedgerNext]_(L!lvars)
<1> SUFFICES ASSUME Mapped, TypeOK', [Next]_vars PROVE L!LedgerNext \/ UNCHANGED L!lvars
  OBVIOUS
<1>1. CASE UNCHANGED vars \/ StartPass \/ BudgetSpent \/ FinishRejected \/ Crash
  BY <1>1 DEF vars, StartPass, BudgetSpent, FinishRejected, Crash, L!lvars
<1>2. CASE Transactions
  <2>1. CASE \E batch \in SUBSET Repos \ {{}} : Ingest(batch)
    BY <2>1, IngestMaps DEF L!LedgerNext
  <2>2. CASE RetryFailed
    BY <2>2, RetryMaps DEF L!LedgerNext
  <2> QED
    BY <1>2, <2>1, <2>2, UserAndQuarantineMap DEF Transactions, L!LedgerNext
<1>3. CASE (\E k \in Key : Claim(k)) \/ ClaimNothing \/ FinishErr
  BY <1>3, ClaimMaps, FinishErrMaps DEF L!LedgerNext
<1>4. CASE FinishOk
  BY <1>4, FinishOkMaps DEF L!LedgerNext
<1>5. CASE Deliver
  BY <1>5, DeliverMaps DEF L!LedgerNext
<1>6. CASE Tick
  BY <1>6, TickMaps
<1> QED
  BY <1>1, <1>2, <1>3, <1>4, <1>5, <1>6 DEF Next, Dispatcher

\* The outbox implements the ledger: an event is published at most once and to all
\* channels together, a repository that closes withdraws in the same step, and nothing
\* the dispatcher, a crash or the clock does shows as anything but an arrival, a
\* delivery or giving up.
THEOREM OutboxImplementsLedger == Spec => ImplementsLedger
<1>1. Init => L!LedgerInit
  BY InitMaps
<1>2. Mapped /\ TypeOK' /\ [Next]_vars => [L!LedgerNext]_(L!lvars)
  BY StepMaps
<1>3. Spec => []Mapped
  BY TypeCorrect, LiveRowsAlwaysEligible, RowsAreAlwaysHistory, HeldRowIsAlwaysMine,
     OkIsAlwaysReceived, PTL DEF Mapped
<1> QED
  BY <1>1, <1>2, <1>3, TypeCorrect, PTL DEF Spec, ImplementsLedger, L!LedgerSpec

-----------------------------------------------------------------------------
(***************************************************************************)
(*                                STARTUP                                  *)
(***************************************************************************)

(***************************************************************************)
(* The inductive invariant.                                                *)
(***************************************************************************)
Entry == [holds: Files \cup {None}, synced: BOOLEAN]
Active(p) == proc[p].pc \in Opened
Migrating == {"begin", "columns", "validate", "index", "commit"}

\* There is a backup of the database as it was, whole and on disk.
Saved == \E i \in DOMAIN backups : Whole(i) /\ backups[i].holds = origin

\* What the process that holds the lock knows about the file that nobody else changes: the
\* copy it is making, the schema it has found, and what its transaction has made of it.
HolderKnows(p) ==
    /\ proc[p].pc \in {"copy", "seal"} => proc[p].backup \in DOMAIN backups
    /\ proc[p].pc = "copy" => ~backups[proc[p].backup].synced
    /\ proc[p].pc = "seal" => backups[proc[p].backup].holds = file
    /\ proc[p].pc \in {"reserve", "copy", "seal"} =>
            file.version < SCHEMA_VERSION \/ (file.version = SCHEMA_VERSION /\ proc[p].action = "backup")
    /\ proc[p].pc \in Migrating => /\ file.version < SCHEMA_VERSION
                                   /\ file # Empty => Saved
    /\ proc[p].pc = "columns" => file.version = 0 /\ proc[p].work = file
    /\ proc[p].pc = "validate" => file.version = 0 /\ proc[p].work.parts = {1}
    /\ proc[p].pc = "index" => proc[p].work.parts = {1} /\ proc[p].work.version = 1
    /\ proc[p].pc = "commit" => proc[p].work.parts = {1, 2} /\ proc[p].work.version = 2
    /\ proc[p].pc \in {"validate", "index", "commit"} =>
            /\ proc[p].work.row = file.row /\ proc[p].work.state = file.state
            /\ file.version = 0 => proc[p].work.announced = (file.row # "none")
    /\ proc[p].pc \in {"ready", "engine", "run"} => file.version = SCHEMA_VERSION
    /\ proc[p].pc = "run" => /\ proc[p].position <= cycles + 1
                             /\ file.state # None => file.state <= proc[p].position

HoldersKnow == \A p \in Procs : Active(p) => HolderKnows(p)

\* Positions come from a cycle or from the installation before it.
PositionsAreCounted ==
    /\ file.state # None => file.state <= cycles + 1
    /\ sidecar \in Sidecars

\* A migrated row that was there at first counts as announced.
OldRowsCount ==
    origin.version = 0 /\ origin.row # "none" =>
        /\ ~told
        /\ file.version = SCHEMA_VERSION => file.row # "none" /\ file.announced

\* A start makes at most two backups, one for the migration and one for the user: what the
\* process that holds the lock may still make.
ToMake(p) ==
    IF proc[p].pc \in {"copy", "seal"} /\ file.version = SCHEMA_VERSION THEN 0
    ELSE IF proc[p].pc \in {"engine", "run"} THEN 0
    ELSE IF proc[p].pc \in {"open", "reserve"} /\ file.version # SCHEMA_VERSION THEN 2
    ELSE 1
Waiting == {p \in Procs : proc[p].pc = "lock"}
BackupsAreCounted ==
    /\ IsFiniteSet(Waiting)
    /\ Len(backups) + 2 * Cardinality(Waiting) <= 2 * starts
    /\ \A p \in Procs : Active(p) =>
            Len(backups) + 2 * Cardinality(Waiting) + ToMake(p) <= 2 * starts

IInv ==
    /\ StartupTypeOK /\ BackupsAreWhole /\ MigrationIsAtomic
    /\ HoldersKnow /\ PositionsAreCounted /\ OldRowsCount /\ BackupsAreCounted

(***************************************************************************)
(* Types.                                                                  *)
(***************************************************************************)
ProcAt(n) == [pc: {"off", "lock"} \cup Opened, action: {"none", "stats", "backup", "run"},
              version: 0..SCHEMA_VERSION, backup: 0..n, work: Files, position: Positions]

\* StartupTypeOK without the bound on the number of backups, which is counted apart.
Typed ==
    /\ file \in Files /\ origin \in Files /\ sidecar \in Positions \cup {Corrupt, None}
    /\ backups \in Seq(Entry)
    /\ lock \in Procs \cup {None}
    /\ proc \in [Procs -> ProcAt(Len(backups))]
    /\ \A p \in Procs : Active(p) => lock = p
    /\ reported \subseteq 1..Len(backups)
    /\ told \in BOOLEAN /\ busy \in BOOLEAN
    /\ starts \in 0..MaxStarts /\ cycles \in 0..MaxCycles /\ takes \in 0..MaxBusy

LEMMA TypedIsTypeOK == StartupTypeOK <=> Typed /\ Len(backups) <= 2 * MaxStarts
BY DEF StartupTypeOK, Typed, ProcAt, Entry, Active

LEMMA TypedIsTypeOKNext == StartupTypeOK' <=> Typed' /\ Len(backups') <= 2 * MaxStarts
BY DEF StartupTypeOK, Typed, ProcAt, Entry, Active

LEMMA EmptyIsFile == Empty \in Files /\ 0 \in Positions /\ 1 \in Positions
BY StartupAssumption DEF Empty, Files, Positions, SCHEMA_VERSION

LEMMA OffIsTyped == \A n \in Nat : Off \in ProcAt(n)
BY EmptyIsFile DEF ProcAt, Off, SCHEMA_VERSION

LEMMA SchemaIsTwo == SCHEMA_VERSION = 2 /\ 1..SCHEMA_VERSION = {1, 2}
BY DEF SCHEMA_VERSION

\* The list of backups as a function.
LEMMA BackupsAreFunction ==
    ASSUME Typed
    PROVE  /\ Len(backups) \in Nat /\ DOMAIN backups = 1..Len(backups)
           /\ \A i \in DOMAIN backups : backups[i] \in Entry
BY LenProperties, ElementOfSeq DEF Typed

\* What the database holds when a process holds the lock is known by that process alone.
LEMMA OneHolder ==
    ASSUME Typed, NEW p \in Procs, Active(p), NEW q \in Procs, q # p
    PROVE  ~Active(q)
BY DEF Typed

(***************************************************************************)
(* Keeping count of the backups.                                           *)
(***************************************************************************)

LEMMA CountsAreNumbers ==
    ASSUME Typed, IsFiniteSet(Waiting)
    PROVE  /\ Len(backups) \in Nat /\ Cardinality(Waiting) \in Nat /\ starts \in Nat
           /\ \A p \in Procs : ToMake(p) \in 0..2
BY FS_CardinalityType, BackupsAreFunction, StartupAssumption DEF Typed, ToMake

\* A process that ends gives up what it could have made.
LEMMA EndingKeepsCount ==
    ASSUME Typed, BackupsAreCounted, UNCHANGED <<file, starts>>, Len(backups') = Len(backups),
           \A q \in Procs : proc'[q] = proc[q] \/ proc'[q].pc = "off"
    PROVE  BackupsAreCounted'
<1>1. Waiting' \subseteq Waiting
  BY DEF Waiting
<1>2. /\ IsFiniteSet(Waiting) /\ IsFiniteSet(Waiting')
      /\ Cardinality(Waiting') \in Nat /\ Cardinality(Waiting') <= Cardinality(Waiting)
  BY <1>1, FS_Subset, FS_CardinalityType DEF BackupsAreCounted
<1>3. \A q \in Procs : Active(q)' => Active(q) /\ ToMake(q)' = ToMake(q)
  BY DEF Active, Opened, ToMake
<1> QED
  BY <1>2, <1>3, CountsAreNumbers DEF BackupsAreCounted

\* A start brings what one more process may make.
LEMMA StartingKeepsCount ==
    ASSUME Typed, BackupsAreCounted, NEW p \in Procs, Start(p)
    PROVE  BackupsAreCounted'
<1>1. /\ UNCHANGED <<file, backups>> /\ starts' = starts + 1
      /\ proc'[p].pc = "lock" /\ \A q \in Procs : q # p => proc'[q] = proc[q]
  BY DEF Typed, ProcAt, Start, disk
<1>2. Waiting' \subseteq Waiting \cup {p}
  BY <1>1 DEF Waiting
<1>3. IsFiniteSet(Waiting)
  BY DEF BackupsAreCounted
<1>4. /\ IsFiniteSet(Waiting') /\ Cardinality(Waiting') \in Nat
      /\ Cardinality(Waiting') <= Cardinality(Waiting) + 1
  <2>1. /\ IsFiniteSet(Waiting \cup {p}) /\ Cardinality(Waiting) \in Nat
        /\ Cardinality(Waiting \cup {p}) <= Cardinality(Waiting) + 1
    <3>1. /\ IsFiniteSet(Waiting \cup {p})
          /\ \/ Cardinality(Waiting \cup {p}) = Cardinality(Waiting)
             \/ Cardinality(Waiting \cup {p}) = Cardinality(Waiting) + 1
      BY <1>3, FS_AddElement, Zenon
    <3>2. Cardinality(Waiting) \in Nat
      BY <1>3, FS_CardinalityType
    <3> QED
      BY <3>1, <3>2
  <2>2. IsFiniteSet(Waiting') /\ Cardinality(Waiting') <= Cardinality(Waiting \cup {p})
    BY <1>2, <2>1, FS_Subset
  <2> QED
    BY <1>3, <2>1, <2>2, FS_CardinalityType
<1>5. \A q \in Procs : Active(q)' => Active(q) /\ ToMake(q)' = ToMake(q)
  BY <1>1 DEF Active, Opened, ToMake
<1>6. /\ Len(backups) \in Nat /\ Cardinality(Waiting) \in Nat /\ starts \in Nat
      /\ \A q \in Procs : ToMake(q) \in 0..2
  BY <1>3, CountsAreNumbers
<1>7. Len(backups) + 2 * Cardinality(Waiting') <= 2 * (starts + 1)
  BY <1>4, <1>6 DEF BackupsAreCounted
<1>8. ASSUME NEW q \in Procs, Active(q)
      PROVE  Len(backups) + 2 * Cardinality(Waiting') + ToMake(q) <= 2 * (starts + 1)
  <2>1. Len(backups) + 2 * Cardinality(Waiting) + ToMake(q) <= 2 * starts /\ ToMake(q) \in Int
    BY <1>6, <1>8 DEF BackupsAreCounted
  <2> QED
    BY <1>4, <1>6, <2>1
<1> QED
  BY <1>1, <1>4, <1>5, <1>7, <1>8 DEF BackupsAreCounted

\* The process that gets the lock stops waiting.
LEMMA LockingKeepsCount ==
    ASSUME Typed, BackupsAreCounted, NEW p \in Procs, proc[p].pc = "lock",
           proc' = [proc EXCEPT ![p].pc = "open"], lock = None, UNCHANGED <<file, backups, starts>>
    PROVE  BackupsAreCounted'
<1>1. proc'[p].pc = "open" /\ \A q \in Procs : q # p => proc'[q] = proc[q]
  BY DEF Typed, ProcAt
<1>2. p \in Waiting /\ Waiting' \subseteq Waiting \ {p}
  BY <1>1 DEF Waiting
<1>3. IsFiniteSet(Waiting)
  BY DEF BackupsAreCounted
<1>4. /\ IsFiniteSet(Waiting') /\ Cardinality(Waiting') \in Nat
      /\ Cardinality(Waiting') + 1 <= Cardinality(Waiting)
  <2>1. IsFiniteSet(Waiting \ {p}) /\ Cardinality(Waiting \ {p}) = Cardinality(Waiting) - 1
    BY <1>2, <1>3, FS_RemoveElement
  <2>2. IsFiniteSet(Waiting') /\ Cardinality(Waiting') <= Cardinality(Waiting \ {p})
    BY <1>2, <2>1, FS_Subset
  <2> QED
    BY <1>3, <2>1, <2>2, FS_CardinalityType
<1>5. \A q \in Procs : Active(q)' => q = p
  BY <1>1, StartupAssumption DEF Active, Typed
<1>6. ToMake(p)' \in 0..2
  BY DEF ToMake
<1> QED
  BY <1>3, <1>4, <1>5, <1>6, CountsAreNumbers DEF BackupsAreCounted

\* What the holder makes it may then no longer make.
LEMMA HoldingKeepsCount ==
    ASSUME Typed, BackupsAreCounted, NEW p \in Procs, Active(p), Typed', Active(p)',
           \A q \in Procs : q # p => proc'[q] = proc[q], starts' = starts,
           Len(backups') + ToMake(p)' <= Len(backups) + ToMake(p)
    PROVE  BackupsAreCounted'
<1>1. Waiting' = Waiting
  BY DEF Waiting, Active, Opened
<1>2. \A q \in Procs : Active(q)' => q = p
  BY OneHolder DEF Active, Opened
<1>3. Len(backups') \in Nat /\ ToMake(p)' \in 0..2
  BY LenProperties DEF Typed, ToMake
<1>4. /\ IsFiniteSet(Waiting) /\ Len(backups) + 2 * Cardinality(Waiting) + ToMake(p) <= 2 * starts
      /\ Len(backups) \in Nat /\ Cardinality(Waiting) \in Nat /\ starts \in Nat
      /\ ToMake(p) \in 0..2
  <2>1. IsFiniteSet(Waiting)
    BY DEF BackupsAreCounted
  <2> QED
    BY <2>1, CountsAreNumbers DEF BackupsAreCounted
<1>5. Len(backups') + 2 * Cardinality(Waiting) + ToMake(p)' <= 2 * starts
  <2>1. \A l, m, t, u, c, z \in Int : l + t <= m + u /\ m + 2 * c + u <= 2 * z =>
                                          l + 2 * c + t <= 2 * z
    OBVIOUS
  <2>2. ToMake(p) \in Int /\ ToMake(p)' \in Int
    BY <1>3, <1>4
  <2> QED
    BY <1>3, <1>4, <2>1, <2>2
<1>6. Len(backups') + 2 * Cardinality(Waiting) <= 2 * starts
  BY <1>3, <1>4, <1>5
<1>7. Cardinality(Waiting') = Cardinality(Waiting) /\ IsFiniteSet(Waiting')
  BY <1>1, <1>4, Zenon
<1>8. \A q \in Procs : Active(q)' =>
          Len(backups') + 2 * Cardinality(Waiting) + ToMake(q)' <= 2 * starts
  BY <1>2, <1>5
<1> QED
  BY <1>6, <1>7, <1>8 DEF BackupsAreCounted

(***************************************************************************)
(* Two ways to keep the invariant.                                         *)
(***************************************************************************)

LEMMA CountBounds ==
    ASSUME Typed', BackupsAreCounted'
    PROVE  StartupTypeOK'
<1>1. Len(backups') <= 2 * starts' /\ Len(backups') \in Nat /\ starts' \in 0..MaxStarts
  <2>1. Cardinality(Waiting') \in Nat /\ Len(backups') \in Nat
    BY LenProperties, FS_CardinalityType DEF Typed, BackupsAreCounted
  <2>2. Len(backups') + 2 * Cardinality(Waiting') <= 2 * starts' /\ starts' \in 0..MaxStarts
    BY DEF Typed, BackupsAreCounted
  <2> QED
    BY <2>1, <2>2, StartupAssumption
<1>2. Len(backups') <= 2 * MaxStarts
  BY <1>1, StartupAssumption
<1> QED
  BY <1>2, TypedIsTypeOKNext

\* A step that touches neither the database nor the backups, and starts nobody but at
\* the beginning.
LEMMA QuietKeepsInvariant ==
    ASSUME IInv, Typed', BackupsAreCounted',
           UNCHANGED <<file, origin, backups, sidecar, reported, told, cycles>>,
           \A q \in Procs : Active(q)' =>
                proc'[q].pc = "open" \/ (Active(q) /\ proc'[q] = proc[q])
    PROVE  IInv'
<1>1. BackupsAreWhole' /\ MigrationIsAtomic'
  BY DEF IInv, BackupsAreWhole, MigrationIsAtomic, Whole
<1>2. PositionsAreCounted' /\ OldRowsCount'
  BY DEF IInv, PositionsAreCounted, OldRowsCount
<1>3. Saved' = Saved
  BY DEF Saved, Whole
<1>4. ASSUME NEW q \in Procs, Active(q)' PROVE HolderKnows(q)'
  <2>1. CASE proc'[q].pc = "open"
    BY <2>1 DEF HolderKnows, Migrating
  <2>2. CASE Active(q) /\ proc'[q] = proc[q]
    BY <1>3, <2>2 DEF IInv, HoldersKnow, HolderKnows
  <2> QED
    BY <1>4, <2>1, <2>2
<1> QED
  BY <1>1, <1>2, <1>4, CountBounds DEF IInv, HoldersKnow

\* A step of the process that holds the lock.
LEMMA HolderKeepsInvariant ==
    ASSUME IInv, NEW p \in Procs, Active(p), Typed', Active(p)',
           \A q \in Procs : q # p => proc'[q] = proc[q], starts' = starts,
           Len(backups') + ToMake(p)' <= Len(backups) + ToMake(p),
           HolderKnows(p)',
           BackupsAreWhole' /\ MigrationIsAtomic' /\ PositionsAreCounted' /\ OldRowsCount'
    PROVE  IInv'
<1>1. Typed /\ BackupsAreCounted
  BY TypedIsTypeOK DEF IInv
<1>2. BackupsAreCounted'
  BY <1>1, HoldingKeepsCount
<1>3. \A q \in Procs : Active(q)' => q = p
  BY <1>1, OneHolder DEF Active, Opened
<1> QED
  BY <1>2, <1>3, CountBounds DEF IInv, HoldersKnow

(***************************************************************************)
(* The steps.                                                              *)
(***************************************************************************)

LEMMA InvariantHoldsFirst == StartupInit => IInv
<1> SUFFICES ASSUME StartupInit PROVE IInv
  OBVIOUS
<1>1. file \in Files /\ origin = file /\ sidecar \in Positions \cup {Corrupt, None}
  BY EmptyIsFile DEF StartupInit, Shipped, Sidecars
<1>2. Typed
  <2>1. backups \in Seq(Entry) /\ Len(backups) = 0
    BY DEF StartupInit
  <2>2. proc \in [Procs -> ProcAt(Len(backups))]
    BY <2>1, OffIsTyped DEF StartupInit
  <2>3. told \in BOOLEAN /\ busy \in BOOLEAN
    BY Zenon DEF StartupInit
  <2>4. starts \in 0..MaxStarts /\ cycles \in 0..MaxCycles /\ takes \in 0..MaxBusy
    BY StartupAssumption DEF StartupInit
  <2>5. \A p \in Procs : ~Active(p)
    BY DEF StartupInit, Active, Opened, Off
  <2> QED
    BY <1>1, <2>1, <2>2, <2>3, <2>4, <2>5 DEF StartupInit, Typed
<1>3. Waiting = {} /\ \A p \in Procs : ~Active(p)
  BY DEF StartupInit, Waiting, Active, Opened, Off
<1>4. BackupsAreCounted /\ Len(backups) = 0
  BY <1>3, FS_EmptySet DEF StartupInit, BackupsAreCounted
<1>5. BackupsAreWhole
  BY DEF StartupInit, BackupsAreWhole
<1>6. MigrationIsAtomic /\ OldRowsCount
  BY <1>1 DEF StartupInit, Shipped, MigrationIsAtomic, OldRowsCount, Files, SCHEMA_VERSION
<1>7. PositionsAreCounted
  BY <1>1, StartupAssumption DEF StartupInit, Shipped, PositionsAreCounted
<1> QED
  BY <1>2, <1>3, <1>4, <1>5, <1>6, <1>7, TypedIsTypeOK, StartupAssumption
  DEF IInv, HoldersKnow

LEMMA FailKeepsInvariant ==
    ASSUME IInv, NEW p \in Procs, Fail(p)
    PROVE  IInv'
<1>1. Typed /\ BackupsAreCounted
  BY TypedIsTypeOK DEF IInv
<1>2. /\ proc' = [proc EXCEPT ![p] = Off] /\ lock' = Free(p)
      /\ UNCHANGED <<file, origin, backups, sidecar, reported, told, busy, starts, cycles, takes>>
  BY DEF Fail, End, disk, bounds
<1>3. proc'[p] = Off /\ \A q \in Procs : q # p => proc'[q] = proc[q]
  BY <1>1, <1>2 DEF Typed
<1>4. \A q \in Procs : Active(q)' => q # p /\ Active(q) /\ proc'[q] = proc[q]
  BY <1>3 DEF Active, Opened, Off
<1>5. Typed'
  <2>1. Len(backups) \in Nat
    BY <1>1, BackupsAreFunction
  <2>2. proc' \in [Procs -> ProcAt(Len(backups'))]
    BY <1>1, <1>2, <2>1, OffIsTyped DEF Typed
  <2>3. lock' \in Procs \cup {None} /\ \A q \in Procs : Active(q)' => lock' = q
    BY <1>1, <1>2, <1>4 DEF Typed, Free
  <2> QED
    BY <1>1, <1>2, <2>2, <2>3 DEF Typed
<1>6. BackupsAreCounted'
  BY <1>1, <1>2, <1>3, EndingKeepsCount DEF Off
<1> QED
  BY <1>2, <1>4, <1>5, <1>6, QuietKeepsInvariant

LEMMA StartKeepsInvariant ==
    ASSUME IInv, NEW p \in Procs, Start(p)
    PROVE  IInv'
<1>1. Typed /\ BackupsAreCounted
  BY TypedIsTypeOK DEF IInv
<1>2. PICK a \in {"stats", "backup", "run"} :
          proc' = [proc EXCEPT ![p].pc = "lock", ![p].action = a]
  BY DEF Start
<1>3. /\ UNCHANGED <<file, origin, backups, sidecar, lock, reported, told, busy, cycles, takes>>
      /\ starts < MaxStarts /\ starts' = starts + 1
  BY DEF Start, disk
<1>4. /\ proc'[p] \in ProcAt(Len(backups)) /\ proc'[p].pc = "lock"
      /\ \A q \in Procs : q # p => proc'[q] = proc[q]
  BY <1>1, <1>2 DEF Typed, ProcAt
<1>5. \A q \in Procs : Active(q)' => q # p /\ Active(q) /\ proc'[q] = proc[q]
  BY <1>4 DEF Active, Opened
<1>6. Typed'
  <2>1. proc' \in [Procs -> ProcAt(Len(backups'))]
    BY <1>1, <1>2, <1>3, <1>4 DEF Typed
  <2>2. starts' \in 0..MaxStarts
    BY <1>1, <1>3, StartupAssumption DEF Typed
  <2> QED
    BY <1>1, <1>3, <1>5, <2>1, <2>2 DEF Typed
<1>7. BackupsAreCounted'
  BY <1>1, StartingKeepsCount
<1> QED
  BY <1>3, <1>5, <1>6, <1>7, QuietKeepsInvariant

LEMMA LockKeepsInvariant ==
    ASSUME IInv, NEW p \in Procs, Lock(p)
    PROVE  IInv'
<1>1. Typed /\ BackupsAreCounted
  BY TypedIsTypeOK DEF IInv
<1>2. CASE lock # None
  BY <1>2, FailKeepsInvariant DEF Lock
<1>3. CASE lock = None
  <2>1. /\ UNCHANGED <<file, origin, backups, sidecar, reported, told, busy, starts, cycles, takes>>
        /\ proc' = [proc EXCEPT ![p].pc = "open"] /\ lock' = p /\ proc[p].pc = "lock"
    BY <1>3 DEF Lock, Goes, disk, bounds
  <2>2. /\ proc'[p] \in ProcAt(Len(backups)) /\ proc'[p].pc = "open"
        /\ \A q \in Procs : q # p => proc'[q] = proc[q]
    BY <1>1, <2>1 DEF Typed, ProcAt, Opened
  <2>3. \A q \in Procs : Active(q)' => q = p
    BY <1>1, <1>3, <2>2, StartupAssumption DEF Active, Typed
  <2>4. Typed'
    <3>1. proc' \in [Procs -> ProcAt(Len(backups'))]
      BY <1>1, <2>1, <2>2 DEF Typed
    <3> QED
      BY <1>1, <2>1, <2>3, <3>1 DEF Typed
  <2>5. BackupsAreCounted'
    BY <1>1, <1>3, <2>1, LockingKeepsCount
  <2> QED
    BY <2>1, <2>2, <2>3, <2>4, <2>5, QuietKeepsInvariant
<1> QED
  BY <1>2, <1>3

\* Another program takes or gives back the database, or nothing happens.
LEMMA OthersKeepInvariant ==
    ASSUME IInv, Take \/ Release \/ UNCHANGED startupVars
    PROVE  IInv'
<1>1. Typed /\ BackupsAreCounted
  BY TypedIsTypeOK DEF IInv
<1>2. UNCHANGED <<file, origin, backups, sidecar, lock, proc, reported, told, starts, cycles>>
  BY DEF Take, Release, startupVars, disk, bounds
<1>3. Typed'
  <2>1. busy' \in BOOLEAN /\ takes' \in 0..MaxBusy
    <3>1. CASE Take
      BY <1>1, <3>1, StartupAssumption DEF Typed, Take
    <3>2. CASE Release
      BY <1>1, <3>2 DEF Typed, Release, bounds
    <3>3. CASE UNCHANGED startupVars
      BY <1>1, <3>3 DEF Typed, startupVars, bounds
    <3> QED
      BY <3>1, <3>2, <3>3
  <2> QED
    BY <1>1, <1>2, <2>1 DEF Typed, Active
<1>4. BackupsAreCounted'
  BY <1>1, <1>2, EndingKeepsCount
<1> QED
  BY <1>2, <1>3, <1>4, QuietKeepsInvariant DEF Active

\* The types of a step of the process that holds the lock.
LEMMA HolderKeepsTypes ==
    ASSUME Typed, NEW p \in Procs, Active(p),
           proc' = [proc EXCEPT ![p] = proc'[p]], proc'[p] \in ProcAt(Len(backups')),
           UNCHANGED <<origin, sidecar, lock, reported, busy, starts, takes>>,
           backups' \in Seq(Entry), Len(backups) <= Len(backups'),
           file' \in Files, told' \in BOOLEAN, cycles' \in 0..MaxCycles
    PROVE  Typed'
<1>1. Len(backups) \in Nat /\ Len(backups') \in Nat
  BY LenProperties DEF Typed
<1>2. ProcAt(Len(backups)) \subseteq ProcAt(Len(backups'))
  BY <1>1 DEF ProcAt
<1>3. proc' \in [Procs -> ProcAt(Len(backups'))]
  BY <1>2 DEF Typed
<1>4. \A q \in Procs : q # p => proc'[q] = proc[q]
  BY DEF Typed
<1>5. \A q \in Procs : Active(q)' => lock' = q
  BY <1>4 DEF Typed, Active
<1>6. reported' \subseteq 1..Len(backups')
  BY <1>1 DEF Typed
<1> QED
  BY <1>3, <1>5, <1>6 DEF Typed

\* A step of that process by which only it changes.
LEMMA AloneKeepsInvariant ==
    ASSUME IInv, NEW p \in Procs, Active(p), Active(p)',
           proc' = [proc EXCEPT ![p] = proc'[p]], proc'[p] \in ProcAt(Len(backups)),
           UNCHANGED <<disk, origin, sidecar, lock, reported, told, busy, bounds>>,
           ToMake(p)' <= ToMake(p), HolderKnows(p)'
    PROVE  IInv'
<1>1. Typed
  BY TypedIsTypeOK DEF IInv
<1>2. UNCHANGED <<file, origin, backups, sidecar, lock, reported, told, busy, starts, cycles, takes>>
  BY DEF disk, bounds
<1>3. Len(backups) \in Nat /\ ToMake(p) \in 0..2 /\ ToMake(p)' \in 0..2
  BY <1>1, BackupsAreFunction DEF ToMake
<1>4. backups \in Seq(Entry) /\ file \in Files /\ told \in BOOLEAN /\ cycles \in 0..MaxCycles
  BY <1>1 DEF Typed
<1>5. Typed'
  BY <1>1, <1>2, <1>3, <1>4, HolderKeepsTypes
<1>6. \A q \in Procs : q # p => proc'[q] = proc[q]
  BY <1>1 DEF Typed
<1>7. BackupsAreWhole' /\ MigrationIsAtomic' /\ PositionsAreCounted' /\ OldRowsCount'
  BY <1>2 DEF IInv, BackupsAreWhole, MigrationIsAtomic, PositionsAreCounted, OldRowsCount, Whole
<1>8. Len(backups') + ToMake(p)' <= Len(backups) + ToMake(p)
  BY <1>2, <1>3
<1> QED
  BY <1>2, <1>5, <1>6, <1>7, <1>8, HolderKeepsInvariant

LEMMA OpenKeepsInvariant ==
    ASSUME IInv, NEW p \in Procs, Open(p)
    PROVE  IInv'
<1>1. Typed /\ Active(p) /\ MigrationIsAtomic
  BY TypedIsTypeOK DEF IInv, Open, Active, Opened
<1>2. CASE file.version > SCHEMA_VERSION
  BY <1>2, FailKeepsInvariant DEF Open
<1>3. CASE ~(file.version > SCHEMA_VERSION)
  <2> DEFINE to == IF file.version = SCHEMA_VERSION THEN "ready"
                   ELSE IF file # Empty THEN "reserve" ELSE "begin"
  <2>1. /\ UNCHANGED <<disk, origin, sidecar, lock, reported, told, busy, bounds>>
        /\ proc' = [proc EXCEPT ![p].pc = to, ![p].version = file.version]
        /\ proc[p].pc = "open"
    BY <1>3 DEF Open
  <2>2. file \in Files /\ file.version \in 0..SCHEMA_VERSION
    BY <1>1, <1>3 DEF Typed, Files, SCHEMA_VERSION
  <2>3. to \in {"ready", "reserve", "begin"}
    OBVIOUS
  <2>4. /\ proc'[p] = [proc[p] EXCEPT !.pc = to, !.version = file.version]
        /\ proc' = [proc EXCEPT ![p] = proc'[p]]
    BY <1>1, <2>1 DEF Typed
  <2>5. proc'[p] \in ProcAt(Len(backups)) /\ proc'[p].pc = to
    <3> HIDE DEF to
    <3>1. proc[p] \in ProcAt(Len(backups))
      BY <1>1 DEF Typed
    <3>2. to \in {"off", "lock"} \cup Opened
      BY <2>3 DEF Opened
    <3> QED
      BY <2>2, <2>4, <3>1, <3>2 DEF ProcAt
  <2>6. file' = file
    BY <2>1 DEF disk
  <2>7. Active(p)'
    BY <2>3, <2>5 DEF Active, Opened
  <2>8. ToMake(p)' <= ToMake(p)
    BY <2>1, <2>5, <2>6 DEF ToMake
  <2>9. HolderKnows(p)'
    <3>1. CASE to = "ready"
      BY <2>5, <2>6, <3>1, SchemaIsTwo DEF HolderKnows, Migrating
    <3>2. CASE to = "reserve"
      BY <2>2, <2>5, <2>6, <3>2, SchemaIsTwo DEF HolderKnows, Migrating
    <3>3. CASE to = "begin"
      BY <2>2, <2>5, <2>6, <3>3, SchemaIsTwo DEF HolderKnows, Migrating
    <3> QED
      BY <2>3, <3>1, <3>2, <3>3
  <2> QED
    BY <1>1, <2>1, <2>4, <2>5, <2>7, <2>8, <2>9, AloneKeepsInvariant
<1> QED
  BY <1>2, <1>3

LEMMA BeginKeepsInvariant ==
    ASSUME IInv, NEW p \in Procs, Begin(p)
    PROVE  IInv'
<1> DEFINE to == IF file.version < 1 THEN "columns" ELSE "index"
<1>1. Typed /\ Active(p) /\ MigrationIsAtomic /\ HolderKnows(p)
  BY TypedIsTypeOK DEF IInv, HoldersKnow, Begin, Active, Opened
<1>2. /\ UNCHANGED <<disk, origin, sidecar, lock, reported, told, busy, bounds>>
      /\ proc' = [proc EXCEPT ![p].pc = to, ![p].work = file] /\ proc[p].pc = "begin"
  BY DEF Begin
<1>3. file \in Files /\ file.version \in {0, 1} /\ (file # Empty => Saved)
  BY <1>1, <1>2, SchemaIsTwo DEF Typed, Files, HolderKnows, Migrating
<1>4. to \in {"columns", "index"}
  OBVIOUS
<1>5. /\ proc'[p] = [proc[p] EXCEPT !.pc = to, !.work = file]
      /\ proc' = [proc EXCEPT ![p] = proc'[p]]
  BY <1>1, <1>2 DEF Typed
<1>6. proc'[p] \in ProcAt(Len(backups)) /\ proc'[p].pc = to /\ proc'[p].work = file
  <2> HIDE DEF to
  <2>1. proc[p] \in ProcAt(Len(backups))
    BY <1>1 DEF Typed
  <2>2. to \in {"off", "lock"} \cup Opened
    BY <1>4 DEF Opened
  <2> QED
    BY <1>3, <1>5, <2>1, <2>2 DEF ProcAt
<1>7. file' = file /\ backups' = backups /\ origin' = origin /\ Saved' = Saved
  BY <1>2 DEF disk, Saved, Whole
<1>8. Active(p)' /\ ToMake(p)' <= ToMake(p)
  BY <1>2, <1>4, <1>6, <1>7 DEF Active, Opened, ToMake
<1>9. HolderKnows(p)'
  <2>1. CASE file.version = 0
    BY <1>3, <1>6, <1>7, <2>1, SchemaIsTwo DEF HolderKnows, Migrating
  <2>2. CASE file.version = 1
    <3>1. file.parts = {1}
      BY <1>1, <2>2, SchemaIsTwo DEF MigrationIsAtomic
    <3> QED
      BY <1>3, <1>6, <1>7, <2>2, <3>1, SchemaIsTwo DEF HolderKnows, Migrating
  <2> QED
    BY <1>3, <2>1, <2>2
<1> QED
  BY <1>1, <1>2, <1>5, <1>6, <1>8, <1>9, AloneKeepsInvariant

LEMMA ColumnsKeepsInvariant ==
    ASSUME IInv, NEW p \in Procs, Columns(p)
    PROVE  IInv'
<1> DEFINE done == [proc[p].work EXCEPT !.parts = {1}, !.announced = proc[p].work.row # "none"]
<1>1. Typed /\ Active(p) /\ HolderKnows(p)
  BY TypedIsTypeOK DEF IInv, HoldersKnow, Columns, Active, Opened
<1>2. /\ UNCHANGED <<disk, origin, sidecar, lock, reported, told, busy, bounds>>
      /\ proc[p].pc = "columns"
      /\ proc' = [proc EXCEPT ![p] = [proc[p] EXCEPT !.pc = "validate", !.work = done]]
  BY <1>1 DEF Columns, Typed, ProcAt
<1>3. /\ file \in Files /\ file.version = 0 /\ proc[p].work = file /\ (file # Empty => Saved)
      /\ proc[p] \in ProcAt(Len(backups))
  BY <1>1, <1>2 DEF Typed, HolderKnows, Migrating
<1>4. /\ done \in Files /\ done.parts = {1} /\ done.row = file.row /\ done.state = file.state
      /\ done.announced = (file.row # "none")
  BY <1>3, SchemaIsTwo DEF Files
<1> HIDE DEF done
<1>5. /\ proc'[p] = [proc[p] EXCEPT !.pc = "validate", !.work = done]
      /\ proc' = [proc EXCEPT ![p] = proc'[p]]
  BY <1>1, <1>2 DEF Typed
<1>6. proc'[p] \in ProcAt(Len(backups)) /\ proc'[p].pc = "validate" /\ proc'[p].work = done
  BY <1>3, <1>4, <1>5 DEF ProcAt, Opened
<1>7. file' = file /\ backups' = backups /\ origin' = origin /\ Saved' = Saved
  BY <1>2 DEF disk, Saved, Whole
<1>8. Active(p)' /\ ToMake(p)' <= ToMake(p)
  BY <1>2, <1>6, <1>7 DEF Active, Opened, ToMake
<1>9. HolderKnows(p)'
  BY <1>3, <1>4, <1>6, <1>7, SchemaIsTwo DEF HolderKnows, Migrating
<1> QED
  BY <1>1, <1>2, <1>5, <1>6, <1>8, <1>9, AloneKeepsInvariant

LEMMA ValidateKeepsInvariant ==
    ASSUME IInv, NEW p \in Procs, Validate(p)
    PROVE  IInv'
<1>1. CASE proc[p].work.row = "bad"
  BY <1>1, FailKeepsInvariant DEF Validate
<1>2. CASE proc[p].work.row # "bad"
  <2> DEFINE done == [proc[p].work EXCEPT !.version = 1]
  <2>1. Typed /\ Active(p) /\ HolderKnows(p)
    BY TypedIsTypeOK DEF IInv, HoldersKnow, Validate, Active, Opened
  <2>2. /\ UNCHANGED <<disk, origin, sidecar, lock, reported, told, busy, bounds>>
        /\ proc[p].pc = "validate"
        /\ proc' = [proc EXCEPT ![p] = [proc[p] EXCEPT !.pc = "index", !.work = done]]
    <3>1. proc[p].pc = "validate" /\ proc \in [Procs -> ProcAt(Len(backups))]
      BY <2>1 DEF Validate, Typed
    <3>2. /\ UNCHANGED <<disk, origin, sidecar, lock, reported, told, busy, bounds>>
          /\ proc' = [proc EXCEPT ![p].pc = "index", ![p].work.version = 1]
      BY <1>2 DEF Validate
    <3> QED
      BY <3>1, <3>2
  <2>3. /\ file.version = 0 /\ proc[p].work.parts = {1} /\ (file # Empty => Saved)
        /\ proc[p].work.row = file.row /\ proc[p].work.state = file.state
        /\ proc[p].work.announced = (file.row # "none")
        /\ proc[p] \in ProcAt(Len(backups)) /\ proc[p].work \in Files
    BY <2>1, <2>2 DEF Typed, HolderKnows, Migrating, ProcAt
  <2>4. /\ done \in Files /\ done.parts = {1} /\ done.row = file.row /\ done.state = file.state
        /\ done.version = 1 /\ done.announced = (file.row # "none")
    BY <2>3, SchemaIsTwo DEF Files
  <2> HIDE DEF done
  <2>5. /\ proc'[p] = [proc[p] EXCEPT !.pc = "index", !.work = done]
        /\ proc' = [proc EXCEPT ![p] = proc'[p]]
    BY <2>1, <2>2 DEF Typed
  <2>6. proc'[p] \in ProcAt(Len(backups)) /\ proc'[p].pc = "index" /\ proc'[p].work = done
    BY <2>3, <2>4, <2>5 DEF ProcAt, Opened
  <2>7. file' = file /\ backups' = backups /\ origin' = origin /\ Saved' = Saved
    BY <2>2 DEF disk, Saved, Whole
  <2>8. Active(p)' /\ ToMake(p)' <= ToMake(p)
    BY <2>2, <2>6, <2>7 DEF Active, Opened, ToMake
  <2>9. HolderKnows(p)'
    BY <2>3, <2>4, <2>6, <2>7, SchemaIsTwo DEF HolderKnows, Migrating
  <2> QED
    BY <2>1, <2>2, <2>5, <2>6, <2>8, <2>9, AloneKeepsInvariant
<1> QED
  BY <1>1, <1>2

LEMMA IndexKeepsInvariant ==
    ASSUME IInv, NEW p \in Procs, Index(p)
    PROVE  IInv'
<1> DEFINE done == [proc[p].work EXCEPT !.parts = {1, 2}, !.version = 2]
<1>1. Typed /\ Active(p) /\ HolderKnows(p)
  BY TypedIsTypeOK DEF IInv, HoldersKnow, Index, Active, Opened
<1>2. proc[p].pc = "index"
  BY DEF Index
<1>3. /\ file.version < SCHEMA_VERSION /\ (file # Empty => Saved)
      /\ proc[p].work.parts = {1}
      /\ proc[p].work.row = file.row /\ proc[p].work.state = file.state
      /\ (file.version = 0 => proc[p].work.announced = (file.row # "none"))
      /\ proc[p] \in ProcAt(Len(backups)) /\ proc[p].work \in Files
  BY <1>1, <1>2 DEF Typed, HolderKnows, Migrating, ProcAt
<1>4. /\ UNCHANGED <<disk, origin, sidecar, lock, reported, told, busy, bounds>>
      /\ proc' = [proc EXCEPT ![p] = [proc[p] EXCEPT !.pc = "commit", !.work = done]]
  <2>1. {1} \cup {2} = {1, 2}
    OBVIOUS
  <2>2. /\ UNCHANGED <<disk, origin, sidecar, lock, reported, told, busy, bounds>>
        /\ proc' = [proc EXCEPT ![p].pc = "commit",
                       ![p].work = [@ EXCEPT !.parts = proc[p].work.parts \cup {2}, !.version = 2]]
    BY DEF Index
  <2> DEFINE parts == proc[p].work.parts \cup {2}
             made == [proc[p].work EXCEPT !.parts = parts, !.version = 2]
  <2>3. proc \in [Procs -> ProcAt(Len(backups))]
    BY <1>1 DEF Typed
  <2>4. proc' = [proc EXCEPT ![p] = [proc[p] EXCEPT !.pc = "commit", !.work = made]]
    BY <1>3, <2>2, <2>3 DEF ProcAt
  <2>5. parts = {1, 2}
    BY <1>3, <2>1
  <2>6. made = done
    <3> HIDE DEF parts
    <3> QED
      BY <2>5
  <2> QED
    BY <2>2, <2>4, <2>6
<1>5. /\ done \in Files /\ done.parts = {1, 2} /\ done.row = file.row /\ done.state = file.state
      /\ done.version = 2 /\ (file.version = 0 => done.announced = (file.row # "none"))
  <2>1. proc[p].work \in Files /\ {1, 2} \in SUBSET (1..SCHEMA_VERSION) /\ 2 \in 0..(SCHEMA_VERSION + 1)
    BY <1>3, SchemaIsTwo
  <2>2. done \in Files
    BY <2>1 DEF Files
  <2>3. done.parts = {1, 2} /\ done.row = proc[p].work.row /\ done.state = proc[p].work.state
    BY <2>1 DEF Files
  <2>4. done.version = 2 /\ done.announced = proc[p].work.announced
    BY <2>1 DEF Files
  <2> HIDE DEF done
  <2> QED
    BY <1>3, <2>2, <2>3, <2>4
<1> HIDE DEF done
<1>6. /\ proc'[p] = [proc[p] EXCEPT !.pc = "commit", !.work = done]
      /\ proc' = [proc EXCEPT ![p] = proc'[p]]
  BY <1>1, <1>4 DEF Typed
<1>7. proc'[p] \in ProcAt(Len(backups)) /\ proc'[p].pc = "commit" /\ proc'[p].work = done
  BY <1>3, <1>5, <1>6 DEF ProcAt, Opened
<1>8. file' = file /\ backups' = backups /\ origin' = origin /\ Saved' = Saved
  BY <1>4 DEF disk, Saved, Whole
<1>9. Active(p)' /\ ToMake(p)' <= ToMake(p)
  BY <1>2, <1>7, <1>8 DEF Active, Opened, ToMake
<1>10. HolderKnows(p)'
  BY <1>3, <1>5, <1>7, <1>8, SchemaIsTwo DEF HolderKnows, Migrating
<1> QED
  BY <1>1, <1>4, <1>6, <1>7, <1>9, <1>10, AloneKeepsInvariant

LEMMA ActKeepsInvariant ==
    ASSUME IInv, NEW p \in Procs, Act(p)
    PROVE  IInv'
<1>1. Typed /\ Active(p) /\ HolderKnows(p) /\ proc[p].pc = "ready"
  BY TypedIsTypeOK DEF IInv, HoldersKnow, Act, Active, Opened
<1>2. proc[p] \in ProcAt(Len(backups)) /\ file.version = SCHEMA_VERSION
  BY <1>1 DEF Typed, HolderKnows
<1>3. CASE proc[p].action = "stats"
  BY <1>3, FailKeepsInvariant DEF Act
<1>4. ASSUME NEW to \in {"reserve", "engine"}, to = "reserve" => proc[p].action = "backup",
             Goes(p, to), UNCHANGED <<disk, origin, sidecar, lock, reported, told, busy, bounds>>
      PROVE  IInv'
  <2>1. /\ proc'[p] = [proc[p] EXCEPT !.pc = to]
        /\ proc' = [proc EXCEPT ![p] = proc'[p]]
    BY <1>1, <1>4 DEF Goes, Typed
  <2>2. proc'[p] \in ProcAt(Len(backups)) /\ proc'[p].pc = to /\ proc'[p].action = proc[p].action
    BY <1>2, <2>1 DEF ProcAt, Opened
  <2>3. file' = file
    BY <1>4 DEF disk
  <2>4. Active(p)' /\ ToMake(p)' <= ToMake(p)
    BY <1>1, <1>2, <2>2, <2>3 DEF Active, Opened, ToMake
  <2>5. HolderKnows(p)'
    BY <1>2, <1>4, <2>2, <2>3 DEF HolderKnows, Migrating
  <2> QED
    BY <1>1, <1>4, <2>1, <2>2, <2>4, <2>5, AloneKeepsInvariant
<1> QED
  BY <1>3, <1>4 DEF Act

LEMMA LoadKeepsInvariant ==
    ASSUME IInv, NEW p \in Procs, Load(p)
    PROVE  IInv'
<1>1. CASE file.state = None /\ sidecar = Corrupt
  BY <1>1, FailKeepsInvariant DEF Load
<1>2. CASE ~(file.state = None /\ sidecar = Corrupt)
  <2> DEFINE at == IF file.state # None THEN file.state
                   ELSE IF sidecar # None THEN sidecar
                   ELSE IF file.row = "none" THEN 0 ELSE 1
  <2>1. Typed /\ Active(p) /\ HolderKnows(p) /\ PositionsAreCounted
    BY TypedIsTypeOK DEF IInv, HoldersKnow, Load, Active, Opened
  <2>2. /\ UNCHANGED <<disk, origin, sidecar, lock, reported, told, busy, bounds>>
        /\ proc[p].pc = "engine"
        /\ proc' = [proc EXCEPT ![p].pc = "run", ![p].position = at]
    BY <1>2 DEF Load
  <2>3. /\ proc[p] \in ProcAt(Len(backups)) /\ file.version = SCHEMA_VERSION
        /\ cycles \in Nat
    BY <2>1, <2>2, StartupAssumption DEF Typed, HolderKnows
  <2>4. at \in Positions /\ at <= cycles + 1
    <3>1. CASE file.state # None
      BY <2>1, <3>1 DEF Typed, Files, PositionsAreCounted
    <3>2. CASE file.state = None /\ sidecar # None
      BY <1>2, <2>1, <2>3, <3>2, EmptyIsFile DEF PositionsAreCounted, Sidecars
    <3>3. CASE file.state = None /\ sidecar = None
      BY <2>3, <3>3, EmptyIsFile
    <3> QED
      BY <3>1, <3>2, <3>3
  <2>5. file.state # None => file.state = at
    OBVIOUS
  <2> HIDE DEF at
  <2>6. /\ proc'[p] = [proc[p] EXCEPT !.pc = "run", !.position = at]
        /\ proc' = [proc EXCEPT ![p] = proc'[p]]
    BY <2>1, <2>2 DEF Typed
  <2>7. proc'[p] \in ProcAt(Len(backups)) /\ proc'[p].pc = "run" /\ proc'[p].position = at
    BY <2>3, <2>4, <2>6 DEF ProcAt, Opened
  <2>8. file' = file /\ cycles' = cycles
    BY <2>2 DEF disk, bounds
  <2>9. Active(p)' /\ ToMake(p)' <= ToMake(p)
    BY <2>2, <2>7, <2>8 DEF Active, Opened, ToMake
  <2>10. HolderKnows(p)'
    <3>1. file.state # None => file.state <= at
      BY <2>4, <2>5 DEF Positions
    <3> QED
      BY <2>3, <2>4, <2>7, <2>8, <3>1 DEF HolderKnows, Migrating
  <2> QED
    BY <2>1, <2>2, <2>6, <2>7, <2>9, <2>10, AloneKeepsInvariant
<1> QED
  BY <1>1, <1>2

LEMMA CommitKeepsInvariant ==
    ASSUME IInv, NEW p \in Procs, Commit(p)
    PROVE  IInv'
<1>1. Typed /\ Active(p) /\ HolderKnows(p) /\ proc[p].pc = "commit"
  BY TypedIsTypeOK DEF IInv, HoldersKnow, Commit, Active, Opened
<1>2. /\ file.version < SCHEMA_VERSION /\ (file # Empty => Saved)
      /\ proc[p].work.parts = {1, 2} /\ proc[p].work.version = 2
      /\ proc[p].work.row = file.row /\ proc[p].work.state = file.state
      /\ (file.version = 0 => proc[p].work.announced = (file.row # "none"))
      /\ proc[p] \in ProcAt(Len(backups)) /\ proc[p].work \in Files /\ file \in Files
  BY <1>1 DEF Typed, HolderKnows, Migrating, ProcAt
<1>3. /\ UNCHANGED <<backups, origin, sidecar, lock, reported, told, busy, starts, cycles, takes>>
      /\ file' = proc[p].work
      /\ proc' = [proc EXCEPT ![p].pc = "ready", ![p].work = Empty, ![p].backup = 0]
  BY DEF Commit, bounds
<1>4. /\ proc'[p] = [proc[p] EXCEPT !.pc = "ready", !.work = Empty, !.backup = 0]
      /\ proc' = [proc EXCEPT ![p] = proc'[p]]
  BY <1>1, <1>3 DEF Typed
<1>5. Len(backups) \in Nat /\ backups \in Seq(Entry) /\ told \in BOOLEAN /\ cycles \in 0..MaxCycles
  BY <1>1, BackupsAreFunction DEF Typed
<1>6. proc'[p] \in ProcAt(Len(backups')) /\ proc'[p].pc = "ready"
  <2>1. "ready" \in {"off", "lock"} \cup Opened /\ 0 \in 0..Len(backups)
    BY <1>5 DEF Opened
  <2>2. proc'[p] \in ProcAt(Len(backups)) /\ proc'[p].pc = "ready"
    BY <1>2, <1>4, <2>1, EmptyIsFile DEF ProcAt
  <2> QED
    BY <1>3, <2>2
<1>7. Typed'
  <2>1. /\ backups' \in Seq(Entry) /\ Len(backups) <= Len(backups') /\ file' \in Files
        /\ told' \in BOOLEAN /\ cycles' \in 0..MaxCycles
    BY <1>2, <1>3, <1>5
  <2> QED
    BY <1>1, <1>3, <1>4, <1>6, <2>1, HolderKeepsTypes
<1>8. Active(p)' /\ HolderKnows(p)'
  BY <1>2, <1>3, <1>6, SchemaIsTwo DEF Active, Opened, HolderKnows, Migrating
<1>9. Len(backups') + ToMake(p)' <= Len(backups) + ToMake(p)
  BY <1>1, <1>3, <1>5, <1>6 DEF ToMake
<1>10. file = origin
  BY <1>2, SchemaIsTwo DEF IInv, MigrationIsAtomic, Files
<1>11. BackupsAreWhole'
  BY <1>2, <1>3, <1>10 DEF IInv, BackupsAreWhole, Saved, Whole
<1>12. MigrationIsAtomic'
  BY <1>2, <1>3, SchemaIsTwo DEF MigrationIsAtomic
<1>13. PositionsAreCounted'
  BY <1>2, <1>3 DEF IInv, PositionsAreCounted
<1>14. OldRowsCount'
  BY <1>2, <1>3, <1>10 DEF IInv, OldRowsCount
<1>15. \A q \in Procs : q # p => proc'[q] = proc[q]
  BY <1>1, <1>4 DEF Typed
<1> QED
  BY <1>1, <1>3, <1>7, <1>8, <1>9, <1>11, <1>12, <1>13, <1>14, <1>15, HolderKeepsInvariant

LEMMA CycleKeepsInvariant ==
    ASSUME IInv, NEW p \in Procs, Cycle(p)
    PROVE  IInv'
<1> DEFINE at == proc[p].position + 1
<1>1. Typed /\ Active(p) /\ HolderKnows(p) /\ proc[p].pc = "run"
  BY TypedIsTypeOK DEF IInv, HoldersKnow, Cycle, Active, Opened
<1>2. /\ file.version = SCHEMA_VERSION /\ proc[p].position <= cycles + 1
      /\ (file.state # None => file.state <= proc[p].position)
      /\ proc[p] \in ProcAt(Len(backups)) /\ proc[p].position \in Positions /\ file \in Files
      /\ Len(backups) \in Nat /\ backups \in Seq(Entry) /\ told \in BOOLEAN
      /\ cycles \in 0..MaxCycles
  BY <1>1, BackupsAreFunction DEF Typed, HolderKnows, ProcAt
<1>3. /\ UNCHANGED <<backups, origin, sidecar, lock, reported, busy, starts, takes>>
      /\ proc' = [proc EXCEPT ![p].position = at]
      /\ file' = [file EXCEPT !.state = at, !.announced = file.row # "none"]
      /\ told' = (told \/ (file.row # "none" /\ ~file.announced))
      /\ cycles < MaxCycles /\ cycles' = cycles + 1
  BY <1>1 DEF Cycle, Stores, Typed
<1>4. at \in Positions /\ at <= cycles' + 1 /\ at \in Nat /\ at # None /\ cycles' \in 0..MaxCycles
  BY <1>2, <1>3, StartupAssumption DEF Positions
<1> HIDE DEF at
<1>5. /\ proc'[p] = [proc[p] EXCEPT !.position = at]
      /\ proc' = [proc EXCEPT ![p] = proc'[p]]
  BY <1>1, <1>3 DEF Typed
<1>6. proc'[p] \in ProcAt(Len(backups')) /\ proc'[p].pc = "run" /\ proc'[p].position = at
  <2>1. proc[p] \in ProcAt(Len(backups)) /\ proc[p].pc = "run" /\ backups' = backups
    BY <1>1, <1>2, <1>3 DEF Typed
  <2> QED
    BY <1>4, <1>5, <2>1 DEF ProcAt
<1>7. /\ file' \in Files /\ file'.version = file.version /\ file'.parts = file.parts
      /\ file'.row = file.row /\ file'.state = at /\ (file'.announced <=> file.row # "none")
  <2>1. (file.row # "none") \in BOOLEAN
    OBVIOUS
  <2> QED
    BY <1>2, <1>3, <1>4, <2>1 DEF Files
<1>8. Typed'
  <2>1. told' \in BOOLEAN
    BY <1>2, <1>3
  <2>2. backups' \in Seq(Entry) /\ Len(backups) <= Len(backups')
    BY <1>2, <1>3
  <2> QED
    BY <1>1, <1>3, <1>4, <1>5, <1>6, <1>7, <2>1, <2>2, HolderKeepsTypes
<1>9. Active(p)' /\ HolderKnows(p)'
  <2>1. at <= at
    BY <1>4
  <2> QED
    BY <1>2, <1>4, <1>6, <1>7, <2>1 DEF Active, Opened, HolderKnows, Migrating
<1>10. Len(backups') + ToMake(p)' <= Len(backups) + ToMake(p)
  BY <1>1, <1>2, <1>3, <1>6 DEF ToMake
<1>11. BackupsAreWhole'
  BY <1>3, <1>7 DEF IInv, BackupsAreWhole, Whole
<1>12. MigrationIsAtomic'
  BY <1>2, <1>3, <1>7 DEF IInv, MigrationIsAtomic
<1>13. PositionsAreCounted'
  BY <1>3, <1>4, <1>7 DEF IInv, PositionsAreCounted
<1>14. OldRowsCount'
  <2>1. ASSUME origin.version = 0 /\ origin.row # "none"
        PROVE  ~told' /\ file'.row # "none" /\ file'.announced
    <3>1. ~told /\ file.row # "none" /\ file.announced
      BY <1>2, <2>1 DEF IInv, OldRowsCount
    <3> QED
      BY <1>3, <1>7, <3>1
  <2> QED
    BY <1>3, <2>1 DEF OldRowsCount
<1>15. \A q \in Procs : q # p => proc'[q] = proc[q]
  BY <1>1, <1>5 DEF Typed
<1> QED
  BY <1>1, <1>3, <1>8, <1>9, <1>10, <1>11, <1>12, <1>13, <1>14, <1>15, HolderKeepsInvariant

\* A backup that is whole stays so.
LEMMA BackupsStayWhole ==
    ASSUME Typed, BackupsAreWhole, UNCHANGED <<file, origin, reported>>,
           \A i \in DOMAIN backups : Whole(i) =>
                Whole(i)' /\ i \in DOMAIN backups' /\ backups'[i].holds = backups[i].holds
    PROVE  BackupsAreWhole' /\ (Saved => Saved')
<1>1. reported \subseteq DOMAIN backups
  BY BackupsAreFunction DEF Typed
<1> QED
  BY <1>1 DEF BackupsAreWhole, Saved

LEMMA ReserveKeepsInvariant ==
    ASSUME IInv, NEW p \in Procs, Reserve(p)
    PROVE  IInv'
<1> DEFINE new == [holds |-> None, synced |-> FALSE]
           n == Len(backups)
<1>1. Typed /\ Active(p) /\ HolderKnows(p) /\ proc[p].pc = "reserve"
  BY TypedIsTypeOK DEF IInv, HoldersKnow, Reserve, Active, Opened
<1>2. /\ UNCHANGED <<file, origin, sidecar, lock, reported, told, busy, starts, cycles, takes>>
      /\ backups' = Append(backups, new)
      /\ proc' = [proc EXCEPT ![p].pc = "copy", ![p].backup = n + 1]
  BY DEF Reserve, bounds
<1>3. /\ n \in Nat /\ DOMAIN backups = 1..n /\ backups \in Seq(Entry) /\ new \in Entry
      /\ proc[p] \in ProcAt(n)
      /\ file.version < SCHEMA_VERSION \/ (file.version = SCHEMA_VERSION /\ proc[p].action = "backup")
      /\ file \in Files /\ told \in BOOLEAN /\ cycles \in 0..MaxCycles
  BY <1>1, BackupsAreFunction DEF Typed, Entry, HolderKnows
<1>4. /\ backups' \in Seq(Entry) /\ Len(backups') = n + 1 /\ DOMAIN backups' = 1..(n + 1)
      /\ \A i \in 1..n : backups'[i] = backups[i]
      /\ backups'[n + 1] = new
  <2> HIDE DEF new
  <2> QED
    BY <1>2, <1>3, AppendProperties
<1>5. /\ proc'[p] = [proc[p] EXCEPT !.pc = "copy", !.backup = n + 1]
      /\ proc' = [proc EXCEPT ![p] = proc'[p]]
  BY <1>1, <1>2 DEF Typed
<1>6. /\ proc'[p] \in ProcAt(Len(backups')) /\ proc'[p].pc = "copy" /\ proc'[p].backup = n + 1
      /\ proc'[p].action = proc[p].action
  <2> DEFINE m == n + 1
  <2>1. "copy" \in {"off", "lock"} \cup Opened
    BY DEF Opened
  <2>2. m \in 0..m /\ m = Len(backups')
    BY <1>3, <1>4
  <2>3. proc[p] \in ProcAt(m)
    BY <1>3 DEF ProcAt
  <2>4. proc'[p] = [proc[p] EXCEPT !.pc = "copy", !.backup = m]
    BY <1>5
  <2> HIDE DEF m
  <2>5. proc'[p] \in ProcAt(m) /\ proc'[p].pc = "copy" /\ proc'[p].backup = m
        /\ proc'[p].action = proc[p].action
    BY <2>1, <2>2, <2>3, <2>4 DEF ProcAt
  <2> QED
    BY <2>2, <2>5 DEF m
<1>7. Typed'
  <2>1. /\ backups' \in Seq(Entry) /\ Len(backups) <= Len(backups') /\ file' \in Files
        /\ told' \in BOOLEAN /\ cycles' \in 0..MaxCycles
    BY <1>2, <1>3, <1>4
  <2> QED
    BY <1>1, <1>2, <1>5, <1>6, <2>1, HolderKeepsTypes
<1>8. Active(p)' /\ HolderKnows(p)'
  <2>1. backups'[proc'[p].backup].synced = FALSE /\ proc'[p].backup \in DOMAIN backups'
    BY <1>3, <1>4, <1>6
  <2> QED
    BY <1>2, <1>3, <1>6, <2>1 DEF Active, Opened, HolderKnows, Migrating
<1>9. Len(backups') + ToMake(p)' <= Len(backups) + ToMake(p)
  BY <1>1, <1>2, <1>3, <1>4, <1>6 DEF ToMake
<1>10. BackupsAreWhole'
  <2>1. \A i \in DOMAIN backups : Whole(i) =>
            Whole(i)' /\ i \in DOMAIN backups' /\ backups'[i].holds = backups[i].holds
    BY <1>3, <1>4 DEF Whole
  <2> QED
    BY <1>1, <1>2, <2>1, BackupsStayWhole DEF IInv
<1>11. MigrationIsAtomic' /\ PositionsAreCounted' /\ OldRowsCount'
  BY <1>2 DEF IInv, MigrationIsAtomic, PositionsAreCounted, OldRowsCount
<1>12. \A q \in Procs : q # p => proc'[q] = proc[q]
  BY <1>1, <1>5 DEF Typed
<1> QED
  BY <1>1, <1>2, <1>7, <1>8, <1>9, <1>10, <1>11, <1>12, HolderKeepsInvariant

LEMMA CopyKeepsInvariant ==
    ASSUME IInv, NEW p \in Procs, Copy(p)
    PROVE  IInv'
<1> DEFINE n == Len(backups)
           k == proc[p].backup
<1>1. Typed /\ Active(p) /\ HolderKnows(p) /\ proc[p].pc = "copy"
  BY TypedIsTypeOK DEF IInv, HoldersKnow, Copy, Active, Opened
<1>2. /\ UNCHANGED <<file, origin, sidecar, lock, reported, told, busy, starts, cycles, takes>>
      /\ backups' = [backups EXCEPT ![k].holds = file]
      /\ proc' = [proc EXCEPT ![p].pc = "seal"]
  BY DEF Copy, Goes, bounds
<1>3. /\ n \in Nat /\ DOMAIN backups = 1..n /\ backups \in Seq(Entry)
      /\ backups \in [1..n -> Entry] /\ k \in 1..n /\ backups[k] \in Entry /\ ~backups[k].synced
      /\ proc[p] \in ProcAt(n)
      /\ file.version < SCHEMA_VERSION \/ (file.version = SCHEMA_VERSION /\ proc[p].action = "backup")
      /\ file \in Files /\ told \in BOOLEAN /\ cycles \in 0..MaxCycles
  BY <1>1, BackupsAreFunction, LenProperties DEF Typed, HolderKnows
<1>4. [backups[k] EXCEPT !.holds = file] \in Entry
  BY <1>3 DEF Entry
<1>5. /\ backups' \in Seq(Entry) /\ Len(backups') = n /\ DOMAIN backups' = 1..n
      /\ \A i \in 1..n : i # k => backups'[i] = backups[i]
      /\ backups'[k] = [backups[k] EXCEPT !.holds = file]
  <2>1. backups' = [backups EXCEPT ![k] = [backups[k] EXCEPT !.holds = file]]
    BY <1>2, <1>3
  <2> HIDE DEF k, n
  <2>2. backups' \in Seq(Entry) /\ Len(backups') = Len(backups)
    BY <1>3, <1>4, <2>1, ExceptSeq
  <2> QED
    BY <1>3, <2>1, <2>2 DEF n
<1>6. /\ proc'[p] = [proc[p] EXCEPT !.pc = "seal"]
      /\ proc' = [proc EXCEPT ![p] = proc'[p]]
  BY <1>1, <1>2 DEF Typed
<1>7. /\ proc'[p] \in ProcAt(n) /\ proc'[p].pc = "seal" /\ proc'[p].backup = k
      /\ proc'[p].action = proc[p].action
  <2> HIDE DEF n
  <2> QED
    BY <1>3, <1>6 DEF ProcAt, Opened
<1>8. Typed'
  <2>1. /\ backups' \in Seq(Entry) /\ Len(backups) <= Len(backups') /\ file' \in Files
        /\ told' \in BOOLEAN /\ cycles' \in 0..MaxCycles /\ proc'[p] \in ProcAt(Len(backups'))
    BY <1>2, <1>3, <1>5, <1>7
  <2> QED
    BY <1>1, <1>2, <1>6, <2>1, HolderKeepsTypes
<1>9. Active(p)' /\ HolderKnows(p)'
  <2>1. backups'[k].holds = file /\ k \in DOMAIN backups'
    BY <1>3, <1>5 DEF Entry
  <2> QED
    BY <1>2, <1>3, <1>7, <2>1 DEF Active, Opened, HolderKnows, Migrating
<1>10. Len(backups') + ToMake(p)' <= Len(backups) + ToMake(p)
  BY <1>1, <1>2, <1>3, <1>5, <1>7 DEF ToMake
<1>11. BackupsAreWhole'
  <2>1. \A i \in DOMAIN backups : Whole(i) =>
            Whole(i)' /\ i \in DOMAIN backups' /\ backups'[i].holds = backups[i].holds
    BY <1>3, <1>5 DEF Whole
  <2> QED
    BY <1>1, <1>2, <2>1, BackupsStayWhole DEF IInv
<1>12. MigrationIsAtomic' /\ PositionsAreCounted' /\ OldRowsCount'
  BY <1>2 DEF IInv, MigrationIsAtomic, PositionsAreCounted, OldRowsCount
<1>13. \A q \in Procs : q # p => proc'[q] = proc[q]
  BY <1>1, <1>6 DEF Typed
<1> QED
  BY <1>1, <1>2, <1>8, <1>9, <1>10, <1>11, <1>12, <1>13, HolderKeepsInvariant

\* The sync of a backup, for a migration that goes on or for the user.
LEMMA SealKeepsInvariant ==
    ASSUME IInv, NEW p \in Procs, Seal(p)
    PROVE  IInv'
<1> DEFINE n == Len(backups)
<1>1. PICK k : k = proc[p].backup
  OBVIOUS
<1>2. Typed /\ Active(p) /\ HolderKnows(p) /\ proc[p].pc = "seal" /\ BackupsAreCounted
  BY TypedIsTypeOK DEF IInv, HoldersKnow, Seal, Active, Opened
<1>3. /\ UNCHANGED <<file, origin, sidecar, told, busy, starts, cycles, takes>>
      /\ backups' = [backups EXCEPT ![k].synced = TRUE]
  BY <1>1 DEF Seal, bounds
<1>4. /\ n \in Nat /\ DOMAIN backups = 1..n /\ backups \in Seq(Entry)
      /\ backups \in [1..n -> Entry] /\ k \in 1..n /\ backups[k] \in Entry /\ backups[k].holds = file
      /\ proc[p] \in ProcAt(n)
      /\ file.version < SCHEMA_VERSION \/ (file.version = SCHEMA_VERSION /\ proc[p].action = "backup")
      /\ file \in Files /\ file # None /\ told \in BOOLEAN /\ cycles \in 0..MaxCycles
  BY <1>1, <1>2, BackupsAreFunction, LenProperties, NoneIsNoFile DEF Typed, HolderKnows
<1>5. [backups[k] EXCEPT !.synced = TRUE] \in Entry
  BY <1>4 DEF Entry
<1>6. /\ backups' \in Seq(Entry) /\ Len(backups') = n /\ DOMAIN backups' = 1..n
      /\ \A i \in 1..n : i # k => backups'[i] = backups[i]
      /\ backups'[k].holds = file /\ backups'[k].synced = TRUE
  <2>1. backups' = [backups EXCEPT ![k] = [backups[k] EXCEPT !.synced = TRUE]]
    BY <1>3, <1>4
  <2>2. [backups[k] EXCEPT !.synced = TRUE].holds = file /\ [backups[k] EXCEPT !.synced = TRUE].synced = TRUE
    BY <1>4 DEF Entry
  <2> HIDE DEF n
  <2>3. backups' \in Seq(Entry) /\ Len(backups') = Len(backups)
    BY <1>4, <1>5, <2>1, ExceptSeq
  <2> QED
    BY <1>4, <2>1, <2>2, <2>3 DEF n
<1>7. \A i \in DOMAIN backups : Whole(i) =>
          Whole(i)' /\ i \in DOMAIN backups' /\ backups'[i].holds = backups[i].holds
  <2> SUFFICES ASSUME NEW i \in 1..n, Whole(i)
               PROVE  Whole(i)' /\ i \in 1..n /\ backups'[i].holds = backups[i].holds
    BY <1>4, <1>6
  <2>1. CASE i = k
    BY <1>4, <1>6, <2>1 DEF Whole
  <2>2. CASE i # k
    BY <1>6, <2>2 DEF Whole
  <2> QED
    BY <2>1, <2>2
<1>8. Whole(k)' /\ backups'[k].holds = file /\ k \in DOMAIN backups'
  BY <1>4, <1>6 DEF Whole
<1>9. MigrationIsAtomic' /\ PositionsAreCounted' /\ OldRowsCount'
  BY <1>3 DEF IInv, MigrationIsAtomic, PositionsAreCounted, OldRowsCount
<1>10. CASE proc[p].action = "backup" /\ file.version = SCHEMA_VERSION
  <2>1. /\ proc' = [proc EXCEPT ![p] = Off] /\ lock' = Free(p) /\ reported' = reported \cup {k}
    BY <1>1, <1>10 DEF Seal
  <2>2. proc'[p] = Off /\ \A q \in Procs : q # p => proc'[q] = proc[q]
    BY <1>2, <2>1 DEF Typed
  <2>3. \A q \in Procs : ~Active(q)'
    BY <1>2, <2>2, OneHolder DEF Active, Opened, Off
  <2>4. Typed'
    <3>1. proc' \in [Procs -> ProcAt(Len(backups'))]
      BY <1>2, <1>4, <1>6, <2>1, OffIsTyped DEF Typed
    <3>2. lock' \in Procs \cup {None} /\ reported' \subseteq 1..Len(backups')
      BY <1>2, <1>4, <1>6, <2>1 DEF Typed, Free
    <3> QED
      BY <1>2, <1>3, <1>6, <2>3, <3>1, <3>2 DEF Typed
  <2>5. BackupsAreCounted'
    BY <1>2, <1>3, <1>6, <2>2, EndingKeepsCount DEF Off
  <2>6. BackupsAreWhole'
    <3>1. \A i \in reported : i \in DOMAIN backups /\ Whole(i)
      BY <1>2, <1>4 DEF IInv, BackupsAreWhole, Typed
    <3>2. \A i \in reported' : Whole(i)'
      BY <1>7, <1>8, <2>1, <3>1
    <3>3. file.version # origin.version /\ origin # Empty =>
              \E i \in DOMAIN backups' : Whole(i)' /\ backups'[i].holds = origin
      BY <1>7 DEF IInv, BackupsAreWhole
    <3> QED
      BY <1>3, <3>2, <3>3 DEF BackupsAreWhole
  <2> QED
    BY <1>9, <2>3, <2>4, <2>5, <2>6, CountBounds DEF IInv, HoldersKnow
<1>11. CASE ~(proc[p].action = "backup" /\ file.version = SCHEMA_VERSION)
  <2>1. UNCHANGED <<lock, reported>> /\ proc' = [proc EXCEPT ![p].pc = "begin"]
    BY <1>11 DEF Seal, Goes
  <2>2. /\ proc'[p] = [proc[p] EXCEPT !.pc = "begin"]
        /\ proc' = [proc EXCEPT ![p] = proc'[p]]
    BY <1>2, <2>1 DEF Typed
  <2>3. proc'[p] \in ProcAt(n) /\ proc'[p].pc = "begin"
    <3> HIDE DEF n
    <3> QED
      BY <1>4, <2>2 DEF ProcAt, Opened
  <2>4. Typed'
    <3>1. /\ backups' \in Seq(Entry) /\ Len(backups) <= Len(backups') /\ file' \in Files
          /\ told' \in BOOLEAN /\ cycles' \in 0..MaxCycles /\ proc'[p] \in ProcAt(Len(backups'))
      BY <1>3, <1>4, <1>6, <2>3
    <3> QED
      BY <1>2, <1>3, <2>1, <2>2, <3>1, HolderKeepsTypes
  <2>5. file.version < SCHEMA_VERSION /\ file = origin
    BY <1>4, <1>11, SchemaIsTwo DEF IInv, MigrationIsAtomic, Files
  <2>6. Saved'
    <3>1. origin' = origin
      BY <1>3
    <3> QED
      BY <1>8, <2>5, <3>1 DEF Saved
  <2>7. Active(p)' /\ HolderKnows(p)'
    BY <1>3, <2>3, <2>5, <2>6 DEF Active, Opened, HolderKnows, Migrating
  <2>8. Len(backups') + ToMake(p)' <= Len(backups) + ToMake(p)
    BY <1>2, <1>3, <1>4, <1>6, <2>3, <2>5, SchemaIsTwo DEF ToMake, Files
  <2>9. BackupsAreWhole'
    BY <1>2, <1>3, <1>7, <2>1, BackupsStayWhole DEF IInv
  <2>10. \A q \in Procs : q # p => proc'[q] = proc[q]
    BY <1>2, <2>2 DEF Typed
  <2> QED
    BY <1>2, <1>3, <1>9, <2>4, <2>7, <2>8, <2>9, <2>10, HolderKeepsInvariant
<1> QED
  BY <1>10, <1>11

LEMMA PowerLossKeepsInvariant ==
    ASSUME IInv, PowerLoss
    PROVE  IInv'
<1> DEFINE n == Len(backups)
           left(i) == IF backups[i].synced THEN backups[i] ELSE [backups[i] EXCEPT !.holds = None]
<1>1. Typed /\ BackupsAreCounted
  BY TypedIsTypeOK DEF IInv
<1>2. /\ UNCHANGED <<file, origin, sidecar, reported, told, starts, cycles, takes>>
      /\ proc' = [p \in Procs |-> Off] /\ lock' = None /\ busy' = FALSE
      /\ backups' = [i \in DOMAIN backups |-> left(i)]
  BY DEF PowerLoss, bounds
<1>3. n \in Nat /\ DOMAIN backups = 1..n /\ \A i \in 1..n : backups[i] \in Entry
  BY <1>1, BackupsAreFunction
<1>4. \A i \in 1..n : left(i) \in Entry
  BY <1>3 DEF Entry
<1>5. /\ \A i \in 1..n : backups'[i] = left(i)
      /\ backups' \in Seq(Entry) /\ Len(backups') = n /\ DOMAIN backups' = 1..n
  <2> HIDE DEF left
  <2>1. backups' \in [1..n -> Entry] /\ \A i \in 1..n : backups'[i] = left(i)
    BY <1>2, <1>3, <1>4
  <2>2. backups' \in Seq(Entry)
    BY <1>3, <2>1, IsASeq
  <2>3. Len(backups') \in Nat /\ DOMAIN backups' = 1..Len(backups')
    BY <2>2, LenProperties
  <2>4. Len(backups') = n
    BY <1>3, <2>1, <2>3
  <2> QED
    BY <2>1, <2>2, <2>4
<1>6. \A p \in Procs : proc'[p] = Off /\ ~Active(p)'
  BY <1>2 DEF Active, Opened, Off
<1>7. Typed'
  <2>1. proc' \in [Procs -> ProcAt(Len(backups'))]
    BY <1>2, <1>3, <1>5, OffIsTyped
  <2>2. busy' \in BOOLEAN
    BY <1>2
  <2> QED
    BY <1>1, <1>2, <1>5, <1>6, <2>1, <2>2 DEF Typed
<1>8. BackupsAreCounted'
  BY <1>1, <1>2, <1>5, <1>6, EndingKeepsCount DEF Off
<1>9. BackupsAreWhole'
  <2>1. \A i \in DOMAIN backups : Whole(i) =>
            Whole(i)' /\ i \in DOMAIN backups' /\ backups'[i].holds = backups[i].holds
    BY <1>3, <1>5 DEF Whole
  <2> QED
    BY <1>1, <1>2, <2>1, BackupsStayWhole DEF IInv
<1>10. MigrationIsAtomic' /\ PositionsAreCounted' /\ OldRowsCount'
  BY <1>2 DEF IInv, MigrationIsAtomic, PositionsAreCounted, OldRowsCount
<1> QED
  BY <1>6, <1>7, <1>8, <1>9, <1>10, CountBounds DEF IInv, HoldersKnow

LEMMA NextKeepsInvariant ==
    ASSUME IInv, [StartupNext]_startupVars
    PROVE  IInv'
<1>1. ASSUME NEW p \in Procs, Step(p)
      PROVE  IInv'
  <2>1. CASE Lock(p) \/ Open(p)
    BY <2>1, LockKeepsInvariant, OpenKeepsInvariant
  <2>2. CASE Reserve(p) \/ Copy(p) \/ Seal(p)
    BY <2>2, ReserveKeepsInvariant, CopyKeepsInvariant, SealKeepsInvariant
  <2>3. CASE TimesOut(p)
    BY <2>3, FailKeepsInvariant DEF TimesOut
  <2>4. CASE Begin(p) \/ Columns(p) \/ Validate(p)
    BY <2>4, BeginKeepsInvariant, ColumnsKeepsInvariant, ValidateKeepsInvariant
  <2>5. CASE Index(p) \/ Commit(p)
    BY <2>5, IndexKeepsInvariant, CommitKeepsInvariant
  <2>6. CASE Act(p) \/ Load(p)
    BY <2>6, ActKeepsInvariant, LoadKeepsInvariant
  <2> QED
    BY <1>1, <2>1, <2>2, <2>3, <2>4, <2>5, <2>6 DEF Step
<1>2. ASSUME NEW p \in Procs, Start(p) \/ Cycle(p)
      PROVE  IInv'
  BY <1>2, StartKeepsInvariant, CycleKeepsInvariant
<1>3. ASSUME NEW p \in Procs, Die(p)
      PROVE  IInv'
  BY <1>3, FailKeepsInvariant DEF Die
<1> QED
  BY <1>1, <1>2, <1>3, PowerLossKeepsInvariant, OthersKeepInvariant DEF StartupNext

(***************************************************************************)
(* The theorems.                                                           *)
(***************************************************************************)

\* What the process that holds the lock knows of the file and of its backup is true, at
\* every step of a start, and no start makes more than two backups (db.rs 85-149, 799-941).
THEOREM StartupInvariant == StartupSpec => []IInv
<1>1. StartupInit => IInv
  BY InvariantHoldsFirst
<1>2. IInv /\ [StartupNext]_startupVars => IInv'
  BY NextKeepsInvariant
<1> QED
  BY <1>1, <1>2, PTL DEF StartupSpec

\* However many processes start, die and start again, and whenever the power fails, a
\* database that held anything is migrated as a whole, and not before a backup of it is whole
\* and on disk (db.rs 121-135, 799-941, 1436-1519).
THEOREM MigrationIsAlwaysSafe == StartupSpec => []MigrationIsSafe
<1>1. IInv => MigrationIsSafe
  BY DEF IInv, MigrationIsSafe
<1> QED
  BY <1>1, StartupInvariant, PTL

\* A repository from before there were notifications is never announced as new (db.rs 858).
THEOREM OldRowsAreNeverAnnounced == StartupSpec => []OldRowsAreNotAnnounced
<1>1. IInv => OldRowsAreNotAnnounced
  BY DEF IInv, OldRowsCount, OldRowsAreNotAnnounced
<1> QED
  BY <1>1, StartupInvariant, PTL

LEMMA OnlyTwoStepsWrite ==
    ASSUME [StartupNext]_startupVars, file' # file
    PROVE  \E p \in Procs : Commit(p) \/ Cycle(p)
<1>1. ~PowerLoss /\ ~Take /\ ~Release /\ ~UNCHANGED startupVars
  BY DEF PowerLoss, Take, Release, startupVars, disk
<1>2. PICK p \in Procs : Start(p) \/ Step(p) \/ Cycle(p) \/ Die(p)
  BY <1>1 DEF StartupNext
<1>3. ~Fail(p) /\ ~Start(p) /\ ~Die(p) /\ ~TimesOut(p)
  BY DEF Fail, End, Start, Die, TimesOut, disk
<1>4. ~Lock(p) /\ ~Open(p) /\ ~Reserve(p) /\ ~Copy(p) /\ ~Seal(p) /\ ~Act(p)
  BY <1>3 DEF Lock, Open, Reserve, Copy, Seal, Act, disk
<1>5. ~Begin(p) /\ ~Columns(p) /\ ~Validate(p) /\ ~Index(p) /\ ~Load(p)
  BY <1>3 DEF Begin, Columns, Validate, Index, Load, disk
<1> QED
  BY <1>2, <1>3, <1>4, <1>5 DEF Step

\* A state that was stored is never lost and never replaced by an earlier one, by whatever
\* process and from whatever it had loaded (engine.rs 68-82, SECURITY.md 70-74).
THEOREM CheckpointAlwaysSurvives == StartupSpec => CheckpointSurvives
<1>1. ASSUME IInv, [StartupNext]_startupVars, file.state # None
      PROVE  file'.state # None /\ file'.state >= file.state
  <2>1. Typed
    BY <1>1, TypedIsTypeOK DEF IInv
  <2>2. file.state \in Nat /\ file \in Files
    BY <1>1, <2>1, StartupAssumption DEF Typed, Files, Positions
  <2>3. CASE file' = file
    BY <1>1, <2>2, <2>3
  <2>4. ASSUME NEW p \in Procs, Commit(p)
        PROVE  file'.state = file.state
    <3>1. proc[p].pc = "commit" /\ Active(p) /\ file' = proc[p].work
      BY <2>4 DEF Commit, Active, Opened
    <3> QED
      BY <1>1, <3>1 DEF IInv, HoldersKnow, HolderKnows
  <2>5. ASSUME NEW p \in Procs, Cycle(p)
        PROVE  file'.state # None /\ file'.state >= file.state
    <3>1. proc[p].pc = "run" /\ Active(p)
      BY <2>5 DEF Cycle, Active, Opened
    <3>2. file.state <= proc[p].position
      BY <1>1, <3>1 DEF IInv, HoldersKnow, HolderKnows
    <3>3. proc[p].position \in Nat
      BY <2>1, StartupAssumption DEF Typed, ProcAt, Positions
    <3>4. file'.state = proc[p].position + 1
      BY <2>2, <2>5 DEF Cycle, Stores, Files
    <3> QED
      BY <2>2, <3>2, <3>3, <3>4, StartupAssumption
  <2> QED
    BY <1>1, <2>2, <2>3, <2>4, <2>5, OnlyTwoStepsWrite
<1>2. IInv /\ [StartupNext]_startupVars => [file.state # None => file'.state # None /\ file'.state >= file.state]_startupVars
  BY <1>1
<1> QED
  BY <1>2, StartupInvariant, PTL DEF StartupSpec, CheckpointSurvives

=============================================================================
