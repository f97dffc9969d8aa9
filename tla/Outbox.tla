------------------------------- MODULE Outbox -------------------------------
(***************************************************************************)
(* The durable notification outbox: the repos and outbox tables of         *)
(* src/src/db.rs with every transaction that touches a notification, and   *)
(* the dispatcher task of src/src/engine.rs that claims, delivers and      *)
(* settles one row at a time.                                              *)
(*                                                                         *)
(* Every transaction is IMMEDIATE on one connection behind a mutex, so a   *)
(* transaction is one action.  Claim, delivery and settlement are three    *)
(* separate steps of the dispatcher, and any transaction of the scan cycle *)
(* or of the user interface, the passing of time and a crash may fall      *)
(* between them.                                                           *)
(*                                                                         *)
(* Clocks: the code compares lease_until and next_attempt_at with the wall *)
(* clock; the model keeps the time that is left until each of them, which  *)
(* Tick counts down.  lease = 0 is lease_until <= now, wait = 0 is         *)
(* next_attempt_at <= now.                                                 *)
(***************************************************************************)
EXTENDS Integers

CONSTANTS
    Repos,          \* repository ids
    Channels,       \* the channels the configuration enables
    Filtered,       \* <<repo, channel>> pairs that toast_priority_only filters out
    MAX_ATTEMPTS,   \* claims a row may have (12)
    LEASE,          \* time a claim is held (600 s)
    BASE_DELAY,     \* first retry delay (5 s)
    MAX_DELAY,      \* longest retry delay (3600 s)
    PASS_BUDGET,    \* claims in one dispatcher pass (50)
    MaxRev,         \* bound: metadata revisions of a repository
    MaxCrashes,     \* bound: process crashes and restarts
    MaxRetries      \* bound: uses of "retry failed notifications"

ASSUME OutboxAssumption ==
    /\ Filtered \subseteq Repos \X Channels
    /\ MAX_ATTEMPTS \in Nat \ {0} /\ LEASE \in Nat \ {0} /\ PASS_BUDGET \in Nat \ {0}
    /\ BASE_DELAY \in Nat \ {0} /\ MAX_DELAY \in Nat \ {0}
    /\ MaxRev \in Nat /\ MaxCrashes \in Nat /\ MaxRetries \in Nat

VARIABLES
    repos,      \* the repos table, the columns notifications depend on
    outbox,     \* the outbox table, one row per event key, "absent" if not inserted
    pass,       \* iterations left in the running dispatch_pending, 0 between passes
    job,        \* the row the dispatcher has claimed and not settled, volatile
    sent,       \* history: how often the outside world received a message
    crashes, retries

vars == <<repos, outbox, pass, job, sent, crashes, retries>>

-----------------------------------------------------------------------------
\* event_key = repo:{id}:{event}:{channel}; event 0 is "new", event n is "change:n".
Events == 0..MaxRev
Key == Repos \X Events \X Channels
RepoOf(k) == k[1]
EventOf(k) == k[2]
IsFiltered(k) == <<k[1], k[3]>> \in Filtered

Status == {"absent", "pending", "processing", "delivered", "failed", "cancelled"}
Row == [status: Status, attempts: 0..MAX_ATTEMPTS, lease: 0..LEASE, wait: 0..MAX_DELAY]
Absent == [status |-> "absent", attempts |-> 0, lease |-> 0, wait |-> 0]
Fresh == [Absent EXCEPT !.status = "pending"]

\* The rows every cancelling UPDATE selects.
Live == {"pending", "processing", "failed"}

RepoRow == [stored: BOOLEAN, private: BOOLEAN, ignored: BOOLEAN, accepted: BOOLEAN,
            announced: BOOLEAN, watched: BOOLEAN, rev: Events]
Unknown == [stored |-> FALSE, private |-> FALSE, ignored |-> FALSE, accepted |-> FALSE,
            announced |-> FALSE, watched |-> FALSE, rev |-> 0]

NoJob == [step |-> "none"]
Job == [step: {"claimed", "ok", "err"}, key: Key, attempt: 1..MAX_ATTEMPTS]

\* private=0 AND review_state<>'ignored' AND decision='accepted'
Eligible(repo) == ~repo.private /\ ~repo.ignored /\ repo.accepted

Least(a, b) == IF a <= b THEN a ELSE b

\* min(5*2^min(attempts-1,10), 3600), plus a jitter of at most a quarter of it.
Delay(attempts) == Least(BASE_DELAY * 2^Least(attempts - 1, 10), MAX_DELAY)
Backoff(attempts) ==
    {d \in 1..MAX_DELAY : \E jitter \in 0..(Delay(attempts) \div 4) :
                              d = Least(Delay(attempts) + jitter, MAX_DELAY)}

\* Mutants: a withdrawal that also takes delivered rows, and one that spares the claimed.
CancelRow_Delivered(row) ==
    IF row.status \in Live \cup {"delivered"}
    THEN [row EXCEPT !.status = "cancelled", !.lease = 0] ELSE row
CancelRow_SpareClaimed(row) ==
    IF row.status \in Live \ {"processing"}
    THEN [row EXCEPT !.status = "cancelled", !.lease = 0] ELSE row

CancelRow(row) ==
    IF row.status \in Live THEN [row EXCEPT !.status = "cancelled", !.lease = 0] ELSE row

\* Mutant: a withdrawal that forgets the rows already given up.
Withdraw_Unfailed(R) ==
    [k \in Key |-> IF RepoOf(k) \in R /\ outbox[k].status # "failed"
                   THEN CancelRow(outbox[k]) ELSE outbox[k]]

\* UPDATE outbox SET status='cancelled' WHERE repo_id IN R AND status IN Live
Withdraw(R) ==
    [k \in Key |-> IF RepoOf(k) \in R THEN CancelRow(outbox[k]) ELSE outbox[k]]

-----------------------------------------------------------------------------
(***************************************************************************)
(* Transactions of the scan cycle and of the user.                         *)
(***************************************************************************)

\* What one observation of a batch says: the filter's decision, and whether the
\* merged metadata differ from the stored ones.
Observation == [accepted: BOOLEAN, changed: BOOLEAN]

\* Mutant: the row is stored without remembering that it was announced.
Observed_Unannounced(repo, obs) ==
    [repo EXCEPT !.stored = TRUE, !.accepted = obs.accepted,
                 !.rev = IF obs.changed THEN @ + 1 ELSE @]

Observed(repo, obs) ==
    [repo EXCEPT !.stored = TRUE,
                 !.accepted = obs.accepted,
                 !.announced = @ \/ (obs.accepted /\ ~repo.ignored),
                 !.rev = IF obs.changed THEN @ + 1 ELSE @]

\* The events one observation enqueues, given the row before it.
Announces(repo, obs) ==
    IF ~obs.accepted \/ repo.ignored THEN {}
    ELSE IF ~repo.announced THEN {0}
    ELSE IF obs.changed /\ repo.watched THEN {repo.rev + 1}
    ELSE {}

\* ON CONFLICT(event_key) DO NOTHING
Insert(row) == IF row.status = "absent" THEN Fresh ELSE row

\* Database::ingest: the whole batch commits or none of it.  Reading a stored row
\* that is private fails safe_repo, and with it the batch.
Ingest(batch) ==
    \E obs \in [batch -> Observation] :
        /\ \A r \in batch :
            /\ ~repos[r].private
            /\ obs[r].changed => repos[r].stored /\ repos[r].rev < MaxRev
        /\ repos' = [r \in Repos |->
                        IF r \in batch THEN Observed(repos[r], obs[r]) ELSE repos[r]]
        /\ outbox' = [k \in Key |->
                        IF RepoOf(k) \notin batch THEN outbox[k]
                        ELSE LET repo == repos[RepoOf(k)]
                                 o == obs[RepoOf(k)]
                             IN IF ~o.accepted \/ repo.ignored THEN CancelRow(outbox[k])
                                ELSE IF EventOf(k) \in Announces(repo, o) THEN Insert(outbox[k])
                                ELSE outbox[k]]
        /\ UNCHANGED <<pass, job, sent, crashes, retries>>

\* set_review_state: all states but "ignored" behave alike here.
SetReview(r, ignored) ==
    /\ repos[r].stored /\ ~repos[r].private
    /\ repos[r].ignored # ignored
    /\ repos' = [repos EXCEPT ![r].ignored = ignored]
    /\ outbox' = IF ignored THEN Withdraw({r}) ELSE outbox
    /\ UNCHANGED <<pass, job, sent, crashes, retries>>

SetWatched(r, watched) ==
    /\ repos[r].stored /\ ~repos[r].private
    /\ repos[r].watched # watched
    /\ repos' = [repos EXCEPT ![r].watched = watched]
    /\ UNCHANGED <<outbox, pass, job, sent, crashes, retries>>

\* quarantine_repository: the repository turned out to be private or gone.
Quarantine(r) ==
    /\ repos[r].stored
    /\ repos' = [repos EXCEPT ![r].private = TRUE]
    /\ outbox' = Withdraw({r})
    /\ UNCHANGED <<pass, job, sent, crashes, retries>>

\* re_evaluate: a changed filter is applied to every public repository; nothing is
\* announced, and what is accepted now counts as announced.
ReEvaluate(accepts) ==
    LET seen == {r \in Repos : repos[r].stored /\ ~repos[r].private}
    IN /\ seen # {}
       /\ repos' = [r \in Repos |->
                      IF r \in seen
                      THEN [repos[r] EXCEPT !.accepted = r \in accepts,
                                            !.announced = @ \/ r \in accepts]
                      ELSE repos[r]]
       /\ outbox' = Withdraw(seen \ accepts)
       /\ UNCHANGED <<pass, job, sent, crashes, retries>>

\* Mutant: a retry that also resets the rows being delivered.
RetryFailed_Processing ==
    LET again == {k \in Key : /\ outbox[k].status \in {"failed", "processing"}
                              /\ Eligible(repos[RepoOf(k)])}
    IN /\ again # {}
       /\ retries < MaxRetries
       /\ retries' = retries + 1
       /\ outbox' = [k \in Key |-> IF k \in again THEN Fresh ELSE outbox[k]]
       /\ UNCHANGED <<repos, pass, job, sent, crashes>>

\* retry_failed_notifications
RetryFailed ==
    LET again == {k \in Key : outbox[k].status = "failed" /\ Eligible(repos[RepoOf(k)])}
    IN /\ again # {}
       /\ retries < MaxRetries
       /\ retries' = retries + 1
       /\ outbox' = [k \in Key |-> IF k \in again THEN Fresh ELSE outbox[k]]
       /\ UNCHANGED <<repos, pass, job, sent, crashes>>

-----------------------------------------------------------------------------
(***************************************************************************)
(* The dispatcher: dispatch_pending, one job in hand at a time.            *)
(***************************************************************************)

\* The loop of start_dispatcher wakes up, or a one-shot command runs one pass.
StartPass ==
    /\ pass = 0 /\ job = NoJob
    /\ pass' = PASS_BUDGET
    /\ UNCHANGED <<repos, outbox, job, sent, crashes, retries>>

\* Mutant: rows whose last claim ran out are left in processing.
SweepRow_Never(row) == row

\* claim_outbox first gives up the rows whose last permitted claim ran out.
SweepRow(row) ==
    IF row.status = "processing" /\ row.lease = 0 /\ row.attempts >= MAX_ATTEMPTS
    THEN [row EXCEPT !.status = "failed"] ELSE row


Due(row) ==
    /\ row.attempts < MAX_ATTEMPTS
    /\ \/ row.status = "pending" /\ row.wait = 0
       \/ row.status = "processing" /\ row.lease = 0

\* Mutant: the attempt is counted when it settles, not when it is claimed.
ClaimRow_Uncounted(row) == [row EXCEPT !.status = "processing", !.lease = LEASE]

ClaimRow(row) == [row EXCEPT !.status = "processing", !.attempts = @ + 1, !.lease = LEASE]

Claimable == {k \in Key : Due(outbox[k]) /\ Eligible(repos[RepoOf(k)])}

\* claim_outbox(1) finds a row.  ORDER BY id is abstracted to any due row.
Claim(k) ==
    /\ pass > 0 /\ job = NoJob
    /\ k \in Claimable
    /\ outbox' = [q \in Key |-> IF q = k THEN ClaimRow(outbox[q]) ELSE SweepRow(outbox[q])]
    /\ job' = [step |-> "claimed", key |-> k, attempt |-> outbox[k].attempts + 1]
    /\ pass' = pass - 1
    /\ UNCHANGED <<repos, sent, crashes, retries>>

\* claim_outbox(1) finds nothing due: the pass ends.
ClaimNothing ==
    /\ pass > 0 /\ job = NoJob
    /\ Claimable = {}
    /\ outbox' = [q \in Key |-> SweepRow(outbox[q])]
    /\ pass' = 0
    /\ UNCHANGED <<repos, job, sent, crashes, retries>>

\* 30 seconds are over after at least one delivery.
BudgetSpent ==
    /\ pass \in 1..(PASS_BUDGET - 1) /\ job = NoJob
    /\ pass' = 0
    /\ UNCHANGED <<repos, outbox, job, sent, crashes, retries>>

\* The channel is asked to deliver; a failure may be reported although the message
\* arrived, and a filtered message reports success although nothing was sent.
Deliver ==
    /\ job # NoJob /\ job.step = "claimed"
    /\ \E ok, received \in BOOLEAN :
        /\ IF IsFiltered(job.key) THEN ok /\ ~received ELSE ok => received
        /\ job' = [job EXCEPT !.step = IF ok THEN "ok" ELSE "err"]
        /\ sent' = IF received THEN [sent EXCEPT ![job.key] = @ + 1] ELSE sent
    /\ UNCHANGED <<repos, outbox, pass, crashes, retries>>

\* finish_outbox finds the row still claimed: status='processing' AND lease_until>now.
Held(row) == row.status = "processing" /\ row.lease > 0


FinishOk ==
    /\ job # NoJob /\ job.step = "ok"
    /\ Held(outbox[job.key])
    /\ outbox' = [outbox EXCEPT ![job.key].status = "delivered", ![job.key].lease = 0]
    /\ job' = NoJob
    /\ UNCHANGED <<repos, pass, sent, crashes, retries>>


FinishErr ==
    /\ job # NoJob /\ job.step = "err"
    /\ Held(outbox[job.key])
    /\ \E delay \in Backoff(outbox[job.key].attempts) :
        outbox' = [outbox EXCEPT
            ![job.key].status = IF outbox[job.key].attempts >= MAX_ATTEMPTS
                                THEN "failed" ELSE "pending",
            ![job.key].wait = delay,
            ![job.key].lease = 0]
    /\ job' = NoJob
    /\ UNCHANGED <<repos, pass, sent, crashes, retries>>

\* The row was cancelled or the lease ran out: QueryReturnedNoRows leaves the outbox
\* alone and aborts the pass.
FinishRejected ==
    /\ job # NoJob /\ job.step \in {"ok", "err"}
    /\ ~Held(outbox[job.key])
    /\ job' = NoJob
    /\ pass' = 0
    /\ UNCHANGED <<repos, outbox, sent, crashes, retries>>

-----------------------------------------------------------------------------
\* The process dies and is started again: the tables survive, the job does not.
Crash ==
    /\ crashes < MaxCrashes
    /\ crashes' = crashes + 1
    /\ pass' = 0 /\ job' = NoJob
    /\ UNCHANGED <<repos, outbox, sent, retries>>

CountDown(n) == IF n > 0 THEN n - 1 ELSE 0

Tick ==
    /\ \E k \in Key : outbox[k].lease > 0 \/ outbox[k].wait > 0
    /\ outbox' = [k \in Key |-> [outbox[k] EXCEPT !.lease = CountDown(@),
                                                  !.wait = CountDown(@)]]
    /\ UNCHANGED <<repos, pass, job, sent, crashes, retries>>

Init ==
    /\ repos = [r \in Repos |-> Unknown]
    /\ outbox = [k \in Key |-> Absent]
    /\ pass = 0
    /\ job = NoJob
    /\ sent = [k \in Key |-> 0]
    /\ crashes = 0 /\ retries = 0

Transactions ==
    \/ \E batch \in SUBSET Repos \ {{}} : Ingest(batch)
    \/ \E r \in Repos, b \in BOOLEAN : SetReview(r, b) \/ SetWatched(r, b)
    \/ \E r \in Repos : Quarantine(r)
    \/ \E accepts \in SUBSET Repos : ReEvaluate(accepts)
    \/ RetryFailed

Dispatcher ==
    \/ StartPass
    \/ \E k \in Key : Claim(k)
    \/ ClaimNothing \/ BudgetSpent
    \/ Deliver
    \/ FinishOk \/ FinishErr \/ FinishRejected

Next == Transactions \/ Dispatcher \/ Crash \/ Tick

Spec == Init /\ [][Next]_vars

\* The dispatcher task and time never stop for good; nobody is obliged to scan, to
\* click or to crash.
FairSpec == Spec /\ WF_vars(Dispatcher) /\ WF_vars(Tick)

-----------------------------------------------------------------------------
TypeOK ==
    /\ repos \in [Repos -> RepoRow]
    /\ outbox \in [Key -> Row]
    /\ pass \in 0..PASS_BUDGET
    /\ job \in Job \cup {NoJob}
    /\ sent \in [Key -> Nat]
    /\ crashes \in 0..MaxCrashes /\ retries \in 0..MaxRetries

\* A row that may still be delivered or retried belongs to a repository that is public,
\* accepted and not ignored: every transaction that closes a repository withdraws its
\* rows in the same commit, and none is inserted for a closed one.
LiveRowsEligible ==
    \A k \in Key : outbox[k].status \in Live => Eligible(repos[RepoOf(k)])

\* The rows of a repository are about its past: "new" only once it is announced and
\* "change:n" only up to the current revision.  So the event a transaction is about to
\* enqueue has no row yet and ON CONFLICT DO NOTHING never swallows a notification.
RowsAreHistory ==
    \A k \in Key : outbox[k].status # "absent" =>
        /\ repos[RepoOf(k)].stored
        /\ EventOf(k) <= repos[RepoOf(k)].rev
        /\ EventOf(k) = 0 => repos[RepoOf(k)].announced

\* While the dispatcher holds a job, whatever the other transactions do and however long
\* the channel takes, the row is still the claim it made or it was cancelled: settling
\* needs no claim token because nobody else claims it.
HeldRowIsMine ==
    job # NoJob => /\ outbox[job.key].status \in {"processing", "cancelled"}
                   /\ outbox[job.key].attempts = job.attempt

\* A notification recorded as delivered has reached the channel, unless the channel
\* filters it: a crash or an expired lease never turns an unsent row into a delivered one.
DeliveredWasReceived ==
    \A k \in Key : outbox[k].status = "delivered" /\ ~IsFiltered(k) => sent[k] > 0

\* A notification is given up only after all its attempts.
FailedIsExhausted ==
    \A k \in Key : outbox[k].status = "failed" => outbox[k].attempts = MAX_ATTEMPTS

\* At-least-once delivery is bounded: a claim is persisted before the send, so crashes
\* and lost leases cannot make the number of messages exceed the attempts paid for,
\* MAX_ATTEMPTS for each use of "retry failed" and the current ones.
Unsent(k) == IF job # NoJob /\ job.step = "claimed" /\ job.key = k THEN 1 ELSE 0
SendsAreBounded ==
    \A k \in Key : sent[k] + Unsent(k) <= outbox[k].attempts + MAX_ATTEMPTS * retries

\* Nothing is sent for a notification recorded as delivered, and nothing more than the
\* message in flight after it is cancelled: both are final.
SettledStaysSettled ==
    [][\A k \in Key :
        /\ outbox[k].status \in {"delivered", "cancelled"} => outbox'[k].status = outbox[k].status
        /\ outbox[k].status = "delivered" => sent'[k] = sent[k]
        /\ outbox[k].status = "cancelled" => sent'[k] <= sent[k] + Unsent(k)]_vars

\* Every queued notification is eventually delivered, given up or cancelled, whatever
\* happens between the dispatcher's steps.
EverythingSettles ==
    \A k \in Key : outbox[k].status \in {"pending", "processing"} ~>
                   outbox[k].status \in {"delivered", "failed", "cancelled"}
-----------------------------------------------------------------------------
\* The outbox implements the ledger: claims, leases, backoff and crashes are invisible.
PhaseOf(row) ==
    CASE row.status = "absent" -> "none"
      [] row.status \in {"pending", "processing"} -> "queued"
      [] OTHER -> row.status

L == INSTANCE Ledger WITH
        open <- [r \in Repos |-> Eligible(repos[r])],
        phase <- [k \in Key |-> PhaseOf(outbox[k])],
        reached <- [k \in Key |-> sent[k] > 0]

\* Every commit publishes an event to all channels or to none, closing a repository
\* withdraws its messages in the same step, and a message is delivered at most once.
ImplementsLedger == L!LedgerSpec
=============================================================================
