------------------------------- MODULE Client -------------------------------
(***************************************************************************)
(* The GitHub client: the token pool of src/src/tokens.rs, shared by all   *)
(* requests, and GithubCrawler::request of src/src/crawler.rs, which takes *)
(* a permit, asks the pool for headers (and may sleep there with the       *)
(* permit in its hand), sends, and tells the pool what the answer said.    *)
(*                                                                         *)
(* Instants are kept as the time that is left until them.  A bucket whose  *)
(* reset has come is the same as no bucket: every reader of the code tests *)
(* reset against now.  GitHub is external: a quota per credential and      *)
(* resource, a window that starts with the first request, and answers that *)
(* may arrive in any order and after the window they describe.             *)
(*                                                                         *)
(* Pool and permits are written for any number of tasks, and so is this    *)
(* module.  The program has one, the engine, which awaits one request      *)
(* after the other: it is the instance with a single caller.               *)
(***************************************************************************)
EXTENDS Integers, Sequences, FiniteSets, FiniteSetsExt

CONSTANTS
    Callers,        \* tasks that use the client
    Permits,        \* max_concurrent_requests, clamped to 1..32
    Credentials,    \* the configured tokens, in their order
    Malformed,      \* what TokenPool::new makes of an entry that is no token
    Anonymous,      \* the single entry of a pool without tokens
    Resources,      \* rate-limit resources
    Quota,          \* requests of a credential in one window
    Window,         \* length of a window
    Default,        \* delay when an answer names none (60 seconds)
    MaxRequests,    \* bound: requests
    MaxFaults       \* bound: revoked tokens, abuse limits, unusable headers, lost answers

ASSUME ClientAssumption ==
    /\ IsFiniteSet(Callers) /\ Permits \in Nat \ {0}
    /\ Credentials \in Seq({Credentials[i] : i \in DOMAIN Credentials})
    /\ Malformed # Anonymous /\ Resources # {}
    /\ Quota \in Nat \ {0} /\ Window \in Nat \ {0} /\ Default \in Nat \ {0}
    /\ MaxRequests \in Nat /\ MaxFaults \in Nat

VARIABLES
    valid,      \* indices that are not PoolState.invalid
    turn,       \* PoolState.next
    bucket,     \* PoolState.buckets
    secondary,  \* PoolState.secondary_until
    unusable,   \* PoolState.invalid_rate_limit
    caller,     \* the request each caller is in
    site,       \* GitHub: quota left and time left of each window
    revoked,    \* GitHub: credentials it does not accept any more
    rejected,   \* history: credentials whose rejection was observed
    asked, faults

pool == <<valid, turn, bucket, secondary, unusable>>
github == <<site, revoked>>
vars == <<pool, caller, github, rejected, asked, faults>>
-----------------------------------------------------------------------------
\* TokenPool::new: a pool without tokens has one entry, which sends no Authorization.
Slots == IF Credentials = <<>> THEN <<Anonymous>> ELSE Credentials
Usable == {i \in DOMAIN Slots : Slots[i] # Malformed}
Keys == {Slots[i] : i \in Usable}

Absent == -1    \* a header that is not there
NoBucket == [remaining |-> 0, reset |-> 0]
Longest == Max({Window, Default})
Bucket == [remaining: 0..Quota, reset: 0..Longest]

\* What an answer says: how the status is treated, the resource it is about, the limit
\* headers, and Retry-After.  "refused" is 403 with nothing remaining, "abuse" any other
\* 403 or 429, "unusable" an answer whose limit headers cannot be read or represented.
Statuses == {"ok", "unauthorized", "refused", "abuse", "unusable"}
Answer == [status: Statuses, about: Resources, remaining: Absent..Quota,
           reset: Absent..Window, retry: {Absent, 1}]
NoAnswer(r) == [status |-> "ok", about |-> r, remaining |-> Absent,
                reset |-> Absent, retry |-> Absent]

\* A caller is idle, waits for a permit, is in get_headers (asleep while wake > 0), has
\* sent its request, has the answer, or reads the body.  slot is the entry it was given.
Stages == {"idle", "queued", "ready", "sent", "answered", "body"}
Idle(r) == [pc |-> "idle", resource |-> r, wake |-> 0, slot |-> 0, answer |-> NoAnswer(r)]
Holding == {c \in Callers : caller[c].pc \in {"ready", "sent", "answered", "body"}}

TypeOK ==
    /\ valid \subseteq Usable /\ turn \in DOMAIN Slots
    /\ bucket \in [Resources -> Bucket]
    /\ secondary \in 0..Longest /\ unusable \in BOOLEAN
    /\ caller \in [Callers -> [pc: Stages, resource: Resources, wake: 0..Longest,
                               slot: 0..Len(Slots), answer: Answer]]
    /\ \A c \in Callers : caller[c].pc \in {"sent", "answered", "body"} => caller[c].slot \in Usable
    /\ site \in [Keys -> [Resources -> [left: 0..Quota, window: 0..Window,
                                       refused: Nat, lost: Nat]]]
    /\ revoked \subseteq Keys /\ rejected \subseteq revoked
    /\ asked \in 0..MaxRequests /\ faults \in 0..MaxFaults

Fresh == [left |-> Quota, window |-> 0, refused |-> 0, lost |-> 0]
Init ==
    /\ valid = Usable /\ turn = 1
    /\ bucket = [r \in Resources |-> NoBucket]
    /\ secondary = 0 /\ unusable = FALSE
    /\ caller = [c \in Callers |-> Idle(CHOOSE r \in Resources : TRUE)]
    /\ site = [k \in Keys |-> [r \in Resources |-> Fresh]]
    /\ revoked = {} /\ rejected = {}
    /\ asked = 0 /\ faults = 0

-----------------------------------------------------------------------------
\* pool_wait: the time until the pool may be used for a resource.
\* Mutant: an exhausted bucket is not waited for.
PoolWait_Secondary(r) == secondary
PoolWait(r) == Max({secondary, IF bucket[r].remaining = 0 THEN bucket[r].reset ELSE 0})

\* Engine::available and the start of request: a source asks only for a resource it need
\* not wait for, then queues for a permit.
Ask(c, r) ==
    /\ caller[c].pc = "idle" /\ asked < MaxRequests
    /\ PoolWait(r) = 0
    /\ caller' = [caller EXCEPT ![c] = [Idle(r) EXCEPT !.pc = "queued"]]
    /\ asked' = asked + 1
    /\ UNCHANGED <<pool, github, rejected, faults>>

Acquire(c) ==
    /\ caller[c].pc = "queued"
    /\ Cardinality(Holding) < Permits
    /\ caller' = [caller EXCEPT ![c].pc = "ready"]
    /\ UNCHANGED <<pool, github, rejected, asked, faults>>

\* The first entry from turn on that is not invalid.
NextSlot ==
    LET distance(i) == (i - turn + Len(Slots)) % Len(Slots)
    IN CHOOSE i \in valid : \A j \in valid : distance(i) <= distance(j)

\* get_headers, awake: refuse, sleep with the permit, or reserve.
\* Mutant: unusable limits are waited for.
Refuse_Waits(c) ==
    /\ caller[c].pc = "ready" /\ caller[c].wake = 0
    /\ valid = {}
    /\ caller' = [caller EXCEPT ![c] = Idle(@.resource)]
    /\ UNCHANGED <<pool, github, rejected, asked, faults>>
Refuse(c) ==
    /\ caller[c].pc = "ready" /\ caller[c].wake = 0
    /\ valid = {} \/ unusable
    /\ caller' = [caller EXCEPT ![c] = Idle(@.resource)]
    /\ UNCHANGED <<pool, github, rejected, asked, faults>>

Sleep(c) ==
    /\ caller[c].pc = "ready" /\ caller[c].wake = 0
    /\ valid # {} /\ ~unusable
    /\ PoolWait(caller[c].resource) > 0
    /\ caller' = [caller EXCEPT ![c].wake = PoolWait(caller[c].resource)]
    /\ UNCHANGED <<pool, github, rejected, asked, faults>>

Reserve(c) ==
    /\ caller[c].pc = "ready" /\ caller[c].wake = 0
    /\ valid # {} /\ ~unusable
    /\ PoolWait(caller[c].resource) = 0
    /\ bucket' = [bucket EXCEPT ![caller[c].resource].remaining = Max({0, @ - 1})]
    /\ turn' = (NextSlot % Len(Slots)) + 1
    /\ caller' = [caller EXCEPT ![c].pc = "sent", ![c].slot = NextSlot]
    /\ UNCHANGED <<valid, secondary, unusable, github, rejected, asked, faults>>

-----------------------------------------------------------------------------
\* GitHub (external).  A request is charged when it arrives.
Charge(k, r) == LET w == site[k][r]
    IN [w EXCEPT !.left = Max({0, @ - 1}), !.window = IF @ = 0 THEN Window ELSE @,
                 !.refused = IF w.left = 0 THEN @ + 1 ELSE @]

Serve(c) ==
    LET r == caller[c].resource
        k == Slots[caller[c].slot]
        after == Charge(k, r)
        answer(s) == [NoAnswer(r) EXCEPT !.status = s, !.remaining = after.left,
                                         !.reset = after.window]
    IN /\ caller[c].pc = "sent"
       /\ IF k \in revoked
          THEN /\ caller' = [caller EXCEPT ![c].pc = "answered",
                                ![c].answer = [NoAnswer(r) EXCEPT !.status = "unauthorized"]]
               /\ UNCHANGED <<site, faults>>
          ELSE \/ /\ caller' = [caller EXCEPT ![c].pc = "answered", ![c].answer =
                            answer(IF site[k][r].left = 0 THEN "refused" ELSE "ok")]
                  /\ site' = [site EXCEPT ![k][r] = after]
                  /\ UNCHANGED faults
               \/ /\ faults < MaxFaults /\ faults' = faults + 1
                  /\ \E s \in {"abuse", "unusable"}, retry \in {Absent, 1} :
                        caller' = [caller EXCEPT ![c].pc = "answered", ![c].answer =
                                    [NoAnswer(r) EXCEPT !.status = s, !.retry = retry]]
                  /\ UNCHANGED site
       /\ UNCHANGED <<pool, revoked, rejected, asked>>

Revoke(k) ==
    /\ k \notin revoked /\ faults < MaxFaults
    /\ revoked' = revoked \cup {k} /\ faults' = faults + 1
    /\ UNCHANGED <<pool, caller, site, rejected, asked>>

\* observe_response.  The reset of a late answer lies in the past: at least one second.
Learned(b, a) ==
    LET reset == IF a.reset = Absent THEN Default ELSE Max({1, a.reset})
    IN IF b.reset = 0
       THEN [remaining |-> a.remaining, reset |-> reset]
       ELSE [remaining |-> Min({b.remaining, a.remaining}), reset |-> Max({b.reset, reset})]

Disabled(k) == {i \in valid : Slots[i] = k}

\* Mutant: a shorter pause replaces a longer one.
Pause_Newest(a) == IF a.retry # Absent THEN a.retry
                   ELSE IF a.status = "abuse" THEN Default ELSE secondary
Pause(a) ==
    Max({secondary, IF a.retry # Absent THEN a.retry
                    ELSE IF a.status = "abuse" THEN Default ELSE 0})

Observe(c) ==
    LET a == caller[c].answer
        k == Slots[caller[c].slot]
        refused == IF a.status = "unauthorized" THEN {k} ELSE {}
    IN /\ caller[c].pc = "answered"
       /\ valid' = valid \ UNION {Disabled(q) : q \in refused}
       /\ rejected' = rejected \cup refused
       /\ IF a.status = "unusable"
          THEN unusable' = TRUE /\ UNCHANGED <<bucket, secondary>>
          ELSE /\ bucket' = IF a.remaining = Absent THEN bucket
                            ELSE [bucket EXCEPT ![a.about] = Learned(@, a)]
               /\ secondary' = Pause(a)
               /\ UNCHANGED unusable
       /\ caller' = [caller EXCEPT ![c].pc = "body", ![c].answer = NoAnswer(a.about)]
       /\ UNCHANGED <<turn, github, asked, faults>>

\* The status is turned into a result or the body is read; the permit goes back.
Finish(c) ==
    /\ caller[c].pc = "body"
    /\ caller' = [caller EXCEPT ![c] = Idle(@.resource)]
    /\ UNCHANGED <<pool, github, rejected, asked, faults>>

\* The request times out, its connection breaks, or the cycle that owns it is dropped.
\* What the pool reserved stays spent; an answer that was under way is never seen.
Abandon(c) ==
    LET r == caller[c].resource
        k == Slots[caller[c].slot]
    IN /\ caller[c].pc # "idle" /\ faults < MaxFaults
       /\ faults' = faults + 1
       /\ caller' = [caller EXCEPT ![c] = Idle(r)]
       /\ site' = IF caller[c].pc = "answered" THEN [site EXCEPT ![k][r].lost = @ + 1] ELSE site
       /\ UNCHANGED <<pool, revoked, rejected, asked>>

\* Time passes.  A window that ends gives its quota back.
Less(t) == IF t > 0 THEN t - 1 ELSE t
Tick ==
    /\ bucket' = [r \in Resources |-> IF bucket[r].reset <= 1 THEN NoBucket
                                      ELSE [bucket[r] EXCEPT !.reset = @ - 1]]
    /\ secondary' = Less(secondary)
    /\ caller' = [c \in Callers |-> [caller[c] EXCEPT !.wake = Less(@),
                                                     !.answer.reset = Less(@)]]
    /\ site' = [k \in Keys |-> [r \in Resources |->
                  IF site[k][r].window <= 1 THEN Fresh
                  ELSE [site[k][r] EXCEPT !.window = @ - 1]]]
    /\ UNCHANGED <<valid, turn, unusable, revoked, rejected, asked, faults>>

Next ==
    \/ \E c \in Callers :
          \/ \E r \in Resources : Ask(c, r)
          \/ Acquire(c) \/ Refuse(c) \/ Sleep(c) \/ Reserve(c)
          \/ Serve(c) \/ Observe(c) \/ Finish(c) \/ Abandon(c)
    \/ \E k \in Keys : Revoke(k)
    \/ Tick

Spec == Init /\ [][Next]_vars

\* Every request is driven by its task, GitHub answers within the client's timeout, time
\* passes.
Fairness ==
    /\ \A c \in Callers :
         /\ WF_vars(Acquire(c)) /\ WF_vars(Refuse(c)) /\ WF_vars(Sleep(c))
         /\ WF_vars(Reserve(c)) /\ WF_vars(Serve(c)) /\ WF_vars(Observe(c))
         /\ WF_vars(Finish(c))
    /\ WF_vars(Tick)
FairSpec == Spec /\ Fairness

-----------------------------------------------------------------------------
\* Out-of-order answers and the rotation of tokens never replenish a live bucket: while
\* its window lasts, what remains only shrinks and its reset only comes nearer with time
\* (tokens.rs 189-195).
BucketIsNeverReplenished ==
    [][\A r \in Resources : bucket[r].reset > 0 =>
          \/ /\ bucket'[r].remaining <= bucket[r].remaining
             /\ bucket'[r].reset >= bucket[r].reset
          \/ Tick]_vars

\* In one window GitHub refuses a credential at most once for each other request that can
\* be under way, and once for each answer that never reached the pool: the answer that
\* reports the last of the quota spent stops all callers until the window ends, whatever
\* answers of this or an earlier window come in after it.
RefusalsAreBounded ==
    TypeOK /\ \A k \in Keys : \A r \in Resources :
        site[k][r].refused <= Permits - 1 + site[k][r].lost

\* While a secondary limit runs no caller sends, not even one that was asleep when it was
\* announced, and nothing but time shortens it (tokens.rs 92-97, 197-207).
\* And a credential GitHub rejected is never sent again, from any entry of the pool it
\* stands in (tokens.rs 152-160).
SendsAreAllowed ==
    [][/\ secondary > 0 => secondary' >= secondary \/ Tick
       /\ \A c \in Callers : caller[c].pc # "sent" /\ caller'[c].pc = "sent"
              => secondary = 0 /\ Slots[caller'[c].slot] \notin rejected]_vars

\* Every request ends, with an answer or an error: no permit is held for ever by a caller
\* that sleeps or waits for another one.
RequestsEnd == \A c \in Callers : caller[c].pc # "idle" ~> caller[c].pc = "idle"

=============================================================================
