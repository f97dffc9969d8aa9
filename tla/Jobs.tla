-------------------------------- MODULE Jobs --------------------------------
(***************************************************************************)
(* The blocking work behind one dispatcher (dispatch_pending in            *)
(* src/src/engine.rs, src/src/notifier.rs): the name lookup before a       *)
(* request to a web channel and the process that shows a toast, both       *)
(* admitted by a semaphore whose permit the blocking closure owns          *)
(* (admitted_blocking), and the worker of an output file.  All closures    *)
(* run on the few blocking threads of the runtime and go on when the       *)
(* future that awaits them is dropped.                                     *)
(*                                                                         *)
(* A lookup may never return.  Instants are kept as the time left until    *)
(* them.  What a file worker does is the subject of Output, leases and     *)
(* backoff are that of Outbox.                                             *)
(***************************************************************************)
EXTENDS Integers, FiniteSets

CONSTANTS
    Files, Toasts, Webs,    \* rows by kind of channel
    Permits,                \* permits of the semaphore of each kind: TOAST_JOBS and DNS_JOBS
    Threads,                \* max_blocking_threads of the runtime
    MAX_ATTEMPTS,
    Timeout,                \* timeout_seconds, clamped to 1..120
    None,
    MaxClaims,              \* bound: claims of each row
    MaxAborts               \* bound: the end of the engine, by a shutdown

ASSUME JobsAssumption ==
    /\ Files \cap Toasts = {} /\ Files \cap Webs = {} /\ Toasts \cap Webs = {}
    /\ None \notin Files \cup Toasts \cup Webs
    /\ Permits \in [{"toast", "web"} -> Nat \ {0}]
    /\ Threads \in Nat \ {0} /\ MAX_ATTEMPTS \in Nat \ {0} /\ Timeout \in Nat \ {0}
    /\ MaxClaims \in [Files \cup Toasts \cup Webs -> 0..MAX_ATTEMPTS]
    /\ MaxAborts \in 0..1

Messages == Files \cup Toasts \cup Webs
Attempts == 1..MAX_ATTEMPTS
Kind(m) == CASE m \in Files -> "file" [] m \in Toasts -> "toast" [] m \in Webs -> "web"

VARIABLES
    row,        \* outbox row: status and attempts
    caller,     \* the delivery the dispatcher awaits: message, place and time left
    job,        \* the blocking closure of each attempt, while it lives or is awaited
    effect,     \* history: the attempts whose toast was shown, request arrived or file is written
    aborts

jobsVars == <<row, caller, job, effect, aborts>>

NoJob == [pc |-> "none", left |-> 0, cancelled |-> FALSE, child |-> "none"]
Idle == [msg |-> None, pc |-> "idle", left |-> 0]
Current == row[caller.msg].attempts

\* A closure is queued for a thread, runs on one (a toast checks before and polls its
\* child, "show"), and ends.
Attempted == Messages \X Attempts
Running == {a \in Attempted : job[a[1]][a[2]].pc \in {"running", "show"}}
Live(kind) == {a \in Attempted : /\ Kind(a[1]) = kind
                                 /\ job[a[1]][a[2]].pc \in {"queued", "running", "show"}}
HungLookups == {a \in Running : a[1] \in Webs}

JobsTypeOK ==
    /\ row \in [Messages -> [status: {"pending", "held", "delivered", "failed"},
                             attempts: 0..MAX_ATTEMPTS]]
    /\ caller \in [msg: Messages \cup {None}, left: 0..Timeout,
                   pc: {"idle", "admission", "running", "post", "sent", "ok", "error"}]
    /\ IF caller.msg = None THEN caller = Idle ELSE row[caller.msg].status = "held"
    /\ job \in [Messages -> [Attempts ->
                 [pc: {"none", "queued", "running", "show", "ok", "error"}, left: 0..Timeout,
                  cancelled: BOOLEAN, child: {"none", "running", "shown", "failed"}]]]
    /\ effect \in [Messages -> SUBSET Attempts]
    /\ aborts \in 0..MaxAborts

JobsInit ==
    /\ row = [m \in Messages |-> [status |-> "pending", attempts |-> 0]]
    /\ caller = Idle
    /\ job = [m \in Messages |-> [k \in Attempts |-> NoJob]]
    /\ effect = [m \in Messages |-> {}] /\ aborts = 0

-----------------------------------------------------------------------------
\* The dispatcher claims a row and starts its delivery: a file goes straight to a thread, a
\* toast and a host name ask for admission, a host that is an address needs no lookup.
Claim(m) ==
    LET k == row[m].attempts + 1
    IN /\ caller = Idle /\ aborts = 0
       /\ row[m].status = "pending" /\ row[m].attempts < MaxClaims[m]
       /\ row' = [row EXCEPT ![m] = [status |-> "held", attempts |-> k]]
       /\ \/ /\ m \in Files
             /\ caller' = [msg |-> m, pc |-> "running", left |-> 0]
             /\ job' = [job EXCEPT ![m][k].pc = "queued"]
          \/ /\ m \notin Files
             /\ caller' = [msg |-> m, pc |-> "admission", left |-> Timeout]
             /\ UNCHANGED job
          \/ /\ m \in Webs
             /\ caller' = [msg |-> m, pc |-> "post", left |-> Timeout]
             /\ UNCHANGED job
       /\ UNCHANGED <<effect, aborts>>

\* admitted_blocking: a permit, then a closure that takes the permit with it.
\* Mutant: the permit is the future's and is free when the future gives up.
Admit_Future ==
    LET m == caller.msg
    IN /\ caller.pc = "admission" /\ caller.left > 0
       /\ job' = [job EXCEPT ![m][Current].pc = "queued", ![m][Current].left = caller.left]
       /\ caller' = [caller EXCEPT !.pc = "running"]
       /\ UNCHANGED <<row, effect, aborts>>
Admit ==
    LET m == caller.msg
    IN /\ caller.pc = "admission" /\ caller.left > 0
       /\ Cardinality(Live(Kind(m))) < Permits[Kind(m)]
       /\ job' = [job EXCEPT ![m][Current].pc = "queued", ![m][Current].left = caller.left]
       /\ caller' = [caller EXCEPT !.pc = "running"]
       /\ UNCHANGED <<row, effect, aborts>>

\* The future lets go of its closure; the guard of a toast tells the closure so.
Dropped(m) ==
    LET j == job[m][Current]
    IN [job EXCEPT ![m][Current] = IF j.pc \in {"none", "ok", "error"} THEN NoJob
                                   ELSE [j EXCEPT !.cancelled = m \in Toasts]]

\* The result of the closure, when it comes before the deadline; a lookup is followed by
\* the request, with a client whose timeout starts again.
Result ==
    LET m == caller.msg
        done == job[m][Current].pc
    IN /\ caller.pc = "running" /\ done \in {"ok", "error"}
       /\ m \in Files \/ caller.left > 0
       /\ caller' = IF m \in Webs /\ done = "ok"
                    THEN [caller EXCEPT !.pc = "post", !.left = Timeout]
                    ELSE [caller EXCEPT !.pc = done]
       /\ job' = Dropped(m)
       /\ UNCHANGED <<row, effect, aborts>>

\* timeout_at, and the timeout of the client.
\* Mutant: only the admission is timed, a closure is awaited.
Expire_Admission ==
    /\ caller.pc \in {"admission", "post", "sent"} /\ caller.left = 0
    /\ caller.msg \notin Files
    /\ caller' = [caller EXCEPT !.pc = "error"]
    /\ job' = IF caller.pc = "admission" THEN Dropped(caller.msg) ELSE job
    /\ UNCHANGED <<row, effect, aborts>>
Expire ==
    /\ caller.pc \in {"admission", "running", "post", "sent"} /\ caller.left = 0
    /\ caller.msg \notin Files
    /\ caller' = [caller EXCEPT !.pc = "error"]
    /\ job' = Dropped(caller.msg)
    /\ UNCHANGED <<row, effect, aborts>>

\* A row is one repository, so send_discord, send_telegram and send_custom make one request
\* each.  It arrives or is lost; its answer is a success, anything else, or lost.
Post ==
    /\ caller.pc = "post" /\ caller.left > 0
    /\ \/ effect' = [effect EXCEPT ![caller.msg] = @ \cup {Current}]
       \/ UNCHANGED effect
    /\ caller' = [caller EXCEPT !.pc = "sent"]
    /\ UNCHANGED <<row, job, aborts>>

Answer ==
    /\ caller.pc = "sent" /\ caller.left > 0
    /\ \/ caller' = [caller EXCEPT !.pc = "error"]
       \/ /\ Current \in effect[caller.msg]
          /\ caller' = [caller EXCEPT !.pc = "ok"]
    /\ UNCHANGED <<row, job, effect, aborts>>

\* finish_outbox.
Finish ==
    /\ caller.pc \in {"ok", "error"}
    /\ row' = [row EXCEPT ![caller.msg].status =
                 IF caller.pc = "ok" THEN "delivered"
                 ELSE IF Current = MAX_ATTEMPTS THEN "failed" ELSE "pending"]
    /\ caller' = Idle
    /\ UNCHANGED <<job, effect, aborts>>

\* The engine is dropped and aborts its dispatcher, wherever that is.
Abort ==
    /\ aborts < MaxAborts /\ aborts' = aborts + 1
    /\ caller' = Idle
    /\ job' = IF caller.msg = None THEN job ELSE Dropped(caller.msg)
    /\ row' = IF caller.msg = None THEN row ELSE [row EXCEPT ![caller.msg].status = "pending"]
    /\ UNCHANGED effect

-----------------------------------------------------------------------------
\* The closures.
Others == UNCHANGED <<row, caller, aborts>>

\* A closure ends and frees its thread and its permit.  Its result is kept for its caller.
Ended(m, k, result) ==
    LET awaited == caller.msg = m /\ caller.pc = "running" /\ Current = k
    IN [job EXCEPT ![m][k] = IF awaited THEN [NoJob EXCEPT !.pc = result] ELSE NoJob]

\* A free thread takes a closure.  One that is late for its deadline does nothing.
Start(m, k) ==
    /\ job[m][k].pc = "queued" /\ Cardinality(Running) < Threads
    /\ job' = IF m \notin Files /\ job[m][k].left = 0 THEN Ended(m, k, "error")
              ELSE [job EXCEPT ![m][k].pc = "running"]
    /\ UNCHANGED effect /\ Others

\* to_socket_addrs and write_event_output return.
Return(m, k) ==
    /\ m \notin Toasts /\ job[m][k].pc = "running"
    /\ \/ /\ job' = Ended(m, k, "ok")
          /\ effect' = IF m \in Files THEN [effect EXCEPT ![m] = @ \cup {k}] ELSE effect
       \/ job' = Ended(m, k, "error") /\ UNCHANGED effect
    /\ Others

\* check_toast, before the child is started.  The child may fail to start.
MayGoOn(m, k) == ~job[m][k].cancelled /\ job[m][k].left > 0
Check(m, k) ==
    /\ m \in Toasts /\ job[m][k].pc = "running"
    /\ \/ MayGoOn(m, k) /\ job' = [job EXCEPT ![m][k].pc = "show", ![m][k].child = "running"]
       \/ job' = Ended(m, k, "error")
    /\ UNCHANGED effect /\ Others

\* The child (external): shows the toast and exits, fails, or hangs.
Child(m, k) ==
    /\ job[m][k].child = "running"
    /\ \/ /\ job' = [job EXCEPT ![m][k].child = "shown"]
          /\ effect' = [effect EXCEPT ![m] = @ \cup {k}]
       \/ job' = [job EXCEPT ![m][k].child = "failed"] /\ UNCHANGED effect
    /\ Others

\* One round of the poll loop: first the check, which kills the child, then its exit
\* status, then, after a success, the check once more.
\* Mutant: any exit is a success.
Poll_AnyExit(m, k) ==
    LET j == job[m][k]
    IN /\ j.pc = "show" /\ (j.child # "running" \/ ~MayGoOn(m, k))
       /\ job' = Ended(m, k, IF MayGoOn(m, k) THEN "ok" ELSE "error")
       /\ UNCHANGED effect /\ Others
\* Mutant: the loop looks at the exit status only.
Poll_Unchecked(m, k) ==
    LET j == job[m][k]
    IN /\ j.pc = "show" /\ j.child # "running"
       /\ job' = Ended(m, k, IF j.child = "shown" THEN "ok" ELSE "error")
       /\ UNCHANGED effect /\ Others
Poll(m, k) ==
    LET j == job[m][k]
    IN /\ j.pc = "show" /\ (j.child # "running" \/ ~MayGoOn(m, k))
       /\ job' = Ended(m, k, IF j.child = "shown" /\ MayGoOn(m, k) THEN "ok" ELSE "error")
       /\ UNCHANGED effect /\ Others

\* Time passes.
Less(t) == IF t > 0 THEN t - 1 ELSE 0
Tick ==
    /\ caller' = [caller EXCEPT !.left = Less(@)]
    /\ job' = [m \in Messages |-> [k \in Attempts |-> [job[m][k] EXCEPT !.left = Less(@)]]]
    /\ UNCHANGED <<row, effect, aborts>>

JobsNext ==
    \/ \E m \in Messages :
          \/ Claim(m)
          \/ \E k \in Attempts : Start(m, k) \/ Return(m, k) \/ Check(m, k)
                                 \/ Child(m, k) \/ Poll(m, k)
    \/ Admit \/ Result \/ Expire \/ Post \/ Answer \/ Finish \/ Abort \/ Tick

JobsSpec == JobsInit /\ [][JobsNext]_jobsVars

\* The dispatcher and its timers run, a free thread takes work, a toast closure polls, a
\* file is written in the end.  Nothing makes a lookup, a child or a request end.
Fairness ==
    /\ \A m \in Messages : WF_jobsVars(Claim(m))
    /\ WF_jobsVars(Admit) /\ WF_jobsVars(Result) /\ WF_jobsVars(Expire)
    /\ WF_jobsVars(Finish) /\ WF_jobsVars(Tick)
    /\ \A m \in Messages, k \in Attempts :
         /\ WF_jobsVars(Start(m, k)) /\ WF_jobsVars(Check(m, k)) /\ WF_jobsVars(Poll(m, k))
         /\ WF_jobsVars(m \in Files /\ Return(m, k))
JobsFairSpec == JobsSpec /\ Fairness

-----------------------------------------------------------------------------
\* However many deliveries gave up on theirs, no more closures of a kind are under way than
\* its semaphore admits: a live worker keeps its permit ("A timed-out/cancelled caller must
\* not release admission for a live worker", notifier.rs 87).
WorkersAreAdmitted ==
    JobsTypeOK /\ \A kind \in {"toast", "web"} : Cardinality(Live(kind)) <= Permits[kind]

\* A row is delivered only when the attempt that was awaited took effect.
DeliveredTookEffect ==
    \A m \in Messages : row[m].status = "delivered" => row[m].attempts \in effect[m]

\* A delivery to a toast or web channel returns by its deadline, though every lookup and
\* every child hangs and no permit ever comes back: a stuck channel costs the pass time only.
\* Unless lookups that hang hold every blocking thread, a file is delivered, whose worker is
\* awaited without a deadline, and a toast closure gets to the point where it gives its
\* permit back.
DeliveriesReturn ==
    /\ \A m \in Toasts \cup Webs : caller.msg = m ~> caller.msg # m
    /\ []<>(Cardinality(HungLookups) < Threads) =>
          /\ \A m \in Files : (caller.msg = m ~> caller.msg # m)
          /\ \A m \in Toasts, k \in Attempts : (job[m][k].pc = "queued" ~> job[m][k].pc # "queued")

\* The process of a toast nobody waits for any more is killed, on a timeout and on a
\* shutdown, and its closure gives thread and permit back (notifier.rs 647-666).
AbandonedToastsEnd ==
    \A m \in Toasts : \A k \in Attempts :
        job[m][k].pc \in {"running", "show"} /\ ~MayGoOn(m, k)
            ~> job[m][k].pc \in {"none", "error"}

=============================================================================
