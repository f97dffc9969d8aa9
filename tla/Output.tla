------------------------------- MODULE Output -------------------------------
(***************************************************************************)
(* The log and jsonl channels: dispatch_pending hands a claimed row to     *)
(* write_event_output (src/src/engine.rs) on a blocking thread, which      *)
(* writes a temporary file, syncs it, publishes it by a hard link and      *)
(* removes the temporary name.  A window that is closed lets the next      *)
(* process start while its own writer still runs, and neither the end of a *)
(* process nor a loss of power removes what was left behind.               *)
(*                                                                         *)
(* A file is what its inode holds: "part" has not all bytes, "written" has *)
(* them unsynced, "synced" is the event's content on disk, "foreign" is    *)
(* content that is not this event's.  Leases and backoff are the subject   *)
(* of Outbox: here a held row whose holder is gone may be claimed at once. *)
(***************************************************************************)
EXTENDS Integers, FiniteSets

CONSTANTS
    Events,         \* rows of the two channels, each with a path of its own
    MAX_ATTEMPTS,
    Pids,           \* process ids the system gives out, again and again
    None,
    MaxErrors,      \* bound: failing calls to the file system
    MaxExits,       \* bound: ends of a process
    MaxPower,       \* bound: losses of power among them
    MaxRetries      \* bound: --retry-notifications that find a failed row

ASSUME OutputAssumption ==
    /\ None \notin Events
    /\ MAX_ATTEMPTS \in Nat \ {0}
    /\ IsFiniteSet(Pids) /\ Cardinality(Pids) > 1
    /\ MaxErrors \in Nat /\ MaxExits \in Nat /\ MaxPower \in Nat /\ MaxRetries \in Nat

Attempts == 1..MAX_ATTEMPTS

VARIABLES
    row,        \* outbox row of an event: status and attempts
    writer,     \* the output worker of each process
    file,       \* what the published path of an event holds
    temp,       \* temporary files by event, process id and attempt
    proc,       \* the process that holds the instance lock
    errors, exits, power, retries

disk == <<file, temp>>
bounds == <<errors, exits, power, retries>>
vars == <<row, writer, disk, proc, bounds>>

NoWriter == [event |-> None, attempt |-> 0, pc |-> "none"]
Places == {"none", "start", "verify", "create", "write", "sync", "link",
           "remove_ok", "remove_error", "ok", "error"}
Alive(p) == writer[p].pc # "none"
\* The temporary name of an attempt is live while its writer has yet to remove it.
Owned == {<<writer[p].event, p, writer[p].attempt>> :
            p \in {q \in Pids : writer[q].pc \in {"write", "sync", "link", "remove_ok", "remove_error"}}}
Temporaries == {t \in Events \X Pids \X Attempts : temp[t[1]][t[2]][t[3]] # "none"}

TypeOK ==
    /\ row \in [Events -> [status: {"pending", "held", "delivered", "failed"},
                           attempts: 0..MAX_ATTEMPTS]]
    /\ writer \in [Pids -> [event: Events \cup {None}, attempt: 0..MAX_ATTEMPTS, pc: Places]]
    /\ file \in [Events -> {"none", "part", "written", "synced", "foreign"}]
    /\ temp \in [Events -> [Pids -> [Attempts -> {"none", "part", "written", "synced"}]]]
    /\ proc \in Pids
    /\ Alive(proc) => LET w == writer[proc]
                      IN w.event # None /\ row[w.event] = [status |-> "held", attempts |-> w.attempt]
    /\ errors \in 0..MaxErrors /\ exits \in 0..MaxExits
    /\ power \in 0..MaxPower /\ retries \in 0..MaxRetries

\* A path may already hold something else.
Init ==
    /\ row = [e \in Events |-> [status |-> "pending", attempts |-> 0]]
    /\ writer = [p \in Pids |-> NoWriter]
    /\ file \in [Events -> {"none", "foreign"}]
    /\ temp = [e \in Events |-> [p \in Pids |-> [k \in Attempts |-> "none"]]]
    /\ proc \in Pids
    /\ errors = 0 /\ exits = 0 /\ power = 0 /\ retries = 0

-----------------------------------------------------------------------------
\* The dispatcher.

\* claim_outbox(1), and the hand-over to a blocking thread.  The pass awaits the result.
Claim(e) ==
    /\ ~Alive(proc)
    /\ row[e].status \in {"pending", "held"} /\ row[e].attempts < MAX_ATTEMPTS
    /\ row' = [row EXCEPT ![e] = [status |-> "held", attempts |-> @.attempts + 1]]
    /\ writer' = [writer EXCEPT ![proc] = [event |-> e, attempt |-> row[e].attempts + 1,
                                           pc |-> "start"]]
    /\ UNCHANGED <<disk, proc, bounds>>

\* claim_outbox fails a row whose last attempt was never finished.
GiveUp(e) ==
    /\ ~Alive(proc)
    /\ row[e].status = "held" /\ row[e].attempts = MAX_ATTEMPTS
    /\ row' = [row EXCEPT ![e].status = "failed"]
    /\ UNCHANGED <<writer, disk, proc, bounds>>

\* finish_outbox.
Finish ==
    LET w == writer[proc]
    IN /\ w.pc \in {"ok", "error"}
       /\ row' = [row EXCEPT ![w.event].status =
                    IF w.pc = "ok" THEN "delivered"
                    ELSE IF w.attempt = MAX_ATTEMPTS THEN "failed" ELSE "pending"]
       /\ writer' = [writer EXCEPT ![proc] = NoWriter]
       /\ UNCHANGED <<disk, proc, bounds>>

\* retry_failed_notifications: the attempts start at one again.
Retry ==
    /\ retries < MaxRetries /\ \E e \in Events : row[e].status = "failed"
    /\ retries' = retries + 1
    /\ row' = [e \in Events |-> IF row[e].status = "failed"
                                THEN [status |-> "pending", attempts |-> 0] ELSE row[e]]
    /\ UNCHANGED <<writer, disk, proc, errors, exits, power>>

-----------------------------------------------------------------------------
\* write_event_output, one call to the file system at a time.
Go(p, pc) == writer' = [writer EXCEPT ![p].pc = pc]
Mine(p) == temp[writer[p].event][p][writer[p].attempt]
SetMine(p, c) == temp' = [temp EXCEPT ![writer[p].event][p][writer[p].attempt] = c]
Path(p) == file[writer[p].event]
Fault == errors < MaxErrors /\ errors' = errors + 1
NoFault == UNCHANGED errors
Rest == UNCHANGED <<row, proc, exits, power, retries>>

\* ensure_output_directory: a component that cannot be made or read, is a link or a file.
Unprepared(p) == Go(p, "error") /\ Fault

\* The directory, and path.exists(), which takes an error for an absent path.
Start(p) ==
    /\ writer[p].pc = "start"
    /\ \/ Go(p, IF Path(p) = "none" THEN "create" ELSE "verify") /\ NoFault
       \/ Unprepared(p)
       \/ Go(p, "create") /\ Fault
    /\ UNCHANGED disk /\ Rest

\* verify_output before anything was written: the same length and the same bytes.
Verify(p) ==
    /\ writer[p].pc = "verify"
    /\ \/ Go(p, IF Path(p) \in {"written", "synced"} THEN "ok" ELSE "error") /\ NoFault
       \/ Go(p, "error") /\ Fault
    /\ UNCHANGED disk /\ Rest

\* create_new: a name that an earlier process of the same id left behind is an error, and
\* stays.
\* Mutant: a name that is taken is tried until it is free.
Create_Again(p) ==
    /\ writer[p].pc = "create"
    /\ \/ Mine(p) = "none" /\ SetMine(p, "part") /\ Go(p, "write") /\ NoFault
       \/ UNCHANGED temp /\ Go(p, "error") /\ Fault
    /\ UNCHANGED file /\ Rest
Create(p) ==
    /\ writer[p].pc = "create"
    /\ \/ Mine(p) = "none" /\ SetMine(p, "part") /\ Go(p, "write") /\ NoFault
       \/ Mine(p) # "none" /\ UNCHANGED temp /\ Go(p, "error") /\ NoFault
       \/ UNCHANGED temp /\ Go(p, "error") /\ Fault
    /\ UNCHANGED file /\ Rest

Write(p) ==
    /\ writer[p].pc = "write"
    /\ \/ SetMine(p, "written") /\ Go(p, "sync") /\ NoFault
       \/ UNCHANGED temp /\ Go(p, "remove_error") /\ Fault
    /\ UNCHANGED file /\ Rest

\* Mutant: the file is published before its content is on disk.
Sync_Skipped(p) ==
    /\ writer[p].pc = "sync"
    /\ Go(p, "link") /\ NoFault
    /\ UNCHANGED disk /\ Rest
Sync(p) ==
    /\ writer[p].pc = "sync"
    /\ \/ SetMine(p, "synced") /\ Go(p, "link") /\ NoFault
       \/ UNCHANGED temp /\ Go(p, "remove_error") /\ Fault
    /\ UNCHANGED file /\ Rest

\* hard_link publishes only at a free name.  At a name taken meanwhile the content decides.
\* Mutant: a rename, which replaces what is there.
Link_Rename(p) ==
    /\ writer[p].pc = "link"
    /\ \/ file' = [file EXCEPT ![writer[p].event] = Mine(p)] /\ Go(p, "remove_ok") /\ NoFault
       \/ UNCHANGED file /\ Go(p, "remove_error") /\ Fault
    /\ UNCHANGED temp /\ Rest
Link(p) ==
    /\ writer[p].pc = "link"
    /\ \/ /\ Path(p) = "none"
          /\ file' = [file EXCEPT ![writer[p].event] = Mine(p)]
          /\ Go(p, "remove_ok") /\ NoFault
       \/ /\ Path(p) # "none" /\ UNCHANGED file
          /\ Go(p, IF Path(p) \in {"written", "synced"} THEN "remove_ok" ELSE "remove_error")
          /\ NoFault
       \/ UNCHANGED file /\ Go(p, "remove_error") /\ Fault
    /\ UNCHANGED temp /\ Rest

\* The temporary name goes whatever happened; that it cannot be removed is ignored.
\* Mutant: only a failed attempt removes it.
Remove_Failed(p) ==
    /\ writer[p].pc \in {"remove_ok", "remove_error"}
    /\ \/ writer[p].pc = "remove_ok" /\ UNCHANGED temp /\ NoFault
       \/ writer[p].pc = "remove_error" /\ SetMine(p, "none") /\ NoFault
       \/ UNCHANGED temp /\ Fault
    /\ Go(p, IF writer[p].pc = "remove_ok" THEN "ok" ELSE "error")
    /\ UNCHANGED file /\ Rest
Remove(p) ==
    /\ writer[p].pc \in {"remove_ok", "remove_error"}
    /\ \/ SetMine(p, "none") /\ NoFault
       \/ UNCHANGED temp /\ Fault
    /\ Go(p, IF writer[p].pc = "remove_ok" THEN "ok" ELSE "error")
    /\ UNCHANGED file /\ Rest

-----------------------------------------------------------------------------
\* The environment.

\* The lock is released and another process takes it.  At the end of a window the worker
\* was detached and runs until its process is gone; otherwise it ends with the process.
Exit ==
    /\ exits < MaxExits /\ exits' = exits + 1
    /\ \E p \in Pids, detached \in BOOLEAN :
         /\ ~Alive(p) \/ (p = proc /\ ~detached)
         /\ proc' = p
         /\ writer' = IF detached THEN writer ELSE [writer EXCEPT ![proc] = NoWriter]
    /\ UNCHANGED <<row, disk, errors, power, retries>>

Die(p) ==
    /\ p # proc /\ Alive(p)
    /\ writer' = [writer EXCEPT ![p] = NoWriter]
    /\ UNCHANGED <<row, disk, proc, bounds>>

\* Bytes that were not synced may be gone, and so may a name: no directory is synced.
After(c) == CASE c = "written" -> {"none", "part", "written"}
              [] c = "foreign" -> {c}
              [] OTHER -> {"none", c}
PowerLoss ==
    /\ exits < MaxExits /\ power < MaxPower
    /\ exits' = exits + 1 /\ power' = power + 1
    /\ writer' = [p \in Pids |-> NoWriter]
    /\ proc' \in Pids
    /\ \E f \in [Events -> UNION {After(file[e]) : e \in Events}] :
         (\A e \in Events : f[e] \in After(file[e])) /\ file' = f
    /\ \E lost \in SUBSET Temporaries :
         temp' = [e \in Events |-> [p \in Pids |-> [k \in Attempts |->
                    IF <<e, p, k>> \in lost THEN "none"
                    ELSE IF temp[e][p][k] = "written" THEN "part" ELSE temp[e][p][k]]]]
    /\ UNCHANGED <<row, errors, retries>>

\* Something else takes the name: the same event of another database in the directory.
Occupy(e) ==
    /\ file[e] = "none" /\ Fault
    /\ file' = [file EXCEPT ![e] = "foreign"]
    /\ UNCHANGED <<writer, temp>> /\ Rest

Step(p) ==
    \/ Start(p) \/ Verify(p) \/ Create(p) \/ Write(p)
    \/ Sync(p) \/ Link(p) \/ Remove(p)

Next ==
    \/ \E e \in Events : Claim(e) \/ GiveUp(e) \/ Occupy(e)
    \/ \E p \in Pids : Start(p) \/ Verify(p) \/ Create(p) \/ Write(p)
                       \/ Sync(p) \/ Link(p) \/ Remove(p) \/ Die(p)
    \/ Finish \/ Retry \/ Exit \/ PowerLoss

Spec == Init /\ [][Next]_vars

\* The dispatcher makes its passes, and a call to the file system returns.
Fairness ==
    /\ \A e \in Events : WF_vars(Claim(e)) /\ WF_vars(GiveUp(e))
    /\ \A p \in Pids : WF_vars(Step(p))
    /\ WF_vars(Finish)
FairSpec == Spec /\ Fairness

-----------------------------------------------------------------------------
\* What stands at an event's path is its whole content, on disk, or something that was
\* never ours, after every crash and loss of power (engine.rs 773-786).
\* A row is delivered only for its own content: a path another content occupies is never
\* taken for it, whether it was there at first or came between the test and the link.
\* A loss of power after that may take the name of a delivered event away again.
PublishedIsWhole ==
    /\ \A e \in Events : file[e] \in {"none", "synced", "foreign"}
    /\ \A e \in Events : row[e].status = "delivered" => power > 0 \/ file[e] = "synced"
    /\ writer[proc].pc = "ok" => file[writer[proc].event] = "synced"

\* No step of any writer, of this process or of one that is ending, replaces or removes
\* what is published: "A conflict fails rather than overwrites" (SECURITY.md 46).
NeverOverwritten ==
    [][\A e \in Events : file[e] # "none" => file'[e] = file[e] \/ power' # power]_vars

\* Temporary names do not pile up: apart from the attempt of a live writer, each is the
\* trace of one failed removal or of one end of a process.  And an attempt finds its name
\* taken only when the rows were retried, which starts their attempts again, at the name
\* of such a trace: attempts are durable and part of the temporary name, so otherwise the
\* name is always new (engine.rs 768-776).
LeftoversAreHarmless ==
    /\ TypeOK
    /\ Cardinality(Temporaries \ Owned) <= errors + exits
    /\ \A p \in Pids : writer[p].pc = "create" /\ Mine(p) # "none" =>
          retries > 0 /\ errors + exits > 0

\* Every row is settled in the end, whatever is left behind at its names: a collision
\* costs an attempt and the next one has another name.
RowsAreSettled == \A e \in Events : <>[](row[e].status \in {"delivered", "failed"})

=============================================================================
