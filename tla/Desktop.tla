------------------------------ MODULE Desktop -------------------------------
(***************************************************************************)
(* The desktop window of src/src/gui.rs and its three workers: sql_worker, *)
(* scan_worker and audit_worker, each with a bounded queue of commands and *)
(* a bounded queue of events.  The window draws one frame after the other  *)
(* (update): it receives the events that have come, of one worker after    *)
(* the other, hands over the requests it kept for a queue with room, and   *)
(* handles at most one click.  The workers go on between these steps, so a *)
(* frame also receives what comes while it receives; its bounds on events  *)
(* (32, 8, 4), which are at least what the queues hold, are left out.      *)
(*                                                                         *)
(* The database is a version, which every change of stored repositories    *)
(* or reports moves on, the watch flag of one repository, and the reports  *)
(* of the analyses, named by the number of their analysis.  The workspace  *)
(* is one that lists repositories.  The refresh every 20 seconds and the   *)
(* debounce of a query are left out: they only add requests or delay them. *)
(***************************************************************************)
EXTENDS Integers, Sequences, FiniteSets

CONSTANTS
    Commands,       \* room of the sql and the scan command queue (audit: 1)
    Events,         \* room of each event queue
    Monitored,      \* monitoring.enabled
    Watch,          \* monitoring.watch_per_cycle
    None,
    Users,          \* bound: each user presses buttons of one of these sets
    MaxClicks,      \* bound: clicks in the window
    MaxCycles,      \* bound: discovery cycles
    MaxErrors       \* bound: failures of the database

ASSUME DesktopAssumption ==
    /\ Commands \in Nat \ {0} /\ Events \in Nat \ {0}
    /\ Monitored \in BOOLEAN /\ Watch \in Nat
    /\ UNION Users \subseteq {"search", "open", "shut", "watch", "re-evaluate", "scan", "pause",
                             "analyze", "cancel", "retry"}
    /\ MaxClicks \in Nat /\ MaxCycles \in Nat /\ MaxErrors \in Nat

VARIABLES
    w,          \* RepoWatcherApp: what the window shows and waits for
    turn,       \* where its frame is: the worker whose events it receives, or "draw"
    out,        \* command queues: sql, scan, audit
    in,         \* event queues: sql, scan, audit
    latest,     \* latest_query, shared with the sql worker
    cancels,    \* the audit_cancel channel: value and the value the worker has seen
    stop,       \* the shutdown flag and channel
    sql, scan, audit,   \* the workers
    db,         \* version, watched, reports
    user, clicks, cycles, errors

channels == <<out, in, latest, cancels, stop>>
vars == <<w, turn, channels, sql, scan, audit, db, user, clicks, cycles, errors>>

Audits == 1..MaxClicks
Data == [version: Nat, watched: BOOLEAN]
Seen == [version |-> db.version, watched |-> db.watched]

\* Commands and events, in the order of the code; unused fields are left out.
Query(g) == [type |-> "Query", gen |-> g]
Snapshot == [type |-> "Snapshot"]
Changes(g) == [type |-> "Changes", gen |-> g]
Mutate(v) == [type |-> "Mutate", watched |-> v]
ReEvaluate == [type |-> "ReEvaluate"]
SaveReport(n) == [type |-> "SaveReport", report |-> n]
Paused(v) == [type |-> "Paused", value |-> v]
Event(t) == [type |-> t]
NoEvent == Event("none")

NoQueues == [sql |-> <<>>, scan |-> <<>>, audit |-> <<>>]
NoSave == [report |-> 0, state |-> "none"]
SavePending(save) == save.state \in {"Queued", "Saving"}
Blank == [generation |-> 0, pending |-> FALSE, loading |-> FALSE, rows |-> None,
          snapshot_requested |-> TRUE, snapshot_loading |-> FALSE, snapshot |-> None,
          snapshot_error |-> FALSE,
          selected |-> None, detail |-> 0, changes |-> 0, changes_loading |-> FALSE,
          busy |-> FALSE, ready |-> FALSE, scanning |-> FALSE, pause_pending |-> FALSE,
          monitoring |-> Monitored, audits |-> 0, auditing |-> FALSE, save |-> NoSave,
          cancelled |-> {}, asked |-> {}]

\* request_query, refresh:
RequestQuery(u) == [u EXCEPT !.generation = @ + 1, !.pending = TRUE, !.loading = TRUE,
                             !.rows = None]
Refresh(u) == RequestQuery([u EXCEPT !.snapshot_requested = TRUE])

Window ==
    [generation: Nat, pending: BOOLEAN, loading: BOOLEAN,
     rows: {None} \cup [gen: Nat, data: Data],
     snapshot_requested: BOOLEAN, snapshot_loading: BOOLEAN,
     snapshot: {None} \cup [version: Nat, reports: SUBSET Audits], snapshot_error: BOOLEAN,
     selected: {None} \cup BOOLEAN, detail: 0..MaxClicks, changes: 0..MaxClicks,
     changes_loading: BOOLEAN, busy: BOOLEAN, ready: BOOLEAN, scanning: BOOLEAN,
     pause_pending: BOOLEAN, monitoring: BOOLEAN, audits: 0..MaxClicks, auditing: BOOLEAN,
     save: [report: 0..MaxClicks, state: {"none", "Queued", "Saving", "Saved", "Failed"}],
     cancelled: SUBSET Audits, asked: SUBSET Audits]

TypeOK ==
    /\ w \in Window
    /\ turn \in {"sql", "scan", "audit", "draw"}
    /\ Len(out.sql) <= Commands /\ Len(out.scan) <= Commands /\ Len(out.audit) <= 1
    /\ \A x \in DOMAIN in : Len(in[x]) <= Events
    /\ ~stop => latest = w.generation
    /\ latest \in Nat
    /\ cancels.seen <= cancels.value /\ cancels.value <= MaxClicks
    /\ stop \in BOOLEAN
    /\ sql.pc \in {"idle", "busy", "deliver", "gone"}
    /\ scan.pc \in {"new", "wait", "cycle", "deliver", "gone"} /\ scan.paused \in BOOLEAN
    /\ scan.commits \in 0..Watch
    /\ audit.pc \in {"idle", "busy", "deliver", "gone"}
    /\ db \in [version: Nat, watched: BOOLEAN, reports: SUBSET Audits]
    /\ user \in Users /\ clicks \in 0..MaxClicks /\ cycles \in 0..MaxCycles /\ errors \in 0..MaxErrors

\* The window before any worker did anything, with the list of repositories opened.
Init ==
    /\ w = RequestQuery(Blank) /\ turn = "sql"
    /\ out = NoQueues /\ in = NoQueues
    /\ latest = 1 /\ cancels = [value |-> 0, seen |-> 0] /\ stop = FALSE
    /\ sql = [pc |-> "idle", command |-> NoEvent, event |-> NoEvent, next |-> "idle"]
    /\ scan = [pc |-> "new", paused |-> ~Monitored, commits |-> 0, event |-> NoEvent,
               next |-> "wait"]
    /\ audit = [pc |-> "idle", number |-> 0, event |-> NoEvent, next |-> "idle"]
    /\ db = [version |-> 0, watched |-> FALSE, reports |-> {}]
    /\ user \in Users /\ clicks = 0 /\ cycles = 0 /\ errors = 0

-----------------------------------------------------------------------------
\* receive_results, for one event of each worker.
OnSql(u, e) ==
    CASE e.type = "Repositories" ->
            IF e.gen # u.generation THEN u
            ELSE [u EXCEPT !.loading = FALSE, !.rows = e.rows,
                           !.selected = IF @ = None \/ e.rows = None THEN @
                                        ELSE e.rows.data.watched]
      [] e.type = "Snapshot" ->
            [u EXCEPT !.snapshot_loading = FALSE, !.snapshot_error = e.data = None,
                      !.snapshot = IF e.data = None THEN @ ELSE e.data]
      [] e.type = "Changes" ->
            IF e.gen # u.detail \/ u.selected = None THEN u
            ELSE [u EXCEPT !.changes_loading = FALSE, !.changes = IF e.ok THEN e.gen ELSE @]
      [] e.type = "Mutated" ->
            IF e.ok THEN Refresh([u EXCEPT !.busy = FALSE,
                            !.selected = IF @ = None THEN None ELSE e.watched])
            ELSE [u EXCEPT !.busy = FALSE]
      [] e.type = "Completed" -> IF e.ok THEN Refresh([u EXCEPT !.busy = FALSE])
                                 ELSE [u EXCEPT !.busy = FALSE]
      [] e.type = "ReportSaved" ->
            IF u.save # [report |-> e.report, state |-> "Saving"] THEN u
            ELSE IF e.ok THEN Refresh([u EXCEPT !.save.state = "Saved"])
            ELSE [u EXCEPT !.save.state = "Failed"]

\* Mutant: a failed cycle is taken for one that stored nothing.
OnScan_Unchanged(u, e) ==
    CASE e.type = "Ready" -> [u EXCEPT !.ready = TRUE]
      [] e.type = "Started" -> [u EXCEPT !.scanning = TRUE]
      [] e.type = "Paused" -> [u EXCEPT !.pause_pending = FALSE, !.monitoring = ~e.value]
      [] e.type = "Finished" -> Refresh([u EXCEPT !.scanning = FALSE])
      [] e.type = "Error" -> [u EXCEPT !.scanning = FALSE]

OnScan(u, e) ==
    CASE e.type = "Ready" -> [u EXCEPT !.ready = TRUE]
      [] e.type = "Started" -> [u EXCEPT !.scanning = TRUE]
      [] e.type = "Paused" -> [u EXCEPT !.pause_pending = FALSE, !.monitoring = ~e.value]
      [] e.type \in {"Finished", "Error"} -> Refresh([u EXCEPT !.scanning = FALSE])

OnAudit(u, e) ==
    LET v == [u EXCEPT !.auditing = FALSE]
    IN CASE e.type = "Finished" -> [v EXCEPT !.save = [report |-> e.number, state |-> "Queued"]]
         [] e.type = "Cancelled" -> [v EXCEPT !.cancelled = @ \cup {e.number}]
         [] e.type = "Error" -> v

\* One event of worker x, whose effect on the window is after.
Receive(x, after) ==
    /\ turn = x /\ ~stop /\ in[x] # <<>>
    /\ in' = [in EXCEPT ![x] = Tail(@)]
    /\ w' = after /\ latest' = after.generation
    /\ UNCHANGED <<turn, out, cancels, stop, sql, scan, audit, db, clicks, cycles, errors, user>>
ReceiveSql == Receive("sql", OnSql(w, Head(in.sql)))
ReceiveScan == Receive("scan", OnScan(w, Head(in.scan)))
ReceiveAudit == Receive("audit", OnAudit(w, Head(in.audit)))

\* No other event is there.  A scan worker that is gone has closed its queue: what was asked
\* of it will not come.
SqlDrained ==
    /\ turn = "sql" /\ ~stop /\ in.sql = <<>>
    /\ turn' = "scan"
    /\ UNCHANGED <<w, channels, sql, scan, audit, db, clicks, cycles, errors, user>>
ScanDrained ==
    /\ turn = "scan" /\ ~stop /\ in.scan = <<>>
    /\ turn' = "audit"
    /\ w' = IF scan.pc # "gone" THEN w
            ELSE [w EXCEPT !.ready = FALSE, !.scanning = FALSE, !.pause_pending = FALSE]
    /\ UNCHANGED <<channels, sql, scan, audit, db, clicks, cycles, errors, user>>

\* flush_requests: the report, the query, the snapshot, each if the queue has room.
Room(s, n) == Len(s) < n
FlushSave(u, q) ==
    IF u.save.state = "Queued" /\ Room(q, Commands)
    THEN <<[u EXCEPT !.save.state = "Saving"], Append(q, SaveReport(u.save.report))>>
    ELSE <<u, q>>

\* Mutant: a query that finds no room is dropped.
FlushQuery_Drops(u, q) ==
    IF ~u.pending THEN <<u, q>>
    ELSE <<[u EXCEPT !.pending = FALSE],
           IF Room(q, Commands) THEN Append(q, Query(u.generation)) ELSE q>>
FlushQuery(u, q) ==
    IF u.pending /\ Room(q, Commands)
    THEN <<[u EXCEPT !.pending = FALSE], Append(q, Query(u.generation))>>
    ELSE <<u, q>>

\* Mutant: a request that comes while a snapshot is read is taken for answered by that one.
FlushSnapshot_Merges(u, q) ==
    IF ~u.snapshot_requested \/ ~Room(q, Commands) THEN <<u, q>>
    ELSE <<[u EXCEPT !.snapshot_requested = FALSE, !.snapshot_loading = TRUE],
           IF u.snapshot_loading THEN q ELSE Append(q, Snapshot)>>
FlushSnapshot(u, q) ==
    IF u.snapshot_requested /\ ~u.snapshot_loading /\ Room(q, Commands)
    THEN <<[u EXCEPT !.snapshot_requested = FALSE, !.snapshot_loading = TRUE],
           Append(q, Snapshot)>>
    ELSE <<u, q>>

\* When the last queue of events is drained the requests are handed over.
\* (A bound variable over a singleton is a value that is computed once.)
Flush ==
    /\ turn = "audit" /\ ~stop /\ in.audit = <<>>
    /\ turn' = "draw"
    /\ \E f1 \in {FlushSave(w, out.sql)} :
       \E f2 \in {FlushQuery(f1[1], f1[2])} :
       \E f3 \in {FlushSnapshot(f2[1], f2[2])} :
          w' = f3[1] /\ out' = [out EXCEPT !.sql = f3[2]]
    /\ UNCHANGED <<in, latest, cancels, stop, sql, scan, audit, db, clicks, cycles, errors, user>>

-----------------------------------------------------------------------------
\* The clicks: the window after it and what is sent, with nothing done when the button is
\* disabled or the queue full.  operation:
Operation(u, q, c) ==
    IF u.busy \/ ~Room(q.sql, Commands) THEN <<u, q>>
    ELSE <<[u EXCEPT !.busy = TRUE], [q EXCEPT !.sql = Append(@, c)]>>

OpenDetail(u, q) ==     \* a row of the list
    LET sent == Room(q.sql, Commands)
        v == [u EXCEPT !.detail = @ + 1, !.changes = 0, !.changes_loading = sent,
                       !.selected = u.rows.data.watched]
    IN <<v, IF sent THEN [q EXCEPT !.sql = Append(@, Changes(v.detail))] ELSE q>>

ScanNow(u, q) ==
    IF ~u.ready \/ u.scanning \/ ~u.monitoring \/ u.pause_pending \/ ~Room(q.scan, Commands)
    THEN <<u, q>>
    ELSE <<[u EXCEPT !.scanning = TRUE], [q EXCEPT !.scan = Append(@, Event("Scan"))]>>

PauseOrResume(u, q) ==
    IF ~u.ready \/ u.pause_pending \/ ~Room(q.scan, Commands) THEN <<u, q>>
    ELSE <<[u EXCEPT !.pause_pending = TRUE],
           [q EXCEPT !.scan = Append(@, Paused(u.monitoring))]>>

\* Mutant: a new analysis may begin before the last report is saved.
Analyze_Early(u, q) ==
    IF u.auditing \/ ~Room(q.audit, 1) THEN <<u, q>>
    ELSE <<[u EXCEPT !.auditing = TRUE, !.save = NoSave, !.audits = @ + 1],
           [q EXCEPT !.audit = Append(@, [number |-> u.audits + 1,
                                          cancel_generation |-> cancels.value])]>>
Analyze(u, q) ==
    IF u.auditing \/ SavePending(u.save) \/ ~Room(q.audit, 1) THEN <<u, q>>
    ELSE <<[u EXCEPT !.auditing = TRUE, !.save = NoSave, !.audits = @ + 1],
           [q EXCEPT !.audit = Append(@, [number |-> u.audits + 1,
                                          cancel_generation |-> cancels.value])]>>

Keep(u, q, c) ==    \* a click that changes the window only
    CASE c = "search" -> <<RequestQuery(u), q>>
      [] c = "shut" -> <<[u EXCEPT !.selected = None], q>>
      [] c = "retry" /\ u.save.state = "Failed" -> <<[u EXCEPT !.save.state = "Queued"], q>>
      [] OTHER -> <<u, q>>

Click(u, q, c) ==
    CASE c = "open" /\ u.rows # None -> OpenDetail(u, q)
      [] c = "watch" /\ u.selected # None -> Operation(u, q, Mutate(~u.selected))
      [] c = "re-evaluate" -> Operation(u, q, ReEvaluate)
      [] c = "scan" -> ScanNow(u, q)
      [] c = "pause" -> PauseOrResume(u, q)
      [] c = "analyze" -> Analyze(u, q)
      [] OTHER -> Keep(u, q, c)

\* The frame is drawn, with a click that does something or with none.
Draw ==
    /\ turn = "draw" /\ ~stop /\ turn' = "sql"
    /\ UNCHANGED <<w, channels, sql, scan, audit, db, clicks, cycles, errors, user>>
DrawClicked(c) ==
    /\ turn = "draw" /\ ~stop /\ turn' = "sql"
    /\ clicks < MaxClicks /\ clicks' = clicks + 1
    /\ \E done \in {Click(w, out, c)} :
          /\ done # <<w, out>>
          /\ w' = done[1] /\ out' = done[2] /\ latest' = done[1].generation
    /\ UNCHANGED <<in, cancels, stop, sql, scan, audit, db, cycles, errors, user>>
\* The cancel button, which sends the next value over its channel.
DrawCancelled ==
    /\ turn = "draw" /\ ~stop /\ turn' = "sql"
    /\ clicks < MaxClicks /\ clicks' = clicks + 1
    /\ w.auditing
    /\ w' = [w EXCEPT !.asked = @ \cup {w.audits}]
    /\ cancels' = [cancels EXCEPT !.value = @ + 1]
    /\ UNCHANGED <<in, out, latest, stop, sql, scan, audit, db, cycles, errors, user>>

\* The window is closed, at the beginning of a frame, and with it what it showed and its
\* ends of the queues.
Close ==
    /\ turn = "sql" /\ ~stop /\ stop' = TRUE
    /\ w' = Blank /\ out' = NoQueues
    /\ UNCHANGED <<turn, in, latest, cancels, sql, scan, audit, db, clicks, cycles, errors, user>>

-----------------------------------------------------------------------------
\* deliver: the event goes into its queue if there is room.  If not, the worker tries again,
\* unless the window is closed.  It is then at next.
Says(worker, e, next) == [worker EXCEPT !.pc = "deliver", !.event = e, !.next = next]
\* Mutant: only room ends the wait.
MayRetry_Room(x) == Len(in[x]) < Events
MayRetry(x) == stop \/ Len(in[x]) < Events
Deliver(x, worker) ==
    /\ worker.pc = "deliver" /\ MayRetry(x)
    /\ in' = IF stop THEN in ELSE [in EXCEPT ![x] = Append(@, worker.event)]
Delivered(worker) == [worker EXCEPT !.pc = IF stop THEN "gone" ELSE worker.next, !.event = NoEvent]

\* sql_worker.
SqlTake ==
    /\ sql.pc = "idle" /\ ~stop /\ out.sql # <<>>
    /\ out' = [out EXCEPT !.sql = Tail(@)]
    /\ LET c == Head(out.sql)
       IN sql' = IF c.type = "Query" /\ c.gen # latest THEN sql
                 ELSE [sql EXCEPT !.pc = "busy", !.command = c]
    /\ UNCHANGED <<w, turn, in, latest, cancels, stop, scan, audit, db, clicks, cycles, errors, user>>

\* The command runs, or the database fails.
SqlRun ==
    LET c == sql.command
        answer(e) == sql' = Says([sql EXCEPT !.command = NoEvent], e, "idle")
        fails == errors < MaxErrors /\ errors' = errors + 1 /\ UNCHANGED db
        works == UNCHANGED errors
    IN /\ sql.pc = "busy"
       /\ \/ /\ c.type = "Query" /\ c.gen # latest
             /\ sql' = [sql EXCEPT !.pc = "idle", !.command = NoEvent] /\ UNCHANGED <<db, errors>>
          \/ /\ c.type = "Query" /\ c.gen = latest
             /\ \/ answer([type |-> "Repositories", gen |-> c.gen,
                           rows |-> [gen |-> c.gen, data |-> Seen]]) /\ works /\ UNCHANGED db
                \/ answer([type |-> "Repositories", gen |-> c.gen, rows |-> None]) /\ fails
          \/ /\ c.type = "Snapshot"
             /\ \/ answer([type |-> "Snapshot",
                           data |-> [version |-> db.version, reports |-> db.reports]]) /\ works
                   /\ UNCHANGED db
                \/ answer([type |-> "Snapshot", data |-> None]) /\ fails
          \/ /\ c.type = "Changes"
             /\ \/ answer([type |-> "Changes", gen |-> c.gen, ok |-> TRUE]) /\ works /\ UNCHANGED db
                \/ answer([type |-> "Changes", gen |-> c.gen, ok |-> FALSE]) /\ fails
          \/ /\ c.type = "Mutate"
             /\ \/ /\ answer([type |-> "Mutated", watched |-> c.watched, ok |-> TRUE]) /\ works
                   /\ db' = [db EXCEPT !.version = @ + 1, !.watched = c.watched]
                \/ answer([type |-> "Mutated", watched |-> c.watched, ok |-> FALSE]) /\ fails
          \/ /\ c.type = "ReEvaluate"
             /\ \/ /\ answer([type |-> "Completed", ok |-> TRUE]) /\ works
                   /\ db' = [db EXCEPT !.version = @ + 1]
                \/ answer([type |-> "Completed", ok |-> FALSE]) /\ fails
          \/ /\ c.type = "SaveReport"
             /\ \/ /\ answer([type |-> "ReportSaved", report |-> c.report, ok |-> TRUE]) /\ works
                   /\ db' = [db EXCEPT !.reports = @ \cup {c.report}, !.version = @ + 1]
                \/ answer([type |-> "ReportSaved", report |-> c.report, ok |-> FALSE]) /\ fails
       /\ UNCHANGED <<w, turn, channels, scan, audit, clicks, cycles, user>>

SqlDeliver ==
    /\ Deliver("sql", sql) /\ sql' = Delivered(sql)
    /\ UNCHANGED <<w, turn, out, latest, cancels, stop, scan, audit, db, clicks, cycles, errors, user>>

SqlStop ==
    /\ sql.pc = "idle" /\ stop
    /\ sql' = [sql EXCEPT !.pc = "gone"]
    /\ UNCHANGED <<w, turn, channels, scan, audit, db, clicks, cycles, errors, user>>

-----------------------------------------------------------------------------
\* scan_worker.
ScanNew ==  \* Engine::new and start_dispatcher
    /\ scan.pc = "new"
    /\ \/ scan' = Says(scan, Event("Ready"), "wait") /\ UNCHANGED errors
       \/ /\ errors < MaxErrors /\ errors' = errors + 1
          /\ scan' = Says(scan, Event("Error"), "gone")
    /\ UNCHANGED <<w, turn, channels, sql, audit, db, clicks, cycles, user>>

\* A command, while it waits and while a cycle runs: a pause does not end the cycle, and a
\* request to scan is met by the cycle that runs.
ScanCommand ==
    LET c == Head(out.scan)
    IN /\ scan.pc \in {"wait", "cycle"} /\ ~stop /\ out.scan # <<>>
       /\ out' = [out EXCEPT !.scan = Tail(@)]
       /\ scan' = IF c.type = "Paused" THEN Says([scan EXCEPT !.paused = c.value], c, scan.pc)
                  ELSE scan
       /\ UNCHANGED <<w, turn, in, latest, cancels, stop, sql, audit, db, clicks, cycles, errors, user>>

\* The interval is over, or a command set due to now.  Commands come first.
ScanDue ==
    /\ scan.pc = "wait" /\ ~stop /\ out.scan = <<>>
    /\ ~scan.paused
    /\ cycles < MaxCycles /\ cycles' = cycles + 1
    /\ scan' = Says(scan, Event("Started"), "cycle")
    /\ UNCHANGED <<w, turn, channels, sql, audit, db, clicks, errors, user>>

\* The running cycle quarantines a watched repository that is no longer public: a commit of
\* its own, with requests still to come.  The row's watch flag stays.
ScanQuarantine ==
    /\ scan.pc = "cycle" /\ out.scan = <<>>
    /\ scan.commits < Watch
    /\ scan' = [scan EXCEPT !.commits = @ + 1]
    /\ db' = [db EXCEPT !.version = @ + 1]
    /\ UNCHANGED <<w, turn, channels, sql, audit, clicks, cycles, errors, user>>

\* The cycle commits what it found, or fails: before its commit, or after it because no
\* source succeeded or the totals could not be read.
ScanCycle ==
    /\ scan.pc = "cycle" /\ out.scan = <<>>
    /\ \E end \in {"Finished", "Error"} :
        /\ scan' = Says([scan EXCEPT !.commits = 0], Event(end), "wait")
        /\ \/ db' = [db EXCEPT !.version = @ + 1]
           \/ end = "Error" /\ UNCHANGED db
    /\ UNCHANGED <<w, turn, channels, sql, audit, clicks, cycles, errors, user>>

ScanDeliver ==
    /\ Deliver("scan", scan) /\ scan' = Delivered(scan)
    /\ UNCHANGED <<w, turn, out, latest, cancels, stop, sql, audit, db, clicks, cycles, errors, user>>

ScanStop ==     \* a cycle that runs is dropped
    /\ scan.pc \in {"new", "wait", "cycle"} /\ stop
    /\ scan' = [scan EXCEPT !.pc = "gone"]
    /\ UNCHANGED <<w, turn, channels, sql, audit, db, clicks, cycles, errors, user>>

-----------------------------------------------------------------------------
\* audit_worker.  The watch channel keeps its last value; borrow_and_update sees it.
AuditSays(t, n) == audit' = Says([audit EXCEPT !.number = 0], [type |-> t, number |-> n], "idle")

\* Mutant: the value is read, not marked as seen.
AuditTake_Unseen ==
    LET c == Head(out.audit)
    IN /\ audit.pc = "idle" /\ ~stop /\ out.audit # <<>>
       /\ out' = [out EXCEPT !.audit = Tail(@)]
       /\ IF cancels.value # c.cancel_generation THEN AuditSays("Cancelled", c.number)
          ELSE audit' = [audit EXCEPT !.pc = "busy", !.number = c.number]
       /\ UNCHANGED <<w, turn, in, latest, cancels, stop, sql, scan, db, clicks, cycles, errors, user>>
AuditTake ==
    LET c == Head(out.audit)
    IN /\ audit.pc = "idle" /\ ~stop /\ out.audit # <<>>
       /\ out' = [out EXCEPT !.audit = Tail(@)]
       /\ cancels' = [cancels EXCEPT !.seen = cancels.value]
       /\ IF cancels.value # c.cancel_generation THEN AuditSays("Cancelled", c.number)
          ELSE audit' = [audit EXCEPT !.pc = "busy", !.number = c.number]
       /\ UNCHANGED <<w, turn, in, latest, stop, sql, scan, db, clicks, cycles, errors, user>>

\* The analysis ends, unless the select finds a change of the channel first.
AuditEnd ==
    /\ audit.pc = "busy"
    /\ \/ cancels.seen = cancels.value /\ \E t \in {"Finished", "Error"} : AuditSays(t, audit.number)
       \/ cancels.seen # cancels.value /\ AuditSays("Cancelled", audit.number)
    /\ cancels' = [cancels EXCEPT !.seen = cancels.value]
    /\ UNCHANGED <<w, turn, out, in, latest, stop, sql, scan, db, clicks, cycles, errors, user>>

AuditDeliver ==
    /\ Deliver("audit", audit) /\ audit' = Delivered(audit)
    /\ UNCHANGED <<w, turn, out, latest, cancels, stop, sql, scan, db, clicks, cycles, errors, user>>

AuditStop ==
    /\ audit.pc \in {"idle", "busy"} /\ stop
    /\ audit' = [audit EXCEPT !.pc = "gone"]
    /\ UNCHANGED <<w, turn, channels, sql, scan, db, clicks, cycles, errors, user>>

Frame == ReceiveSql \/ SqlDrained \/ ReceiveScan \/ ScanDrained \/ ReceiveAudit \/ Flush \/ Draw
Clicked == (\E c \in user : DrawClicked(c)) \/ ("cancel" \in user /\ DrawCancelled)
SqlStep == SqlTake \/ SqlRun \/ SqlDeliver \/ SqlStop
ScanStep == \/ ScanNew \/ ScanCommand \/ ScanDue \/ ScanQuarantine \/ ScanCycle
            \/ ScanDeliver \/ ScanStop
AuditStep == AuditTake \/ AuditEnd \/ AuditDeliver \/ AuditStop

Next == Frame \/ Clicked \/ Close \/ SqlStep \/ ScanStep \/ AuditStep

Spec == Init /\ [][Next]_vars

\* Frames are drawn, workers run, statements, cycles and analyses end: nothing here stalls.
\* Nobody has to press a button.
Fairness == WF_vars(Frame) /\ WF_vars(SqlStep) /\ WF_vars(ScanStep) /\ WF_vars(AuditStep)
FairSpec == Spec /\ Fairness

-----------------------------------------------------------------------------
Open == ~stop

\* The rows on screen answer the query that is asked now, and the history shown was read
\* for the detail that is open, however late outdated answers come in (gui.rs 286-292,
\* 836-838, 886-890).
ShownIsAsked ==
    /\ w.rows # None => w.rows.gen = w.generation
    /\ w.changes # 0 => w.changes = w.detail

\* Once nothing is under way, the window agrees with the database: rows, snapshot and watch
\* flag (unless it shows that they could not be read), whichever worker changed it and
\* whatever was being read at that moment.  A cycle that has put a repository in quarantine
\* is under way until it ends: the window hears of it only then, by success or by error
\* (engine.rs 329, 387-394; gui.rs 976-990).
Quiet ==
    /\ Open /\ ~w.pending /\ ~w.snapshot_requested
    /\ in.sql = <<>> /\ out.sql = <<>> /\ sql.pc = "idle"
    /\ in.scan = <<>> /\ scan.pc # "deliver" /\ scan.commits = 0
QuietWindowIsFresh ==
    Quiet => /\ w.rows # None => w.rows.data = Seen
             /\ ~w.snapshot_error => w.snapshot.version = db.version
                                     /\ w.snapshot.reports = db.reports
             /\ w.selected # None => w.selected = db.watched

\* What the window waits for comes: no full queue, outdated query, cancelled analysis or
\* failure leaves it loading, busy or saving for ever, and a scan it shows ends unless scans
\* are paused.  (Clicks and cycles are bounded: in the end nothing new is asked.)
RequestsAreAnswered ==
    []<>\/ ~Open
        \/ /\ ~w.loading /\ ~w.snapshot_loading /\ ~w.busy /\ ~w.pause_pending /\ ~w.auditing
           /\ ~SavePending(w.save)
           /\ w.changes_loading => w.selected = None
           /\ w.scanning => ~w.monitoring \/ cycles = MaxCycles

\* The window and the scan worker agree on the pause whenever no request for one is under
\* way, even if it was made during a cycle: no cycle starts behind a window that shows
\* "Paused" (gui.rs 433-461).
ControlsAgree ==
    Open /\ scan.pc # "gone" /\ scan.next # "gone" /\ ~w.pause_pending => w.monitoring = ~scan.paused

\* What the window shows is so, and is shown as what it is: the answer of the newest query,
\* data that nothing under way will change, and the pause the worker keeps.
WindowIsTruthful == TypeOK /\ ShownIsAsked /\ QuietWindowIsFresh /\ ControlsAgree

\* Only an analysis whose cancel button was pressed is shown as cancelled, never the next
\* one for a press that came too late, and "No new report was stored" for it
\* (gui.rs 500-512, 1022-1024).
CancelIsHonest ==
    /\ w.cancelled \subseteq w.asked
    /\ w.cancelled \cap (db.reports \cup {w.save.report}) = {}

\* A report that waits to be saved, or is being saved, stays until that is decided: no later
\* analysis takes its place before its save succeeded or failed (gui.rs 1525-1533).
NoReportIsDropped ==
    [][SavePending(w.save) /\ ~stop' => w'.save.report = w.save.report]_vars

\* After the window was asked to close every worker ends, also one whose last event finds
\* its queue full with nobody left to read it (gui.rs 200-216).
WorkersStop ==
    []<>(~Open => sql.pc = "gone" /\ scan.pc = "gone" /\ audit.pc = "gone")

=============================================================================
