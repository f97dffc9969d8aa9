---------------------------- MODULE DesktopProofs ----------------------------
(***************************************************************************)
(* Theorems about Desktop, for queues of any size and any clicks.          *)
(***************************************************************************)
EXTENDS Desktop, TLAPS

(***************************************************************************)
(* Types of what is in the queues.                                         *)
(***************************************************************************)
SqlCommands ==
    [type: {"Query"}, gen: Nat] \cup [type: {"Snapshot"}]
    \cup [type: {"Changes"}, gen: 0..MaxClicks] \cup [type: {"Mutate"}, watched: BOOLEAN]
    \cup [type: {"ReEvaluate"}] \cup [type: {"SaveReport"}, report: Audits]
SqlEvents ==
    [type: {"Repositories"}, gen: Nat, rows: {None} \cup [gen: Nat, data: Data]]
    \cup [type: {"Snapshot"}, data: {None} \cup [version: Nat, reports: SUBSET Audits]]
    \cup [type: {"Changes"}, gen: 0..MaxClicks, ok: BOOLEAN]
    \cup [type: {"Mutated"}, watched: BOOLEAN, ok: BOOLEAN]
    \cup [type: {"Completed"}, ok: BOOLEAN]
    \cup [type: {"ReportSaved"}, report: Audits, ok: BOOLEAN]
ScanCommands == [type: {"Scan"}] \cup [type: {"Paused"}, value: BOOLEAN]
ScanEvents == [type: {"Ready", "Started", "Finished", "Error"}] \cup [type: {"Paused"}, value: BOOLEAN]
AuditCommands == [number: Audits, cancel_generation: 0..MaxClicks]
AuditEvents == [type: {"Finished", "Cancelled", "Error"}, number: Audits]

Queues(q) ==
    /\ q \in [sql: Seq(SqlCommands), scan: Seq(ScanCommands), audit: Seq(AuditCommands)]
    /\ Len(q.sql) <= Commands /\ Len(q.scan) <= Commands /\ Len(q.audit) <= 1

WorkersTyped ==
    /\ in \in [sql: Seq(SqlEvents), scan: Seq(ScanEvents), audit: Seq(AuditEvents)]
    /\ Len(in.sql) <= Events /\ Len(in.scan) <= Events /\ Len(in.audit) <= Events
    /\ sql \in [pc: {"idle", "busy", "deliver", "gone"}, command: SqlCommands \cup {NoEvent},
                event: SqlEvents \cup {NoEvent}, next: {"idle"}]
    /\ sql.pc = "busy" => sql.command \in SqlCommands
    /\ sql.pc = "deliver" => sql.event \in SqlEvents
    /\ scan \in [pc: {"new", "wait", "cycle", "deliver", "gone"}, paused: BOOLEAN,
                 commits: 0..Watch, event: ScanEvents \cup {NoEvent}, next: {"wait", "cycle", "gone"}]
    /\ scan.pc = "deliver" => scan.event \in ScanEvents
    /\ audit \in [pc: {"idle", "busy", "deliver", "gone"}, number: 0..MaxClicks,
                  event: AuditEvents \cup {NoEvent}, next: {"idle"}]
    /\ audit.pc = "busy" => audit.number \in Audits
    /\ audit.pc = "deliver" => audit.event \in AuditEvents
    /\ db \in [version: Nat, watched: BOOLEAN, reports: SUBSET Audits]

Counters ==
    /\ turn \in {"sql", "scan", "audit", "draw"} /\ latest \in Nat /\ stop \in BOOLEAN
    /\ cancels \in [value: Nat, seen: Nat] /\ cancels.seen <= cancels.value
    /\ cancels.value <= clicks
    /\ user \in Users /\ clicks \in 0..MaxClicks /\ cycles \in 0..MaxCycles
    /\ errors \in 0..MaxErrors

(***************************************************************************)
(* The sql worker's line: its events, what it holds, its commands, oldest  *)
(* first.  A cell says whether the work is done.                           *)
(***************************************************************************)
Cell(done, what) == [done |-> done, what |-> what]
Held == IF sql.pc \in {"busy", "deliver"} THEN 1 ELSE 0
HeldCell == IF sql.pc = "busy" THEN Cell(FALSE, sql.command) ELSE Cell(TRUE, sql.event)
LineOf(e, h, x, s) ==
    [i \in 1..(Len(e) + h + Len(s)) |->
        IF i <= Len(e) THEN Cell(TRUE, e[i])
        ELSE IF i <= Len(e) + h THEN x
        ELSE Cell(FALSE, s[i - Len(e) - h])]
Line(s) == LineOf(in.sql, Held, HeldCell, s)

Cells == [done: {TRUE}, what: SqlEvents] \cup [done: {FALSE}, what: SqlCommands]
Kind(c) ==
    CASE c.what.type \in {"Mutate", "ReEvaluate", "Mutated", "Completed"} -> "operation"
      [] c.what.type = "Snapshot" -> "snapshot"
      [] c.what.type \in {"SaveReport", "ReportSaved"} -> "save"
      [] OTHER -> "other"
Mutation(c) == c.done /\ c.what.type = "Mutated" /\ c.what.ok
Rows(c) == c.done /\ c.what.type = "Repositories" /\ c.what.rows # None
Refreshes(c) == c.done /\ c.what.type \in {"Mutated", "Completed", "ReportSaved"} /\ c.what.ok
MutationAfter(L, i) == \E j \in DOMAIN L : j > i /\ Mutation(L[j])

\* Events come before commands; what the window waits for is in the line at most once, and
\* only while it waits.
InOrder(L) ==
    /\ \A i \in DOMAIN L : L[i] \in Cells
    /\ \A i, j \in DOMAIN L : i < j /\ L[j].done => L[i].done
OncePerKind(L) ==
    \A i, j \in DOMAIN L : Kind(L[i]) = Kind(L[j]) /\ Kind(L[i]) # "other" => i = j
Awaited(u, L) ==
    \A i \in DOMAIN L :
        /\ Kind(L[i]) = "operation" => u.busy
        /\ Kind(L[i]) = "snapshot" => u.snapshot_loading
        /\ Kind(L[i]) = "save" => u.save = [report |-> L[i].what.report, state |-> "Saving"]
        /\ L[i].what.type \in {"Query", "Repositories"} => L[i].what.gen <= u.generation

\* The watch flag that is shown, or will be, is the one of database d or is corrected by a
\* mutation that comes after it.
FlagsAreTrue(u, L, d) ==
    /\ \A i \in DOMAIN L : Mutation(L[i]) => L[i].what.watched = d.watched
    /\ u.selected # None => u.selected = d.watched \/ MutationAfter(L, 0)
    /\ u.rows # None => u.rows.data.watched = d.watched \/ MutationAfter(L, 0)
    /\ \A i \in DOMAIN L : Rows(L[i]) =>
          L[i].what.rows.data.watched = d.watched \/ MutationAfter(L, i)

\* The rows that are shown, or will be, are those of the database or a refresh comes: from
\* the scan worker (r = 1), or in the line.
RefreshComes(L, r) == r = 1 \/ \E i \in DOMAIN L : Refreshes(L[i])
RowsAreTrue(u, L, d, r) ==
    /\ u.rows # None => /\ u.rows.gen = u.generation
                        /\ u.rows.data.version = d.version \/ RefreshComes(L, r)
    /\ \A i \in DOMAIN L : Rows(L[i]) =>
          /\ L[i].what.rows.gen = L[i].what.gen
          /\ L[i].what.gen = u.generation =>
                L[i].what.rows.data.version = d.version \/ RefreshComes(L, r)

\* And so for the snapshot, which is asked for, on its way, or there.
Told(s, d) == s = None \/ (s.version = d.version /\ s.reports = d.reports)
SnapshotIsTrue(u, L, d, r) ==
    \/ u.snapshot_requested
    \/ RefreshComes(L, r)
    \/ \E i \in DOMAIN L : Kind(L[i]) = "snapshot" /\ (L[i].done => Told(L[i].what.data, d))
    \/ /\ \A i \in DOMAIN L : Kind(L[i]) # "snapshot"
       /\ ~u.snapshot_error => u.snapshot.version = d.version /\ u.snapshot.reports = d.reports

SqlGood(u, L, d, r) ==
    /\ InOrder(L) /\ OncePerKind(L) /\ Awaited(u, L)
    /\ FlagsAreTrue(u, L, d) /\ RowsAreTrue(u, L, d, r) /\ SnapshotIsTrue(u, L, d, r)

(***************************************************************************)
(* The scan worker: at most one pause is under way, and it makes the       *)
(* window refresh: by the end it has told or tells, or by the end of a     *)
(* cycle that has put a repository in quarantine.                          *)
(***************************************************************************)
ScanRefreshing ==
    \/ scan.commits > 0
    \/ \E i \in DOMAIN in.scan : in.scan[i].type \in {"Finished", "Error"}
    \/ scan.pc = "deliver" /\ scan.event.type \in {"Finished", "Error"}
ScanRefreshes == IF ScanRefreshing THEN 1 ELSE 0
Alive == scan.pc # "gone" /\ ~(scan.pc = "deliver" /\ scan.next = "gone")
PauseEvent(e) == e.type = "Paused"
PauseHeld == scan.pc = "deliver" /\ PauseEvent(scan.event)
PauseTold == PauseHeld \/ \E i \in DOMAIN in.scan : PauseEvent(in.scan[i])
PauseAsked(s) == \E i \in DOMAIN s : PauseEvent(s[i])

OnePause(u, s) ==
    /\ \A i, j \in DOMAIN s : PauseEvent(s[i]) /\ PauseEvent(s[j]) => i = j
    /\ \A i, j \in DOMAIN in.scan : PauseEvent(in.scan[i]) /\ PauseEvent(in.scan[j]) => i = j
    /\ PauseHeld => \A i \in DOMAIN in.scan : ~PauseEvent(in.scan[i])
    /\ ~(PauseTold /\ PauseAsked(s))
    /\ PauseTold \/ PauseAsked(s) => u.pause_pending
PausesAgree(u) ==
    /\ PauseHeld => scan.event.value = scan.paused
    /\ \A i \in DOMAIN in.scan : PauseEvent(in.scan[i]) => in.scan[i].value = scan.paused
    /\ ~PauseTold => u.monitoring = ~scan.paused
ScanGood(u, s) == Alive => OnePause(u, s) /\ PausesAgree(u)

(***************************************************************************)
(* The audit worker: one analysis at a time, and what its end means.       *)
(***************************************************************************)
Working == IF audit.pc \in {"busy", "deliver"} THEN 1 ELSE 0
OneAnalysis(u, s) ==
    /\ Len(in.audit) + Working + Len(s) <= 1
    /\ Len(in.audit) + Working + Len(s) = 1 => u.auditing
    /\ \A i \in DOMAIN s : s[i].number = u.audits
    /\ audit.pc = "busy" => audit.number = u.audits
    /\ audit.pc = "deliver" => audit.event.number = u.audits
    /\ \A i \in DOMAIN in.audit : in.audit[i].number = u.audits
CancelsAreAsked(u, s) ==
    /\ \A i \in DOMAIN s : s[i].cancel_generation # cancels.value => u.audits \in u.asked
    /\ audit.pc = "busy" /\ cancels.seen # cancels.value => u.audits \in u.asked
    /\ audit.pc = "deliver" /\ audit.event.type = "Cancelled" => u.audits \in u.asked
    /\ \A i \in DOMAIN in.audit : in.audit[i].type = "Cancelled" => u.audits \in u.asked
    /\ u.cancelled \subseteq u.asked
ReportsAreKept(u) ==
    /\ u.auditing => u.save = NoSave /\ u.audits \notin u.cancelled \cup db.reports
                     /\ u.audits \in Audits
    /\ u.cancelled \cup db.reports \subseteq 1..u.audits /\ u.save.report <= u.audits
    /\ u.cancelled \cap (db.reports \cup {u.save.report}) = {}
    /\ u.save.state \in {"Queued", "Saving", "Failed"} => u.save.report \in Audits
AuditGood(u, s) == OneAnalysis(u, s) /\ CancelsAreAsked(u, s) /\ ReportsAreKept(u)

(***************************************************************************)
(* The inductive invariant.                                                *)
(***************************************************************************)
WindowGood(u) ==
    /\ u \in Window /\ u.detail <= clicks /\ u.audits <= clicks
    /\ u.changes # 0 => u.changes = u.detail
WindowInv == WindowGood(w) /\ latest = w.generation
QueuesInv == Queues(out)
SqlInv == SqlGood(w, Line(out.sql), db, ScanRefreshes)
ScanInv == ScanGood(w, out.scan)
AuditInv == AuditGood(w, out.audit)
Good == WindowInv /\ QueuesInv /\ SqlInv /\ ScanInv /\ AuditInv
Closed == w = Blank /\ out = NoQueues
IInv == Counters /\ WorkersTyped /\ IF stop THEN Closed ELSE Good

(***************************************************************************)
(* What is in the queues.                                                  *)
(***************************************************************************)
LEMMA SqlEventFacts ==
    ASSUME NEW e \in SqlEvents
    PROVE  /\ e.type \in {"Repositories", "Snapshot", "Changes", "Mutated", "Completed", "ReportSaved"}
           /\ e.type = "Repositories" => e.gen \in Nat /\ e.rows \in {None} \cup [gen: Nat, data: Data]
           /\ e.type = "Snapshot" => e.data \in {None} \cup [version: Nat, reports: SUBSET Audits]
           /\ e.type = "Changes" => e.gen \in 0..MaxClicks /\ e.ok \in BOOLEAN
           /\ e.type = "Mutated" => e.watched \in BOOLEAN /\ e.ok \in BOOLEAN
           /\ e.type = "Completed" => e.ok \in BOOLEAN
           /\ e.type = "ReportSaved" => e.report \in Audits /\ e.ok \in BOOLEAN
BY DEF SqlEvents

LEMMA SqlCommandFacts ==
    ASSUME NEW c \in SqlCommands
    PROVE  /\ c.type \in {"Query", "Snapshot", "Changes", "Mutate", "ReEvaluate", "SaveReport"}
           /\ c.type = "Query" => c.gen \in Nat
           /\ c.type = "Changes" => c.gen \in 0..MaxClicks
           /\ c.type = "Mutate" => c.watched \in BOOLEAN
           /\ c.type = "SaveReport" => c.report \in Audits
BY DEF SqlCommands

LEMMA CellFacts ==
    ASSUME NEW c \in Cells
    PROVE  /\ c.done \in BOOLEAN
           /\ c.done => c.what \in SqlEvents
           /\ ~c.done => c.what \in SqlCommands
BY DEF Cells

(***************************************************************************)
(* The window.                                                             *)
(***************************************************************************)
\* All that a refresh leaves as it is.
SameElse(v, u) ==
    /\ v.busy = u.busy /\ v.snapshot_loading = u.snapshot_loading /\ v.save = u.save
    /\ v.snapshot = u.snapshot /\ v.snapshot_error = u.snapshot_error /\ v.selected = u.selected
    /\ v.detail = u.detail /\ v.changes = u.changes /\ v.changes_loading = u.changes_loading
    /\ v.ready = u.ready /\ v.scanning = u.scanning /\ v.pause_pending = u.pause_pending
    /\ v.monitoring = u.monitoring /\ v.audits = u.audits /\ v.auditing = u.auditing
    /\ v.cancelled = u.cancelled /\ v.asked = u.asked

LEMMA QueryFacts ==
    ASSUME NEW u \in Window
    PROVE  /\ RequestQuery(u) \in Window
           /\ RequestQuery(u).generation = u.generation + 1 /\ RequestQuery(u).rows = None
           /\ RequestQuery(u).snapshot_requested = u.snapshot_requested
           /\ SameElse(RequestQuery(u), u)
<1>. DEFINE v == RequestQuery(u)
<1>1. PICK n \in Nat : n = u.generation + 1
  BY DEF Window
<1>2. v \in Window
  <2>1. v = [u EXCEPT !.generation = n, !.pending = TRUE, !.loading = TRUE, !.rows = None]
    BY <1>1 DEF RequestQuery
  <2>. QED BY <2>1 DEF Window
<1>3. /\ v.generation = u.generation + 1 /\ v.rows = None
      /\ v.snapshot_requested = u.snapshot_requested
  BY DEF RequestQuery, Window
<1>4. SameElse(v, u)
  BY DEF RequestQuery, Window, SameElse
<1>. QED BY <1>2, <1>3, <1>4

LEMMA RefreshFacts ==
    ASSUME NEW u \in Window
    PROVE  /\ Refresh(u) \in Window
           /\ Refresh(u).generation = u.generation + 1 /\ Refresh(u).rows = None
           /\ Refresh(u).snapshot_requested = TRUE
           /\ SameElse(Refresh(u), u)
<1>. DEFINE v == [u EXCEPT !.snapshot_requested = TRUE]
<1>1. v \in Window
  BY DEF Window
<1>2. v.snapshot_requested = TRUE /\ v.generation = u.generation /\ SameElse(v, u)
  BY DEF Window, SameElse
<1>3. Refresh(u) = RequestQuery(v)
  BY DEF Refresh
<1>. HIDE DEF v
<1>. QED BY <1>1, <1>2, <1>3, QueryFacts DEF SameElse

\* What the sql worker's line has to do with.
SqlSame(v, u) ==
    /\ v.busy = u.busy /\ v.snapshot_loading = u.snapshot_loading /\ v.save = u.save
    /\ v.generation = u.generation /\ v.rows = u.rows /\ v.selected = u.selected
    /\ v.snapshot_requested = u.snapshot_requested
    /\ v.snapshot = u.snapshot /\ v.snapshot_error = u.snapshot_error

LEMMA SqlGoodSame ==
    ASSUME NEW u, NEW v, SqlSame(v, u), NEW L, NEW d, NEW r, SqlGood(u, L, d, r)
    PROVE  SqlGood(v, L, d, r)
<1>1. Awaited(v, L)
  BY DEF SqlSame, SqlGood, Awaited
<1>2. FlagsAreTrue(v, L, d)
  BY DEF SqlSame, SqlGood, FlagsAreTrue
<1>3. RowsAreTrue(v, L, d, r)
  BY DEF SqlSame, SqlGood, RowsAreTrue
<1>4. SnapshotIsTrue(v, L, d, r)
  BY DEF SqlSame, SqlGood, SnapshotIsTrue
<1>. QED BY <1>1, <1>2, <1>3, <1>4 DEF SqlGood

(***************************************************************************)
(* How the line changes: a cell is removed, replaced, or appended.         *)
(***************************************************************************)
Up(i, p) == IF i < p THEN i ELSE i + 1
Removed(L, K, p) ==
    \E n \in Nat : /\ p \in 1..n /\ DOMAIN L = 1..n /\ DOMAIN K = 1..(n - 1)
                   /\ \A i \in 1..(n - 1) : K[i] = L[Up(i, p)]
Replaced(L, K, p, c) ==
    \E n \in Nat : /\ p \in 1..n /\ DOMAIN L = 1..n /\ DOMAIN K = 1..n
                   /\ K[p] = c /\ \A i \in 1..n \ {p} : K[i] = L[i]
Appended(L, K, c) ==
    \E n \in Nat : /\ DOMAIN L = 1..n /\ DOMAIN K = 1..(n + 1)
                   /\ K[n + 1] = c /\ \A i \in 1..n : K[i] = L[i]

LEMMA RemovedFacts ==
    ASSUME NEW L, NEW K, NEW p, Removed(L, K, p)
    PROVE  /\ p \in DOMAIN L
           /\ \A i \in DOMAIN K : /\ i > 0 /\ Up(i, p) \in DOMAIN L /\ Up(i, p) # p
                                  /\ K[i] = L[Up(i, p)]
           /\ \A i, j \in DOMAIN K : (i < j <=> Up(i, p) < Up(j, p)) /\ (Up(i, p) = Up(j, p) => i = j)
           /\ \A k \in DOMAIN L : k # p => \E i \in DOMAIN K : Up(i, p) = k
<1>1. PICK n \in Nat : /\ p \in 1..n /\ DOMAIN L = 1..n /\ DOMAIN K = 1..(n - 1)
                       /\ \A i \in 1..(n - 1) : K[i] = L[Up(i, p)]
  BY DEF Removed
<1>2. \A i \in 1..(n - 1) : i > 0 /\ Up(i, p) \in 1..n /\ Up(i, p) # p
  BY <1>1 DEF Up
<1>3. \A i, j \in 1..(n - 1) : (i < j <=> Up(i, p) < Up(j, p)) /\ (Up(i, p) = Up(j, p) => i = j)
  BY <1>1 DEF Up
<1>4. ASSUME NEW k \in 1..n, k # p PROVE \E i \in 1..(n - 1) : Up(i, p) = k
  <2>1. CASE k < p
    <3>1. k \in 1..(n - 1) /\ Up(k, p) = k
      BY <1>1, <2>1 DEF Up
    <3>. QED BY <3>1
  <2>2. CASE ~(k < p)
    <3>1. k - 1 \in 1..(n - 1) /\ Up(k - 1, p) = k
      BY <1>1, <1>4, <2>2 DEF Up
    <3>. QED BY <3>1
  <2>. QED BY <2>1, <2>2
<1>. QED BY <1>1, <1>2, <1>3, <1>4

\* Whatever cell goes, the order of the others stays.
LEMMA RemovedKeepsOrder ==
    ASSUME NEW u, NEW L, NEW K, NEW p, Removed(L, K, p), InOrder(L), OncePerKind(L), Awaited(u, L)
    PROVE  /\ InOrder(K) /\ OncePerKind(K) /\ Awaited(u, K)
           /\ Kind(L[p]) # "other" => \A i \in DOMAIN K : Kind(K[i]) # Kind(L[p])
<1>1. InOrder(K)
  <2>1. \A i \in DOMAIN K : K[i] \in Cells
    BY RemovedFacts DEF InOrder
  <2>2. ASSUME NEW i \in DOMAIN K, NEW j \in DOMAIN K, i < j, K[j].done PROVE K[i].done
    <3>1. /\ Up(i, p) \in DOMAIN L /\ Up(j, p) \in DOMAIN L /\ Up(i, p) < Up(j, p)
          /\ L[Up(j, p)].done /\ K[i] = L[Up(i, p)]
      BY <2>2, RemovedFacts
    <3>. QED BY <3>1 DEF InOrder
  <2>. QED BY <2>1, <2>2 DEF InOrder
<1>2. OncePerKind(K)
  <2>1. SUFFICES ASSUME NEW i \in DOMAIN K, NEW j \in DOMAIN K,
                        Kind(K[i]) = Kind(K[j]), Kind(K[i]) # "other"
                 PROVE  i = j
    BY DEF OncePerKind
  <2>2. /\ Up(i, p) \in DOMAIN L /\ Up(j, p) \in DOMAIN L
        /\ K[i] = L[Up(i, p)] /\ K[j] = L[Up(j, p)]
    BY RemovedFacts
  <2>3. Up(i, p) = Up(j, p)
    BY <2>1, <2>2 DEF OncePerKind
  <2>. QED BY <2>3, RemovedFacts
<1>3. Awaited(u, K)
  <2>1. SUFFICES ASSUME NEW i \in DOMAIN K
                 PROVE  /\ Kind(K[i]) = "operation" => u.busy
                        /\ Kind(K[i]) = "snapshot" => u.snapshot_loading
                        /\ Kind(K[i]) = "save" =>
                              u.save = [report |-> K[i].what.report, state |-> "Saving"]
                        /\ K[i].what.type \in {"Query", "Repositories"} =>
                              K[i].what.gen <= u.generation
    BY DEF Awaited
  <2>2. Up(i, p) \in DOMAIN L /\ K[i] = L[Up(i, p)]
    BY RemovedFacts
  <2>. QED BY <2>2, Zenon DEF Awaited
<1>4. ASSUME Kind(L[p]) # "other", NEW i \in DOMAIN K PROVE Kind(K[i]) # Kind(L[p])
  <2>1. Up(i, p) \in DOMAIN L /\ K[i] = L[Up(i, p)] /\ Up(i, p) # p /\ p \in DOMAIN L
    BY RemovedFacts
  <2>. QED BY <2>1, <1>4, Zenon DEF OncePerKind
<1>. QED BY <1>1, <1>2, <1>3, <1>4

\* What corrects the others is still there, unless it is what went.
LEMMA RemovedKeepsMutation ==
    ASSUME NEW L, NEW K, NEW p, Removed(L, K, p)
    PROVE  /\ ~Mutation(L[p]) /\ MutationAfter(L, 0) => MutationAfter(K, 0)
           /\ p = 1 /\ MutationAfter(L, 1) => MutationAfter(K, 0)
           /\ \A i \in DOMAIN K :
                 (p = 1 \/ ~Mutation(L[p])) /\ MutationAfter(L, Up(i, p)) => MutationAfter(K, i)
<1>1. ASSUME NEW j \in DOMAIN L, Mutation(L[j]), j # p PROVE MutationAfter(K, 0)
  <2>1. PICK i \in DOMAIN K : Up(i, p) = j
    BY <1>1, RemovedFacts
  <2>2. i > 0 /\ K[i] = L[j]
    BY <2>1, RemovedFacts
  <2>. QED BY <2>2, <1>1 DEF MutationAfter
<1>2. ~Mutation(L[p]) /\ MutationAfter(L, 0) => MutationAfter(K, 0)
  BY <1>1 DEF MutationAfter
<1>3. p = 1 /\ MutationAfter(L, 1) => MutationAfter(K, 0)
  BY <1>1 DEF MutationAfter
<1>4. ASSUME NEW i \in DOMAIN K, p = 1 \/ ~Mutation(L[p]), MutationAfter(L, Up(i, p))
      PROVE  MutationAfter(K, i)
  <2>1. PICK j \in DOMAIN L : j > Up(i, p) /\ Mutation(L[j])
    BY <1>4 DEF MutationAfter
  <2>2. j # p
    <3>1. CASE p = 1
      <4>1. PICK n \in Nat : DOMAIN K = 1..(n - 1)
        BY DEF Removed
      <4>2. \A i1 \in 1..(n - 1), j1 \in DOMAIN L : j1 > Up(i1, 1) => j1 # 1
        BY DEF Up
      <4>. QED BY <4>1, <4>2, <3>1, <2>1
    <3>2. CASE ~Mutation(L[p])
      BY <3>2, <2>1
    <3>. QED BY <3>1, <3>2, <1>4
  <2>3. PICK k \in DOMAIN K : Up(k, p) = j
    BY <2>2, RemovedFacts
  <2>4. i < k /\ K[k] = L[j]
    BY <2>1, <2>3, RemovedFacts
  <2>5. k > i
    BY <2>4
  <2>. QED BY <2>5, <2>4, <2>1 DEF MutationAfter
<1>. QED BY <1>2, <1>3, <1>4

LEMMA RemovedKeepsRefresh ==
    ASSUME NEW L, NEW K, NEW p, Removed(L, K, p), NEW r, ~Refreshes(L[p]), RefreshComes(L, r)
    PROVE  RefreshComes(K, r)
<1>1. CASE r = 1
  BY <1>1 DEF RefreshComes
<1>2. ASSUME NEW k \in DOMAIN L, Refreshes(L[k]) PROVE RefreshComes(K, r)
  <2>1. PICK i \in DOMAIN K : Up(i, p) = k
    BY <1>2, RemovedFacts
  <2>2. K[i] = L[k]
    BY <2>1, RemovedFacts
  <2>. QED BY <2>2, <1>2 DEF RefreshComes
<1>. QED BY <1>1, <1>2 DEF RefreshComes

\* What the cells alone say.
CellsAreTrue(L, d) ==
    /\ \A i \in DOMAIN L : Mutation(L[i]) => L[i].what.watched = d.watched
    /\ \A i \in DOMAIN L : Rows(L[i]) =>
          /\ L[i].what.rows.gen = L[i].what.gen
          /\ L[i].what.rows.data.watched = d.watched \/ MutationAfter(L, i)

LEMMA RemovedKeepsCells ==
    ASSUME NEW u, NEW L, NEW K, NEW p, NEW d, NEW r, Removed(L, K, p), SqlGood(u, L, d, r),
           p = 1 \/ ~Mutation(L[p])
    PROVE  CellsAreTrue(K, d)
<1>1. ASSUME NEW i \in DOMAIN K, Mutation(K[i]) PROVE K[i].what.watched = d.watched
  <2>1. Up(i, p) \in DOMAIN L /\ K[i] = L[Up(i, p)]
    BY RemovedFacts
  <2>. QED BY <2>1, <1>1 DEF SqlGood, FlagsAreTrue
<1>2. ASSUME NEW i \in DOMAIN K, Rows(K[i])
      PROVE  /\ K[i].what.rows.gen = K[i].what.gen
             /\ K[i].what.rows.data.watched = d.watched \/ MutationAfter(K, i)
  <2>1. Up(i, p) \in DOMAIN L /\ K[i] = L[Up(i, p)]
    BY RemovedFacts
  <2>2. K[i].what.rows.gen = K[i].what.gen
    BY <2>1, <1>2 DEF SqlGood, RowsAreTrue
  <2>3. K[i].what.rows.data.watched = d.watched \/ MutationAfter(L, Up(i, p))
    BY <2>1, <1>2 DEF SqlGood, FlagsAreTrue
  <2>. QED BY <2>2, <2>3, RemovedKeepsMutation
<1>. QED BY <1>1, <1>2 DEF CellsAreTrue

\* A cell that does not refresh and is no snapshot is not missed.
LEMMA RemovedKeepsSqlGood ==
    ASSUME NEW u, NEW L, NEW K, NEW p, NEW d, NEW r, Removed(L, K, p), SqlGood(u, L, d, r),
           ~Refreshes(L[p]), Kind(L[p]) # "snapshot"
    PROVE  SqlGood(u, K, d, r)
<1>1. ~Mutation(L[p])
  BY DEF Mutation, Refreshes
<1>2. InOrder(K) /\ OncePerKind(K) /\ Awaited(u, K)
  BY RemovedKeepsOrder DEF SqlGood
<1>3. CellsAreTrue(K, d)
  BY <1>1, RemovedKeepsCells
<1>4. /\ MutationAfter(L, 0) => MutationAfter(K, 0)
      /\ RefreshComes(L, r) => RefreshComes(K, r)
  BY <1>1, RemovedKeepsMutation, RemovedKeepsRefresh
<1>5. FlagsAreTrue(u, K, d)
  BY <1>3, <1>4 DEF SqlGood, FlagsAreTrue, CellsAreTrue
<1>6. RowsAreTrue(u, K, d, r)
  <2>1. u.rows # None => /\ u.rows.gen = u.generation
                         /\ u.rows.data.version = d.version \/ RefreshComes(K, r)
    BY <1>4 DEF SqlGood, RowsAreTrue
  <2>2. ASSUME NEW i \in DOMAIN K, Rows(K[i])
        PROVE  /\ K[i].what.rows.gen = K[i].what.gen
               /\ K[i].what.gen = u.generation =>
                     K[i].what.rows.data.version = d.version \/ RefreshComes(K, r)
    <3>1. Up(i, p) \in DOMAIN L /\ K[i] = L[Up(i, p)]
      BY RemovedFacts
    <3>. QED BY <3>1, <2>2, <1>4 DEF SqlGood, RowsAreTrue
  <2>. QED BY <2>1, <2>2 DEF RowsAreTrue
<1>7. SnapshotIsTrue(u, K, d, r)
  <2>1. CASE u.snapshot_requested \/ RefreshComes(L, r)
    BY <2>1, <1>4 DEF SnapshotIsTrue
  <2>2. ASSUME NEW k \in DOMAIN L, Kind(L[k]) = "snapshot", L[k].done => Told(L[k].what.data, d)
        PROVE  SnapshotIsTrue(u, K, d, r)
    <3>1. PICK i \in DOMAIN K : Up(i, p) = k
      BY <2>2, RemovedFacts
    <3>2. K[i] = L[k]
      BY <3>1, RemovedFacts
    <3>. QED BY <3>2, <2>2 DEF SnapshotIsTrue
  <2>3. ASSUME \A i \in DOMAIN L : Kind(L[i]) # "snapshot",
               ~u.snapshot_error => u.snapshot.version = d.version /\ u.snapshot.reports = d.reports
        PROVE  SnapshotIsTrue(u, K, d, r)
    <3>1. \A i \in DOMAIN K : Kind(K[i]) # "snapshot"
      BY <2>3, RemovedFacts
    <3>. QED BY <3>1, <2>3 DEF SnapshotIsTrue
  <2>. QED BY <2>1, <2>2, <2>3 DEF SqlGood, SnapshotIsTrue
<1>. QED BY <1>2, <1>5, <1>6, <1>7 DEF SqlGood

\* After a refresh the old rows and the old snapshot do not matter.
LEMMA RefreshIsGood ==
    ASSUME NEW u \in Window, NEW L, NEW d, NEW r,
           InOrder(L), OncePerKind(L), Awaited(u, L), CellsAreTrue(L, d),
           u.selected # None => u.selected = d.watched \/ MutationAfter(L, 0)
    PROVE  SqlGood(Refresh(u), L, d, r)
<1>. DEFINE v == Refresh(u)
<1>1. /\ v.generation = u.generation + 1 /\ v.rows = None /\ v.snapshot_requested = TRUE
      /\ SameElse(v, u) /\ u.generation \in Nat
  BY RefreshFacts DEF Window
<1>. HIDE DEF v
<1>2. ASSUME NEW i \in DOMAIN L, L[i].what.type \in {"Query", "Repositories"}
      PROVE  L[i].what.gen <= v.generation /\ L[i].what.gen # v.generation
  <2>1. L[i].what.gen <= u.generation
    BY <1>2 DEF Awaited
  <2>2. L[i] \in Cells
    BY DEF InOrder
  <2>3. L[i].what.gen \in Nat
    BY <2>2, <1>2, CellFacts, SqlEventFacts, SqlCommandFacts
  <2>. QED BY <2>1, <2>3, <1>1
<1>3. Awaited(v, L)
  BY <1>1, <1>2 DEF Awaited, SameElse
<1>4. FlagsAreTrue(v, L, d)
  BY <1>1 DEF FlagsAreTrue, SameElse, CellsAreTrue
<1>5. RowsAreTrue(v, L, d, r)
  BY <1>1, <1>2 DEF RowsAreTrue, CellsAreTrue, Rows
<1>6. SnapshotIsTrue(v, L, d, r)
  BY <1>1 DEF SnapshotIsTrue
<1>. QED BY <1>3, <1>4, <1>5, <1>6 DEF SqlGood, v

(***************************************************************************)
(* The events of the sql worker, as the window receives them.              *)
(***************************************************************************)
Heads(L, e) == 1 \in DOMAIN L /\ L[1] = Cell(TRUE, e)

LEMMA RepositoriesIsGood ==
    ASSUME NEW u \in Window, NEW e \in SqlEvents, NEW L, NEW K, NEW d, NEW r,
           Removed(L, K, 1), Heads(L, e), SqlGood(u, L, d, r), e.type = "Repositories"
    PROVE  SqlGood(OnSql(u, e), K, d, r)
<1>1. L[1].done /\ L[1].what = e /\ ~Refreshes(L[1]) /\ Kind(L[1]) = "other"
  BY DEF Heads, Cell, Refreshes, Kind
<1>2. SqlGood(u, K, d, r)
  BY <1>1, RemovedKeepsSqlGood
<1>3. CASE e.gen # u.generation
  BY <1>2, <1>3 DEF OnSql
<1>4. CASE e.gen = u.generation
  <2>. DEFINE v == [u EXCEPT !.loading = FALSE, !.rows = e.rows,
                             !.selected = IF @ = None \/ e.rows = None THEN @
                                          ELSE e.rows.data.watched]
  <2>1. OnSql(u, e) = v
    BY <1>4 DEF OnSql
  <2>2. /\ v.rows = e.rows /\ v.busy = u.busy /\ v.snapshot_loading = u.snapshot_loading
        /\ v.save = u.save /\ v.generation = u.generation
        /\ v.snapshot_requested = u.snapshot_requested
        /\ v.snapshot = u.snapshot /\ v.snapshot_error = u.snapshot_error
        /\ v.selected = IF u.selected = None \/ e.rows = None THEN u.selected
                        ELSE e.rows.data.watched
    BY DEF Window
  <2>. HIDE DEF v
  <2>3. Awaited(v, K)
    BY <1>2, <2>2 DEF SqlGood, Awaited
  <2>4. ASSUME e.rows # None
        PROVE  /\ e.rows.gen = u.generation
               /\ e.rows.data.watched = d.watched \/ MutationAfter(K, 0)
               /\ e.rows.data.version = d.version \/ RefreshComes(K, r)
    <3>2. 1 \in DOMAIN L /\ Rows(L[1])
      BY <2>4, <1>1 DEF Heads, Rows
    <3>3. e.rows.gen = u.generation /\ (e.rows.data.version = d.version \/ RefreshComes(L, r))
      BY <3>2, <1>1, <1>4 DEF SqlGood, RowsAreTrue
    <3>4. e.rows.data.watched = d.watched \/ MutationAfter(L, 1)
      BY <3>2, <1>1 DEF SqlGood, FlagsAreTrue
    <3>5. MutationAfter(L, 1) => MutationAfter(K, 0)
      BY RemovedKeepsMutation
    <3>6. RefreshComes(L, r) => RefreshComes(K, r)
      BY <1>1, RemovedKeepsRefresh
    <3>. QED BY <3>3, <3>4, <3>5, <3>6
  <2>5. FlagsAreTrue(v, K, d)
    BY <1>2, <2>2, <2>4 DEF SqlGood, FlagsAreTrue
  <2>6. RowsAreTrue(v, K, d, r)
    BY <1>2, <2>2, <2>4 DEF SqlGood, RowsAreTrue
  <2>7. SnapshotIsTrue(v, K, d, r)
    BY <1>2, <2>2 DEF SqlGood, SnapshotIsTrue
  <2>. QED BY <1>2, <2>1, <2>3, <2>5, <2>6, <2>7 DEF SqlGood
<1>. QED BY <1>3, <1>4

LEMMA SnapshotIsGood ==
    ASSUME NEW u \in Window, NEW e \in SqlEvents, NEW L, NEW K, NEW d, NEW r,
           Removed(L, K, 1), Heads(L, e), SqlGood(u, L, d, r), e.type = "Snapshot"
    PROVE  SqlGood(OnSql(u, e), K, d, r)
<1>. DEFINE v == [u EXCEPT !.snapshot_loading = FALSE, !.snapshot_error = e.data = None,
                           !.snapshot = IF e.data = None THEN @ ELSE e.data]
<1>1. OnSql(u, e) = v
  BY DEF OnSql
<1>2. /\ v.rows = u.rows /\ v.busy = u.busy /\ v.snapshot_loading = FALSE
      /\ v.save = u.save /\ v.generation = u.generation /\ v.selected = u.selected
      /\ v.snapshot_requested = u.snapshot_requested
      /\ v.snapshot_error = (e.data = None)
      /\ v.snapshot = IF e.data = None THEN u.snapshot ELSE e.data
  BY DEF Window
<1>. HIDE DEF v
<1>3. L[1].done /\ L[1].what = e /\ ~Refreshes(L[1]) /\ ~Mutation(L[1]) /\ Kind(L[1]) = "snapshot"
  BY DEF Heads, Cell, Refreshes, Mutation, Kind
<1>4. /\ InOrder(K) /\ OncePerKind(K) /\ Awaited(u, K)
      /\ \A i \in DOMAIN K : Kind(K[i]) # "snapshot"
  BY <1>3, RemovedKeepsOrder DEF SqlGood
<1>5. Awaited(v, K)
  BY <1>2, <1>4 DEF Awaited
<1>6. CellsAreTrue(K, d) /\ (MutationAfter(L, 0) => MutationAfter(K, 0))
                         /\ (RefreshComes(L, r) => RefreshComes(K, r))
  BY <1>3, RemovedKeepsCells, RemovedKeepsMutation, RemovedKeepsRefresh
<1>7. FlagsAreTrue(v, K, d)
  BY <1>2, <1>6 DEF SqlGood, FlagsAreTrue, CellsAreTrue
<1>8. RowsAreTrue(v, K, d, r)
  <2>1. ASSUME NEW i \in DOMAIN K, Rows(K[i])
        PROVE  K[i].what.gen = u.generation =>
                  K[i].what.rows.data.version = d.version \/ RefreshComes(K, r)
    <3>1. Up(i, 1) \in DOMAIN L /\ K[i] = L[Up(i, 1)]
      BY RemovedFacts
    <3>. QED BY <3>1, <2>1, <1>6 DEF SqlGood, RowsAreTrue
  <2>. QED BY <2>1, <1>2, <1>6 DEF SqlGood, RowsAreTrue, CellsAreTrue
<1>9. SnapshotIsTrue(v, K, d, r)
  <2>1. CASE u.snapshot_requested \/ RefreshComes(L, r)
    BY <2>1, <1>2, <1>6 DEF SnapshotIsTrue
  <2>2. ASSUME NEW k \in DOMAIN L, Kind(L[k]) = "snapshot", L[k].done => Told(L[k].what.data, d)
        PROVE  SnapshotIsTrue(v, K, d, r)
    <3>1. k = 1
      BY <2>2, <1>3 DEF SqlGood, OncePerKind, Heads
    <3>2. Told(e.data, d)
      BY <3>1, <2>2, <1>3
    <3>. QED BY <3>2, <1>2, <1>4 DEF Told, SnapshotIsTrue
  <2>3. ~\A i \in DOMAIN L : Kind(L[i]) # "snapshot"
    BY <1>3 DEF Heads
  <2>. QED BY <2>1, <2>2, <2>3 DEF SqlGood, SnapshotIsTrue
<1>. QED BY <1>1, <1>4, <1>5, <1>7, <1>8, <1>9 DEF SqlGood

\* What is shown is the same, what is waited for may not be.
DataSame(v, u) ==
    /\ v.generation = u.generation /\ v.rows = u.rows /\ v.selected = u.selected
    /\ v.snapshot_requested = u.snapshot_requested
    /\ v.snapshot = u.snapshot /\ v.snapshot_error = u.snapshot_error

LEMMA AwaitedIsGood ==
    ASSUME NEW u, NEW v, DataSame(v, u), NEW L, NEW d, NEW r, SqlGood(u, L, d, r), Awaited(v, L)
    PROVE  SqlGood(v, L, d, r)
<1>1. FlagsAreTrue(v, L, d)
  BY DEF DataSame, SqlGood, FlagsAreTrue
<1>2. RowsAreTrue(v, L, d, r)
  BY DEF DataSame, SqlGood, RowsAreTrue
<1>3. SnapshotIsTrue(v, L, d, r)
  BY DEF DataSame, SqlGood, SnapshotIsTrue
<1>. QED BY <1>1, <1>2, <1>3 DEF SqlGood

LEMMA ChangesIsGood ==
    ASSUME NEW u \in Window, NEW e \in SqlEvents, NEW L, NEW K, NEW d, NEW r,
           Removed(L, K, 1), Heads(L, e), SqlGood(u, L, d, r), e.type = "Changes"
    PROVE  SqlGood(OnSql(u, e), K, d, r)
<1>1. L[1].done /\ L[1].what = e /\ ~Refreshes(L[1]) /\ Kind(L[1]) = "other"
  BY DEF Heads, Cell, Refreshes, Kind
<1>2. SqlGood(u, K, d, r)
  BY <1>1, RemovedKeepsSqlGood
<1>3. SqlSame(OnSql(u, e), u)
  <2>1. CASE e.gen # u.detail \/ u.selected = None
    BY <2>1 DEF OnSql, SqlSame
  <2>2. CASE ~(e.gen # u.detail \/ u.selected = None)
    <3>1. OnSql(u, e) = [u EXCEPT !.changes_loading = FALSE,
                                  !.changes = IF e.ok THEN e.gen ELSE @]
      BY <2>2 DEF OnSql
    <3>. QED BY <3>1 DEF Window, SqlSame
  <2>. QED BY <2>1, <2>2
<1>. QED BY <1>2, <1>3, SqlGoodSame

\* An operation that changed stored data, and one that failed.
LEMMA OperationIsGood ==
    ASSUME NEW u \in Window, NEW e \in SqlEvents, NEW L, NEW K, NEW d, NEW r,
           Removed(L, K, 1), Heads(L, e), SqlGood(u, L, d, r), e.type \in {"Mutated", "Completed"}
    PROVE  SqlGood(OnSql(u, e), K, d, r)
<1>1. /\ 1 \in DOMAIN L /\ L[1].done /\ L[1].what = e /\ Kind(L[1]) = "operation"
      /\ (Refreshes(L[1]) <=> e.ok) /\ (Mutation(L[1]) <=> e.type = "Mutated" /\ e.ok)
  BY SqlEventFacts DEF Heads, Cell, Refreshes, Mutation, Kind
<1>2. /\ InOrder(K) /\ OncePerKind(K) /\ Awaited(u, K)
      /\ \A i \in DOMAIN K : Kind(K[i]) # "operation"
  BY <1>1, RemovedKeepsOrder DEF SqlGood
<1>3. CellsAreTrue(K, d)
  BY RemovedKeepsCells
<1>4. CASE ~e.ok
  <2>. DEFINE v == [u EXCEPT !.busy = FALSE]
  <2>1. OnSql(u, e) = v
    BY <1>4 DEF OnSql
  <2>2. SqlGood(u, K, d, r)
    BY <1>1, <1>4, RemovedKeepsSqlGood
  <2>3. /\ DataSame(v, u) /\ v.busy = FALSE /\ v.snapshot_loading = u.snapshot_loading
        /\ v.save = u.save
    BY DEF Window, DataSame
  <2>. HIDE DEF v
  <2>4. Awaited(v, K)
    BY <1>2, <2>3 DEF Awaited, DataSame
  <2>. QED BY <2>1, <2>2, <2>3, <2>4, AwaitedIsGood
<1>5. CASE e.ok
  <2>1. PICK v \in Window :
           /\ OnSql(u, e) = Refresh(v)
           /\ v.busy = FALSE /\ v.snapshot_loading = u.snapshot_loading /\ v.save = u.save
           /\ v.generation = u.generation
           /\ v.selected = IF u.selected # None /\ e.type = "Mutated" THEN e.watched ELSE u.selected
    <3>1. CASE e.type = "Mutated"
      <4>. DEFINE v == [u EXCEPT !.busy = FALSE,
                                 !.selected = IF @ = None THEN None ELSE e.watched]
      <4>1. OnSql(u, e) = Refresh(v)
        BY <1>5, <3>1 DEF OnSql
      <4>2. PICK s \in {None} \cup BOOLEAN : s = IF u.selected = None THEN None ELSE e.watched
        BY <3>1, SqlEventFacts
      <4>3. v = [u EXCEPT !.busy = FALSE, !.selected = s]
        BY <4>2
      <4>4. v \in Window
        <5>1. ASSUME NEW x \in {None} \cup BOOLEAN
              PROVE  [u EXCEPT !.busy = FALSE, !.selected = x] \in Window
          BY DEF Window
        <5>. QED BY <4>3, <5>1, Zenon
      <4>5. /\ v.busy = FALSE /\ v.snapshot_loading = u.snapshot_loading /\ v.save = u.save
            /\ v.generation = u.generation
            /\ v.selected = IF u.selected # None THEN e.watched ELSE u.selected
        BY <4>2, <4>3 DEF Window
      <4>. HIDE DEF v
      <4>. QED BY <4>1, <4>4, <4>5, <3>1
    <3>2. CASE e.type = "Completed"
      <4>. DEFINE v == [u EXCEPT !.busy = FALSE]
      <4>1. OnSql(u, e) = Refresh(v)
        BY <1>5, <3>2 DEF OnSql
      <4>2. /\ v \in Window
            /\ v.busy = FALSE /\ v.snapshot_loading = u.snapshot_loading /\ v.save = u.save
            /\ v.generation = u.generation /\ v.selected = u.selected
        BY DEF Window
      <4>. HIDE DEF v
      <4>. QED BY <4>1, <4>2, <3>2
    <3>. QED BY <3>1, <3>2
  <2>2. Awaited(v, K)
    BY <1>2, <2>1 DEF Awaited
  <2>3. v.selected # None => v.selected = d.watched \/ MutationAfter(K, 0)
    <3>1. CASE e.type = "Mutated"
      <4>1. e.watched = d.watched
        BY <1>1, <1>5, <3>1 DEF SqlGood, FlagsAreTrue
      <4>. QED BY <4>1, <2>1, <3>1
    <3>2. CASE e.type = "Completed"
      <4>1. MutationAfter(L, 0) => MutationAfter(K, 0)
        BY <1>1, <3>2, RemovedKeepsMutation
      <4>. QED BY <4>1, <2>1, <3>2 DEF SqlGood, FlagsAreTrue
    <3>. QED BY <3>1, <3>2
  <2>. QED BY <1>2, <1>3, <2>1, <2>2, <2>3, RefreshIsGood
<1>. QED BY <1>4, <1>5

\* The save that the window waits for has been decided.
LEMMA ReportSavedIsGood ==
    ASSUME NEW u \in Window, NEW e \in SqlEvents, NEW L, NEW K, NEW d, NEW r,
           Removed(L, K, 1), Heads(L, e), SqlGood(u, L, d, r), e.type = "ReportSaved"
    PROVE  SqlGood(OnSql(u, e), K, d, r)
<1>1. /\ 1 \in DOMAIN L /\ L[1].done /\ L[1].what = e /\ Kind(L[1]) = "save"
      /\ (Refreshes(L[1]) <=> e.ok) /\ ~Mutation(L[1])
  BY SqlEventFacts DEF Heads, Cell, Refreshes, Mutation, Kind
<1>2. /\ InOrder(K) /\ OncePerKind(K) /\ Awaited(u, K)
      /\ \A i \in DOMAIN K : Kind(K[i]) # "save"
  BY <1>1, RemovedKeepsOrder DEF SqlGood
<1>3. CellsAreTrue(K, d) /\ (MutationAfter(L, 0) => MutationAfter(K, 0))
  BY <1>1, RemovedKeepsCells, RemovedKeepsMutation
<1>4. u.save = [report |-> e.report, state |-> "Saving"]
  BY <1>1 DEF SqlGood, Awaited
<1>5. ASSUME NEW state \in {"Saved", "Failed"}
      PROVE  LET v == [u EXCEPT !.save.state = state]
             IN /\ v \in Window /\ DataSame(v, u) /\ Awaited(v, K)
  <2>. DEFINE v == [u EXCEPT !.save.state = state]
  <2>1. PICK s \in [report: 0..MaxClicks, state: {"none", "Queued", "Saving", "Saved", "Failed"}] :
           s = [u.save EXCEPT !.state = state]
    BY DEF Window
  <2>2. v = [u EXCEPT !.save = s]
    BY <2>1
  <2>3. v \in Window /\ DataSame(v, u) /\ v.busy = u.busy /\ v.snapshot_loading = u.snapshot_loading
    BY <2>2 DEF Window, DataSame
  <2>. HIDE DEF v
  <2>4. Awaited(v, K)
    BY <1>2, <2>3 DEF Awaited, DataSame
  <2>. QED BY <2>3, <2>4 DEF v
<1>6. CASE ~e.ok
  <2>1. OnSql(u, e) = [u EXCEPT !.save.state = "Failed"]
    BY <1>4, <1>6 DEF OnSql
  <2>2. SqlGood(u, K, d, r)
    BY <1>1, <1>6, RemovedKeepsSqlGood
  <2>. QED BY <2>1, <2>2, <1>5, AwaitedIsGood
<1>7. CASE e.ok
  <2>. DEFINE v == [u EXCEPT !.save.state = "Saved"]
  <2>1. OnSql(u, e) = Refresh(v)
    BY <1>4, <1>7 DEF OnSql
  <2>2. v \in Window /\ DataSame(v, u) /\ Awaited(v, K)
    BY <1>5
  <2>. HIDE DEF v
  <2>3. v.selected # None => v.selected = d.watched \/ MutationAfter(K, 0)
    BY <1>3, <2>2 DEF SqlGood, FlagsAreTrue, DataSame
  <2>. QED BY <1>2, <1>3, <2>1, <2>2, <2>3, RefreshIsGood
<1>. QED BY <1>6, <1>7

LEMMA OnSqlIsGood ==
    ASSUME NEW u \in Window, NEW e \in SqlEvents, NEW L, NEW K, NEW d, NEW r,
           Removed(L, K, 1), Heads(L, e), SqlGood(u, L, d, r)
    PROVE  SqlGood(OnSql(u, e), K, d, r)
BY SqlEventFacts, RepositoriesIsGood, SnapshotIsGood, ChangesIsGood, OperationIsGood,
   ReportSavedIsGood

(***************************************************************************)
(* A command is done: its event takes its place.                           *)
(***************************************************************************)
LEMMA ReplacedFacts ==
    ASSUME NEW L, NEW K, NEW p, NEW c, Replaced(L, K, p, c)
    PROVE  /\ p \in DOMAIN L /\ p > 0 /\ DOMAIN K = DOMAIN L /\ K[p] = c
           /\ \A i \in DOMAIN L : i # p => K[i] = L[i]
           /\ \A i \in DOMAIN L : i # p => i < p \/ p < i
BY DEF Replaced

\* Event e answers command c of the line: the same thing is waited for.
Answers(e, c) ==
    /\ Kind(Cell(TRUE, e)) = Kind(Cell(FALSE, c))
    /\ Kind(Cell(TRUE, e)) = "save" => e.report = c.report
    /\ e.type = "Repositories" => c.type = "Query" /\ e.gen = c.gen

LEMMA ReplacedKeepsOrder ==
    ASSUME NEW u, NEW L, NEW K, NEW p, NEW e \in SqlEvents, NEW c \in SqlCommands,
           Replaced(L, K, p, Cell(TRUE, e)), L[p] = Cell(FALSE, c), Answers(e, c),
           \A i \in DOMAIN L : i < p => L[i].done,
           InOrder(L), OncePerKind(L), Awaited(u, L)
    PROVE  /\ InOrder(K) /\ OncePerKind(K) /\ Awaited(u, K)
           /\ \A i \in DOMAIN L : i # p /\ L[i].done => i < p
<1>. DEFINE k == Cell(TRUE, e)
<1>0. /\ p \in DOMAIN L /\ p > 0 /\ DOMAIN K = DOMAIN L /\ K[p] = k
      /\ \A i \in DOMAIN L : i # p => K[i] = L[i]
      /\ \A i \in DOMAIN L : i # p => i < p \/ p < i
  <2>. HIDE DEF k
  <2>. QED BY ReplacedFacts, Zenon DEF k
<1>1. /\ K[p].done /\ K[p].what = e /\ ~L[p].done /\ L[p].what = c /\ K[p] \in Cells
      /\ p \in DOMAIN L /\ DOMAIN K = DOMAIN L
  BY <1>0 DEF Cell, Cells
<1>2. ASSUME NEW i \in DOMAIN L, i # p, L[i].done PROVE i < p
  <2>1. ~(p < i)
    BY <1>1, <1>2 DEF InOrder
  <2>. QED BY <2>1, <1>2, <1>0
<1>3. InOrder(K)
  <2>1. \A i \in DOMAIN K : K[i] \in Cells
    BY <1>1, <1>0 DEF InOrder
  <2>2. ASSUME NEW i \in DOMAIN K, NEW j \in DOMAIN K, i < j, K[j].done PROVE K[i].done
    <3>1. CASE j = p
      BY <3>1, <2>2, <1>1, <1>0
    <3>2. CASE j # p /\ i # p
      BY <3>2, <2>2, <1>1, <1>0 DEF InOrder
    <3>3. CASE i = p
      BY <3>3, <1>1
    <3>. QED BY <3>1, <3>2, <3>3
  <2>. QED BY <2>1, <2>2 DEF InOrder
<1>4. ASSUME NEW i \in DOMAIN K PROVE Kind(K[i]) = Kind(L[i])
  BY <1>1, <1>0 DEF Answers
<1>5. OncePerKind(K)
  BY <1>1, <1>4 DEF OncePerKind
<1>6. Awaited(u, K)
  <2>1. SUFFICES ASSUME NEW i \in DOMAIN K
                 PROVE  /\ Kind(K[i]) = "operation" => u.busy
                        /\ Kind(K[i]) = "snapshot" => u.snapshot_loading
                        /\ Kind(K[i]) = "save" =>
                              u.save = [report |-> K[i].what.report, state |-> "Saving"]
                        /\ K[i].what.type \in {"Query", "Repositories"} =>
                              K[i].what.gen <= u.generation
    BY DEF Awaited
  <2>2. CASE i # p
    <3>1. i \in DOMAIN L /\ K[i] = L[i]
      BY <2>2, <1>1, <1>0
    <3>. QED BY <3>1, Zenon DEF Awaited
  <2>3. CASE i = p
    <3>1. /\ Kind(L[p]) = "operation" => u.busy
          /\ Kind(L[p]) = "snapshot" => u.snapshot_loading
          /\ Kind(L[p]) = "save" => u.save = [report |-> c.report, state |-> "Saving"]
          /\ c.type = "Query" => c.gen <= u.generation
      BY <1>1 DEF Awaited
    <3>2. Kind(K[p]) = Kind(L[p]) /\ (Kind(K[p]) = "save" => e.report = c.report)
      BY <1>4, <1>1, <1>0 DEF Answers
    <3>3. e.type \in {"Query", "Repositories"} => c.type = "Query" /\ e.gen = c.gen
      BY SqlEventFacts DEF Answers
    <3>. QED BY <2>3, <1>1, <3>1, <3>2, <3>3
  <2>. QED BY <2>2, <2>3
<1>. QED BY <1>2, <1>3, <1>5, <1>6

\* What is done is not touched.
LEMMA ReplacedKeepsDone ==
    ASSUME NEW L, NEW K, NEW p, NEW c, NEW r, Replaced(L, K, p, c), ~L[p].done
    PROVE  /\ \A i \in DOMAIN L : MutationAfter(L, i) => MutationAfter(K, i)
           /\ MutationAfter(L, 0) => MutationAfter(K, 0)
           /\ RefreshComes(L, r) => RefreshComes(K, r)
           /\ \A i \in DOMAIN L : L[i].done => i \in DOMAIN K /\ K[i] = L[i]
<1>1. \A i \in DOMAIN L : L[i].done => i \in DOMAIN K /\ K[i] = L[i]
  BY ReplacedFacts
<1>2. ASSUME NEW i, MutationAfter(L, i) PROVE MutationAfter(K, i)
  BY <1>1, <1>2 DEF MutationAfter, Mutation
<1>3. RefreshComes(L, r) => RefreshComes(K, r)
  BY <1>1 DEF RefreshComes, Refreshes
<1>. QED BY <1>1, <1>2, <1>3

\* Event e tells what the database holds, and the database stays as it is.
Reads(e, d) ==
    /\ e.type \in {"Mutated", "Completed", "ReportSaved"} => ~e.ok
    /\ e.type = "Repositories" /\ e.rows # None =>
          e.rows.gen = e.gen /\ e.rows.data.version = d.version /\ e.rows.data.watched = d.watched
    /\ e.type = "Snapshot" => Told(e.data, d)
\* Event e tells that the database is now d2.
Writes(e, d, d2) ==
    /\ e.type \in {"Mutated", "Completed", "ReportSaved"} /\ e.ok
    /\ d2.watched = IF e.type = "Mutated" THEN e.watched ELSE d.watched

LEMMA ReadsIsGood ==
    ASSUME NEW u, NEW L, NEW K, NEW p, NEW e \in SqlEvents, NEW c \in SqlCommands, NEW d, NEW r,
           Replaced(L, K, p, Cell(TRUE, e)), L[p] = Cell(FALSE, c), Answers(e, c),
           \A i \in DOMAIN L : i < p => L[i].done,
           SqlGood(u, L, d, r), Reads(e, d)
    PROVE  SqlGood(u, K, d, r)
<1>. DEFINE k == Cell(TRUE, e)
<1>1. /\ p \in DOMAIN L /\ DOMAIN K = DOMAIN L /\ K[p] = k
      /\ \A i \in DOMAIN L : i # p => K[i] = L[i]
  <2>. HIDE DEF k
  <2>. QED BY ReplacedFacts, Zenon DEF k
<1>2. K[p].done /\ K[p].what = e /\ ~L[p].done /\ L[p].what = c
  BY <1>1 DEF Cell
<1>3. /\ InOrder(K) /\ OncePerKind(K) /\ Awaited(u, K)
      /\ \A i \in DOMAIN L : MutationAfter(L, i) => MutationAfter(K, i)
      /\ MutationAfter(L, 0) => MutationAfter(K, 0)
      /\ RefreshComes(L, r) => RefreshComes(K, r)
  <2>1. InOrder(K) /\ OncePerKind(K) /\ Awaited(u, K)
    BY ReplacedKeepsOrder, Zenon DEF SqlGood
  <2>. QED BY <2>1, <1>2, ReplacedKeepsDone, Zenon
<1>4. ~Mutation(K[p]) /\ (Kind(K[p]) = "snapshot" => e.type = "Snapshot")
  BY <1>2, SqlEventFacts DEF Mutation, Reads, Kind
<1>5. Rows(K[p]) => e.rows.gen = e.gen /\ e.rows.data.version = d.version
                                       /\ e.rows.data.watched = d.watched
  BY <1>2 DEF Rows, Reads
<1>6. FlagsAreTrue(u, K, d)
  <2>1. ASSUME NEW i \in DOMAIN K, Mutation(K[i]) PROVE K[i].what.watched = d.watched
    BY <2>1, <1>1, <1>4 DEF SqlGood, FlagsAreTrue
  <2>2. ASSUME NEW i \in DOMAIN K, Rows(K[i])
        PROVE  K[i].what.rows.data.watched = d.watched \/ MutationAfter(K, i)
    <3>1. CASE i = p
      BY <3>1, <2>2, <1>2, <1>5
    <3>2. CASE i # p
      <4>1. i \in DOMAIN L /\ Rows(L[i]) /\ K[i] = L[i]
        BY <3>2, <2>2, <1>1
      <4>. QED BY <4>1, <1>3 DEF SqlGood, FlagsAreTrue
    <3>. QED BY <3>1, <3>2
  <2>. QED BY <2>1, <2>2, <1>3 DEF SqlGood, FlagsAreTrue
<1>7. RowsAreTrue(u, K, d, r)
  <2>1. u.rows # None => /\ u.rows.gen = u.generation
                         /\ u.rows.data.version = d.version \/ RefreshComes(K, r)
    BY <1>3 DEF SqlGood, RowsAreTrue
  <2>2. ASSUME NEW i \in DOMAIN K, Rows(K[i])
        PROVE  /\ K[i].what.rows.gen = K[i].what.gen
               /\ K[i].what.gen = u.generation =>
                     K[i].what.rows.data.version = d.version \/ RefreshComes(K, r)
    <3>1. CASE i = p
      BY <3>1, <2>2, <1>2, <1>5
    <3>2. CASE i # p
      <4>1. i \in DOMAIN L /\ Rows(L[i]) /\ K[i] = L[i]
        BY <3>2, <2>2, <1>1
      <4>. QED BY <4>1, <1>3 DEF SqlGood, RowsAreTrue
    <3>. QED BY <3>1, <3>2
  <2>. QED BY <2>1, <2>2 DEF RowsAreTrue
<1>8. SnapshotIsTrue(u, K, d, r)
  <2>1. CASE u.snapshot_requested \/ RefreshComes(L, r)
    BY <2>1, <1>3 DEF SnapshotIsTrue
  <2>2. ASSUME NEW i \in DOMAIN L, Kind(L[i]) = "snapshot", L[i].done => Told(L[i].what.data, d)
        PROVE  SnapshotIsTrue(u, K, d, r)
    <3>1. CASE i = p
      <4>1. Kind(K[p]) = "snapshot"
        BY <3>1, <2>2, <1>1 DEF Answers
      <4>2. Told(K[p].what.data, d)
        BY <4>1, <1>2, <1>4 DEF Reads
      <4>. QED BY <4>1, <4>2, <1>1 DEF SnapshotIsTrue
    <3>2. CASE i # p
      BY <3>2, <2>2, <1>1 DEF SnapshotIsTrue
    <3>. QED BY <3>1, <3>2
  <2>3. ASSUME \A i \in DOMAIN L : Kind(L[i]) # "snapshot",
               ~u.snapshot_error => u.snapshot.version = d.version /\ u.snapshot.reports = d.reports
        PROVE  SnapshotIsTrue(u, K, d, r)
    <3>1. \A i \in DOMAIN K : Kind(K[i]) # "snapshot"
      BY <2>3, <1>1 DEF Answers
    <3>. QED BY <3>1, <2>3 DEF SnapshotIsTrue
  <2>. QED BY <2>1, <2>2, <2>3 DEF SqlGood, SnapshotIsTrue
<1>. QED BY <1>3, <1>6, <1>7, <1>8 DEF SqlGood

LEMMA WritesIsGood ==
    ASSUME NEW u, NEW L, NEW K, NEW p, NEW e \in SqlEvents, NEW c \in SqlCommands,
           NEW d, NEW d2, NEW r,
           Replaced(L, K, p, Cell(TRUE, e)), L[p] = Cell(FALSE, c), Answers(e, c),
           \A i \in DOMAIN L : i < p => L[i].done,
           SqlGood(u, L, d, r), Writes(e, d, d2)
    PROVE  SqlGood(u, K, d2, r)
<1>. DEFINE k == Cell(TRUE, e)
<1>1. /\ p \in DOMAIN L /\ p > 0 /\ DOMAIN K = DOMAIN L /\ K[p] = k
      /\ \A i \in DOMAIN L : i # p => K[i] = L[i]
  <2>. HIDE DEF k
  <2>. QED BY ReplacedFacts, Zenon DEF k
<1>2. K[p].done /\ K[p].what = e /\ ~L[p].done /\ L[p].what = c
  BY <1>1 DEF Cell
<1>3. /\ InOrder(K) /\ OncePerKind(K) /\ Awaited(u, K)
      /\ \A i \in DOMAIN L : i # p /\ L[i].done => i < p
  BY ReplacedKeepsOrder, Zenon DEF SqlGood
<1>4. /\ \A i \in DOMAIN L : MutationAfter(L, i) => MutationAfter(K, i)
      /\ MutationAfter(L, 0) => MutationAfter(K, 0)
  BY <1>2, ReplacedKeepsDone, Zenon
<1>5. RefreshComes(K, r)
  BY <1>1, <1>2 DEF RefreshComes, Refreshes, Writes
<1>6. ASSUME NEW i \in DOMAIN K, Rows(K[i])
      PROVE  i \in DOMAIN L /\ i # p /\ K[i] = L[i] /\ L[i].done /\ Rows(L[i]) /\ i < p
  BY <1>6, <1>1, <1>2, <1>3 DEF Rows, Writes
<1>7. FlagsAreTrue(u, K, d2)
  <2>1. CASE e.type = "Mutated"
    <3>1. Mutation(K[p]) /\ e.watched = d2.watched
      BY <2>1, <1>2 DEF Mutation, Writes
    <3>2. ASSUME NEW i \in DOMAIN K, Mutation(K[i]) PROVE K[i].what.watched = d2.watched
      <4>1. Kind(K[i]) = "operation" /\ Kind(K[p]) = "operation"
        BY <3>1, <3>2 DEF Kind, Mutation
      <4>2. i = p
        BY <4>1, <1>1, <1>3 DEF OncePerKind
      <4>. QED BY <4>2, <3>1, <1>2
    <3>3. MutationAfter(K, 0)
      BY <3>1, <1>1 DEF MutationAfter
    <3>4. ASSUME NEW i \in DOMAIN K, Rows(K[i]) PROVE MutationAfter(K, i)
      <4>1. i < p
        BY <1>6, <3>4
      <4>2. p > i /\ p \in DOMAIN K
        BY <4>1, <1>1
      <4>. QED BY <4>2, <3>1 DEF MutationAfter
    <3>. QED BY <3>2, <3>3, <3>4 DEF FlagsAreTrue
  <2>2. CASE e.type # "Mutated"
    <3>1. d2.watched = d.watched /\ ~Mutation(K[p])
      BY <2>2, <1>2 DEF Writes, Mutation
    <3>2. ASSUME NEW i \in DOMAIN K, Mutation(K[i]) PROVE K[i].what.watched = d2.watched
      BY <3>2, <3>1, <1>1 DEF SqlGood, FlagsAreTrue
    <3>3. ASSUME NEW i \in DOMAIN K, Rows(K[i])
          PROVE  K[i].what.rows.data.watched = d2.watched \/ MutationAfter(K, i)
      BY <3>1, <3>3, <1>4, <1>6 DEF SqlGood, FlagsAreTrue
    <3>. QED BY <3>1, <3>2, <3>3, <1>4 DEF SqlGood, FlagsAreTrue
  <2>. QED BY <2>1, <2>2
<1>8. RowsAreTrue(u, K, d2, r)
  <2>1. ASSUME NEW i \in DOMAIN K, Rows(K[i]) PROVE K[i].what.rows.gen = K[i].what.gen
    BY <2>1, <1>6 DEF SqlGood, RowsAreTrue
  <2>. QED BY <2>1, <1>5 DEF SqlGood, RowsAreTrue
<1>9. SnapshotIsTrue(u, K, d2, r)
  BY <1>5 DEF SnapshotIsTrue
<1>. QED BY <1>3, <1>7, <1>8, <1>9 DEF SqlGood

(***************************************************************************)
(* A command is handed over: it is appended.                               *)
(***************************************************************************)
LEMMA AppendedFacts ==
    ASSUME NEW L, NEW K, NEW c, Appended(L, K, c)
    PROVE  \E q \in DOMAIN K : /\ \A i \in DOMAIN K : i = q \/ i \in DOMAIN L
                               /\ K[q] = c /\ DOMAIN L \subseteq DOMAIN K
                               /\ \A i \in DOMAIN L : K[i] = L[i] /\ i < q /\ ~(q < i)
<1>1. PICK n \in Nat : /\ DOMAIN L = 1..n /\ DOMAIN K = 1..(n + 1)
                       /\ K[n + 1] = c /\ \A i \in 1..n : K[i] = L[i]
  BY DEF Appended
<1>2. /\ n + 1 \in 1..(n + 1) /\ \A i \in 1..(n + 1) : i = n + 1 \/ i \in 1..n
      /\ \A i \in 1..n : i < n + 1 /\ ~(n + 1 < i)
      /\ 1..n \subseteq 1..(n + 1)
  OBVIOUS
<1>. HIDE DEF Appended
<1>3. /\ n + 1 \in DOMAIN K /\ \A i \in DOMAIN K : i = n + 1 \/ i \in DOMAIN L
      /\ K[n + 1] = c /\ DOMAIN L \subseteq DOMAIN K
      /\ \A i \in DOMAIN L : K[i] = L[i] /\ i < n + 1 /\ ~(n + 1 < i)
  BY <1>1, <1>2
<1>. QED BY <1>3

\* The window waits for command c, and for nothing else of its kind.
Expects(u, L, c) ==
    LET k == Cell(FALSE, c)
    IN /\ \A i \in DOMAIN L : Kind(L[i]) = Kind(k) => Kind(k) = "other"
       /\ Kind(k) = "operation" => u.busy
       /\ Kind(k) = "snapshot" => u.snapshot_loading
       /\ Kind(k) = "save" => u.save = [report |-> c.report, state |-> "Saving"]
       /\ c.type = "Query" => c.gen <= u.generation

LEMMA AppendedIsGood ==
    ASSUME NEW u, NEW L, NEW K, NEW c \in SqlCommands, NEW d, NEW r,
           Appended(L, K, Cell(FALSE, c)), Expects(u, L, c),
           InOrder(L), OncePerKind(L), Awaited(u, L), FlagsAreTrue(u, L, d),
           RowsAreTrue(u, L, d, r), SnapshotIsTrue(u, L, d, r) \/ c.type = "Snapshot"
    PROVE  SqlGood(u, K, d, r)
<1>. DEFINE k == Cell(FALSE, c)
<1>1. PICK q \in DOMAIN K : /\ \A i \in DOMAIN K : i = q \/ i \in DOMAIN L
                            /\ K[q] = k /\ DOMAIN L \subseteq DOMAIN K
                            /\ \A i \in DOMAIN L : K[i] = L[i] /\ i < q /\ ~(q < i)
  <2>1. Appended(L, K, k)
    OBVIOUS
  <2>. HIDE DEF k
  <2>. QED BY <2>1, AppendedFacts
<1>2. ~K[q].done /\ K[q].what = c /\ K[q] \in Cells
  BY <1>1 DEF Cell, Cells
<1>3. InOrder(K)
  <2>1. \A i \in DOMAIN K : K[i] \in Cells
    BY <1>1, <1>2 DEF InOrder
  <2>2. ASSUME NEW i \in DOMAIN K, NEW j \in DOMAIN K, i < j, K[j].done PROVE K[i].done
    <3>1. j \in DOMAIN L /\ i # q
      BY <2>2, <1>1, <1>2
    <3>2. i \in DOMAIN L /\ L[j].done /\ K[i] = L[i]
      BY <3>1, <2>2, <1>1
    <3>. QED BY <3>1, <3>2, <2>2 DEF InOrder
  <2>. QED BY <2>1, <2>2 DEF InOrder
<1>4. OncePerKind(K)
  <2>1. SUFFICES ASSUME NEW i \in DOMAIN K, NEW j \in DOMAIN K,
                        Kind(K[i]) = Kind(K[j]), Kind(K[i]) # "other"
                 PROVE  i = j
    BY DEF OncePerKind
  <2>2. CASE i \in DOMAIN L /\ j \in DOMAIN L
    BY <2>1, <2>2, <1>1 DEF OncePerKind
  <2>3. CASE i = q \/ j = q
    <3>1. \A m \in DOMAIN L : Kind(K[m]) = Kind(k) => Kind(k) = "other"
      BY <1>1 DEF Expects
    <3>2. K[q] = k /\ (i = q \/ i \in DOMAIN L) /\ (j = q \/ j \in DOMAIN L)
      BY <1>1
    <3>. HIDE DEF k
    <3>. QED BY <2>1, <2>3, <3>1, <3>2, Zenon
  <2>. QED BY <2>2, <2>3, <1>1
<1>5. Awaited(u, K)
  <2>1. SUFFICES ASSUME NEW i \in DOMAIN K
                 PROVE  /\ Kind(K[i]) = "operation" => u.busy
                        /\ Kind(K[i]) = "snapshot" => u.snapshot_loading
                        /\ Kind(K[i]) = "save" =>
                              u.save = [report |-> K[i].what.report, state |-> "Saving"]
                        /\ K[i].what.type \in {"Query", "Repositories"} =>
                              K[i].what.gen <= u.generation
    BY DEF Awaited
  <2>2. CASE i \in DOMAIN L
    <3>1. K[i] = L[i]
      BY <2>2, <1>1
    <3>. QED BY <3>1, <2>2, Zenon DEF Awaited
  <2>3. CASE i = q
    <3>1. c.type # "Repositories"
      BY SqlCommandFacts
    <3>. QED BY <2>3, <3>1, <1>1, <1>2 DEF Expects
  <2>. QED BY <2>2, <2>3, <1>1
<1>6. \A i : MutationAfter(L, i) => MutationAfter(K, i)
  <2>1. SUFFICES ASSUME NEW i, MutationAfter(L, i) PROVE MutationAfter(K, i)
    OBVIOUS
  <2>2. PICK j \in DOMAIN L : j > i /\ Mutation(L[j])
    BY <2>1 DEF MutationAfter
  <2>3. j \in DOMAIN K /\ K[j] = L[j]
    BY <1>1
  <2>. QED BY <2>2, <2>3 DEF MutationAfter
<1>7. RefreshComes(L, r) => RefreshComes(K, r)
  BY <1>1 DEF RefreshComes
<1>8. ASSUME NEW i \in DOMAIN K, K[i].done PROVE i \in DOMAIN L /\ K[i] = L[i]
  BY <1>8, <1>1, <1>2
<1>9. FlagsAreTrue(u, K, d)
  <2>1. ASSUME NEW i \in DOMAIN K, Mutation(K[i]) PROVE K[i].what.watched = d.watched
    BY <2>1, <1>8 DEF Mutation, FlagsAreTrue
  <2>2. ASSUME NEW i \in DOMAIN K, Rows(K[i])
        PROVE  K[i].what.rows.data.watched = d.watched \/ MutationAfter(K, i)
    <3>1. i \in DOMAIN L /\ K[i] = L[i]
      BY <2>2, <1>8 DEF Rows
    <3>. QED BY <3>1, <2>2, <1>6 DEF FlagsAreTrue
  <2>. QED BY <2>1, <2>2, <1>6 DEF FlagsAreTrue
<1>10. RowsAreTrue(u, K, d, r)
  <2>1. ASSUME NEW i \in DOMAIN K, Rows(K[i])
        PROVE  /\ K[i].what.rows.gen = K[i].what.gen
               /\ K[i].what.gen = u.generation =>
                     K[i].what.rows.data.version = d.version \/ RefreshComes(K, r)
    <3>1. i \in DOMAIN L /\ K[i] = L[i]
      BY <2>1, <1>8 DEF Rows
    <3>. QED BY <3>1, <2>1, <1>7 DEF RowsAreTrue
  <2>. QED BY <2>1, <1>7 DEF RowsAreTrue
<1>11. SnapshotIsTrue(u, K, d, r)
  <2>1. CASE c.type = "Snapshot"
    <3>1. Kind(K[q]) = "snapshot" /\ ~K[q].done
      BY <2>1, <1>2 DEF Kind
    <3>. QED BY <3>1 DEF SnapshotIsTrue
  <2>2. CASE SnapshotIsTrue(u, L, d, r) /\ c.type # "Snapshot"
    <3>1. Kind(K[q]) # "snapshot"
      BY <2>2, <1>2 DEF Kind
    <3>2. CASE u.snapshot_requested \/ RefreshComes(L, r)
      BY <3>2, <1>7 DEF SnapshotIsTrue
    <3>3. ASSUME NEW i \in DOMAIN L, Kind(L[i]) = "snapshot", L[i].done => Told(L[i].what.data, d)
          PROVE  SnapshotIsTrue(u, K, d, r)
      BY <3>3, <1>1 DEF SnapshotIsTrue
    <3>4. ASSUME \A i \in DOMAIN L : Kind(L[i]) # "snapshot",
                 ~u.snapshot_error => u.snapshot.version = d.version /\ u.snapshot.reports = d.reports
          PROVE  SnapshotIsTrue(u, K, d, r)
      <4>1. \A i \in DOMAIN K : Kind(K[i]) # "snapshot"
        BY <3>1, <3>4, <1>1
      <4>. QED BY <4>1, <3>4 DEF SnapshotIsTrue
    <3>. QED BY <2>2, <3>2, <3>3, <3>4 DEF SnapshotIsTrue
  <2>. QED BY <2>1, <2>2
<1>. QED BY <1>3, <1>4, <1>5, <1>9, <1>10, <1>11 DEF SqlGood

\* When a refresh comes from elsewhere the rows and the snapshot may be old.
LEMMA RefreshedIsGood ==
    ASSUME NEW u, NEW L, NEW d, NEW d2, NEW r, SqlGood(u, L, d, r), d2.watched = d.watched
    PROVE  SqlGood(u, L, d2, 1)
<1>1. RefreshComes(L, 1)
  BY DEF RefreshComes
<1>2. FlagsAreTrue(u, L, d2)
  BY DEF SqlGood, FlagsAreTrue
<1>3. RowsAreTrue(u, L, d2, 1)
  BY <1>1 DEF SqlGood, RowsAreTrue
<1>4. SnapshotIsTrue(u, L, d2, 1)
  BY <1>1 DEF SnapshotIsTrue
<1>. QED BY <1>2, <1>3, <1>4 DEF SqlGood

\* A new query.
LEMMA RequestIsGood ==
    ASSUME NEW u \in Window, NEW L, NEW d, NEW r, SqlGood(u, L, d, r)
    PROVE  SqlGood(RequestQuery(u), L, d, r)
<1>. DEFINE v == RequestQuery(u)
<1>1. /\ v.generation = u.generation + 1 /\ v.rows = None
      /\ v.snapshot_requested = u.snapshot_requested
      /\ SameElse(v, u) /\ u.generation \in Nat
  BY QueryFacts DEF Window
<1>. HIDE DEF v
<1>2. ASSUME NEW i \in DOMAIN L, L[i].what.type \in {"Query", "Repositories"}
      PROVE  L[i].what.gen <= v.generation /\ L[i].what.gen # v.generation
  <2>1. L[i].what.gen <= u.generation
    BY <1>2 DEF SqlGood, Awaited
  <2>2. L[i] \in Cells
    BY DEF SqlGood, InOrder
  <2>3. L[i].what.gen \in Nat
    BY <2>2, <1>2, CellFacts, SqlEventFacts, SqlCommandFacts
  <2>. QED BY <2>1, <2>3, <1>1
<1>3. Awaited(v, L)
  BY <1>1, <1>2 DEF SqlGood, Awaited, SameElse
<1>4. FlagsAreTrue(v, L, d)
  BY <1>1 DEF SqlGood, FlagsAreTrue, SameElse
<1>5. RowsAreTrue(v, L, d, r)
  BY <1>1, <1>2 DEF SqlGood, RowsAreTrue, Rows
<1>6. SnapshotIsTrue(v, L, d, r)
  BY <1>1 DEF SqlGood, SnapshotIsTrue, SameElse
<1>. QED BY <1>3, <1>4, <1>5, <1>6 DEF SqlGood, v

(***************************************************************************)
(* The line after each step.                                               *)
(***************************************************************************)
LEMMA LineReceived ==
    ASSUME NEW S, NEW T, NEW e \in Seq(S), e # <<>>, NEW h \in {0, 1}, NEW x, NEW s \in Seq(T)
    PROVE  /\ Removed(LineOf(e, h, x, s), LineOf(Tail(e), h, x, s), 1)
           /\ Heads(LineOf(e, h, x, s), Head(e))
<1>. DEFINE L == LineOf(e, h, x, s)
            K == LineOf(Tail(e), h, x, s)
            n == Len(e) + h + Len(s)
<1>1. /\ Len(e) \in Nat /\ Len(e) > 0 /\ Len(s) \in Nat /\ n \in Nat /\ 1 \in 1..n
      /\ Len(Tail(e)) = Len(e) - 1 /\ Len(Tail(e)) + h + Len(s) = n - 1
      /\ Head(e) = e[1] /\ \A i \in 1..(Len(e) - 1) : Tail(e)[i] = e[i + 1]
  OBVIOUS
<1>2. DOMAIN L = 1..n /\ DOMAIN K = 1..(n - 1)
  BY <1>1, Zenon DEF LineOf
<1>3. ASSUME NEW i \in 1..(n - 1) PROVE K[i] = L[i + 1]
  <2>1. i + 1 \in 1..n
    BY <1>1
  <2>2. L[i + 1] = IF i + 1 <= Len(e) THEN Cell(TRUE, e[i + 1])
                   ELSE IF i + 1 <= Len(e) + h THEN x
                   ELSE Cell(FALSE, s[i + 1 - Len(e) - h])
    BY <2>1 DEF LineOf
  <2>3. K[i] = IF i <= Len(Tail(e)) THEN Cell(TRUE, Tail(e)[i])
               ELSE IF i <= Len(Tail(e)) + h THEN x
               ELSE Cell(FALSE, s[i - Len(Tail(e)) - h])
    BY <1>1 DEF LineOf
  <2>4. /\ i + 1 <= Len(e) <=> i <= Len(Tail(e))
        /\ i + 1 <= Len(e) + h <=> i <= Len(Tail(e)) + h
        /\ i + 1 - Len(e) - h = i - Len(Tail(e)) - h
        /\ i <= Len(Tail(e)) => Tail(e)[i] = e[i + 1]
    BY <1>1
  <2>. QED BY <2>2, <2>3, <2>4
<1>4. L[1] = Cell(TRUE, Head(e))
  <2>1. 1 <= Len(e)
    BY <1>1
  <2>2. L[1] = IF 1 <= Len(e) THEN Cell(TRUE, e[1])
               ELSE IF 1 <= Len(e) + h THEN x
               ELSE Cell(FALSE, s[1 - Len(e) - h])
    BY <1>1, Zenon DEF LineOf
  <2>. HIDE DEF L
  <2>. QED BY <1>1, <2>1, <2>2, Zenon
<1>5. \A i \in 1..(n - 1) : K[i] = L[Up(i, 1)]
  BY <1>3 DEF Up
<1>. HIDE DEF L, K, n
<1>. QED BY <1>1, <1>2, <1>4, <1>5 DEF Removed, Heads, L, K

SqlLine(e, s) == e \in Seq(SqlEvents) /\ s \in Seq(SqlCommands)

LEMMA LineTaken ==
    ASSUME NEW e, NEW x, NEW s, SqlLine(e, s), s # <<>>
    PROVE  LineOf(e, 1, Cell(FALSE, Head(s)), Tail(s)) = LineOf(e, 0, x, s)
<1>. DEFINE L == LineOf(e, 0, x, s)
            K == LineOf(e, 1, Cell(FALSE, Head(s)), Tail(s))
            n == Len(e) + Len(s)
<1>1. /\ Len(e) \in Nat /\ Len(s) \in Nat /\ Len(s) > 0 /\ n \in Nat
      /\ Len(e) + 0 + Len(s) = n /\ Len(e) + 1 + Len(Tail(s)) = n
      /\ Head(s) = s[1] /\ \A i \in 1..(Len(s) - 1) : Tail(s)[i] = s[i + 1]
  BY DEF SqlLine
<1>2. ASSUME NEW i \in 1..n PROVE K[i] = L[i]
  <2>1. L[i] = IF i <= Len(e) THEN Cell(TRUE, e[i]) ELSE Cell(FALSE, s[i - Len(e)])
    BY <1>1 DEF LineOf
  <2>2. K[i] = IF i <= Len(e) THEN Cell(TRUE, e[i])
               ELSE IF i <= Len(e) + 1 THEN Cell(FALSE, s[1])
               ELSE Cell(FALSE, Tail(s)[i - Len(e) - 1])
    BY <1>1 DEF LineOf
  <2>3. /\ i <= Len(e) + 1 /\ ~(i <= Len(e)) => i - Len(e) = 1
        /\ ~(i <= Len(e) + 1) => Tail(s)[i - Len(e) - 1] = s[i - Len(e)]
    BY <1>1
  <2>. QED BY <2>1, <2>2, <2>3
<1>. QED BY <1>1, <1>2 DEF LineOf

LEMMA LineSkipped ==
    ASSUME NEW e, NEW x, NEW s, SqlLine(e, s), s # <<>>
    PROVE  /\ Removed(LineOf(e, 0, x, s), LineOf(e, 0, x, Tail(s)), Len(e) + 1)
           /\ LineOf(e, 0, x, s)[Len(e) + 1] = Cell(FALSE, Head(s))
<1>. DEFINE L == LineOf(e, 0, x, s)
            K == LineOf(e, 0, x, Tail(s))
            n == Len(e) + Len(s)
            p == Len(e) + 1
<1>1. /\ Len(e) \in Nat /\ Len(s) \in Nat /\ Len(s) > 0 /\ n \in Nat /\ p \in 1..n
      /\ Len(e) + 0 + Len(s) = n /\ Len(e) + 0 + Len(Tail(s)) = n - 1
      /\ Head(s) = s[1] /\ \A i \in 1..(Len(s) - 1) : Tail(s)[i] = s[i + 1]
  BY DEF SqlLine
<1>2. DOMAIN L = 1..n /\ DOMAIN K = 1..(n - 1)
  BY <1>1, Zenon DEF LineOf
<1>3. ASSUME NEW i \in 1..n
      PROVE  L[i] = IF i <= Len(e) THEN Cell(TRUE, e[i]) ELSE Cell(FALSE, s[i - Len(e)])
  BY <1>1 DEF LineOf
<1>4. ASSUME NEW i \in 1..(n - 1)
      PROVE  K[i] = IF i <= Len(e) THEN Cell(TRUE, e[i]) ELSE Cell(FALSE, Tail(s)[i - Len(e)])
  <2>1. i \in 1..(Len(e) + 0 + Len(Tail(s)))
    BY <1>1
  <2>2. K[i] = IF i <= Len(e) THEN Cell(TRUE, e[i])
               ELSE IF i <= Len(e) + 0 THEN x ELSE Cell(FALSE, Tail(s)[i - Len(e) - 0])
    BY <2>1, Zenon DEF LineOf
  <2>3. (i <= Len(e) + 0 <=> i <= Len(e)) /\ i - Len(e) - 0 = i - Len(e)
    BY <1>1
  <2>. HIDE DEF K
  <2>. QED BY <2>2, <2>3
<1>5. ASSUME NEW i \in 1..(n - 1) PROVE K[i] = L[Up(i, p)]
  <2>1. CASE i < p
    <3>1. i \in 1..n /\ i <= Len(e)
      BY <1>1, <2>1
    <3>. QED BY <3>1, <2>1, <1>3, <1>4 DEF Up
  <2>2. CASE ~(i < p)
    <3>1. /\ i + 1 \in 1..n /\ ~(i <= Len(e)) /\ ~(i + 1 <= Len(e))
          /\ i + 1 - Len(e) = i - Len(e) + 1
          /\ Tail(s)[i - Len(e)] = s[i - Len(e) + 1]
      BY <1>1, <2>2
    <3>2. Up(i, p) = i + 1
      BY <2>2 DEF Up
    <3>. HIDE DEF L, K
    <3>3. L[i + 1] = Cell(FALSE, s[i + 1 - Len(e)])
      <4>1. \A m \in 1..n : ~(m <= Len(e)) => L[m] = Cell(FALSE, s[m - Len(e)])
        BY <1>3, Zenon
      <4>2. PICK m \in 1..n : m = i + 1
        BY <3>1
      <4>3. ~(m <= Len(e)) /\ m - Len(e) = i + 1 - Len(e)
        BY <4>2, <3>1
      <4>4. L[m] = Cell(FALSE, s[m - Len(e)])
        BY <4>1, <4>3, Zenon
      <4>. HIDE DEF n
      <4>. QED BY <4>2, <4>3, <4>4
    <3>4. K[i] = Cell(FALSE, Tail(s)[i - Len(e)])
      BY <3>1, <1>4, Zenon
    <3>. QED BY <3>1, <3>2, <3>3, <3>4, Zenon
  <2>. QED BY <2>1, <2>2
<1>6. L[p] = Cell(FALSE, Head(s))
  <2>1. ~(p <= Len(e)) /\ p - Len(e) = 1
    BY <1>1
  <2>. HIDE DEF p, L
  <2>. QED BY <2>1, <1>1, <1>3, Zenon
<1>. HIDE DEF L, K, n, p
<1>7. Removed(L, K, p)
  BY <1>1, <1>2, <1>5 DEF Removed
<1>. QED BY <1>6, <1>7 DEF L, K, p

LEMMA LineDropped ==
    ASSUME NEW e, NEW x, NEW y, NEW s, SqlLine(e, s)
    PROVE  /\ Removed(LineOf(e, 1, x, s), LineOf(e, 0, y, s), Len(e) + 1)
           /\ LineOf(e, 1, x, s)[Len(e) + 1] = x
<1>. DEFINE L == LineOf(e, 1, x, s)
            K == LineOf(e, 0, y, s)
            n == Len(e) + 1 + Len(s)
            p == Len(e) + 1
<1>1. /\ Len(e) \in Nat /\ Len(s) \in Nat /\ n \in Nat /\ p \in 1..n
      /\ Len(e) + 0 + Len(s) = n - 1
  BY DEF SqlLine
<1>2. DOMAIN L = 1..n /\ DOMAIN K = 1..(n - 1)
  BY <1>1, Zenon DEF LineOf
<1>3. ASSUME NEW i \in 1..n
      PROVE  L[i] = IF i <= Len(e) THEN Cell(TRUE, e[i])
                    ELSE IF i <= Len(e) + 1 THEN x ELSE Cell(FALSE, s[i - Len(e) - 1])
  BY Zenon DEF LineOf
<1>4. ASSUME NEW i \in 1..(n - 1)
      PROVE  K[i] = IF i <= Len(e) THEN Cell(TRUE, e[i]) ELSE Cell(FALSE, s[i - Len(e)])
  <2>1. i \in 1..(Len(e) + 0 + Len(s))
    BY <1>1
  <2>2. K[i] = IF i <= Len(e) THEN Cell(TRUE, e[i])
               ELSE IF i <= Len(e) + 0 THEN y ELSE Cell(FALSE, s[i - Len(e) - 0])
    BY <2>1, Zenon DEF LineOf
  <2>3. (i <= Len(e) + 0 <=> i <= Len(e)) /\ i - Len(e) - 0 = i - Len(e)
    BY <1>1
  <2>. HIDE DEF K
  <2>. QED BY <2>2, <2>3
<1>5. ASSUME NEW i \in 1..(n - 1) PROVE K[i] = L[Up(i, p)]
  <2>1. CASE i < p
    <3>1. i \in 1..n /\ i <= Len(e)
      BY <1>1, <2>1
    <3>. QED BY <3>1, <2>1, <1>3, <1>4 DEF Up
  <2>2. CASE ~(i < p)
    <3>1. Up(i, p) = i + 1 /\ ~(i <= Len(e))
      BY <2>2, <1>1 DEF Up
    <3>2. PICK m \in 1..n : /\ m = i + 1 /\ ~(m <= Len(e)) /\ ~(m <= Len(e) + 1)
                            /\ m - Len(e) - 1 = i - Len(e)
      BY <1>1, <2>2
    <3>. HIDE DEF L, K
    <3>3. L[m] = Cell(FALSE, s[m - Len(e) - 1])
      BY <3>2, <1>3, Zenon
    <3>4. K[i] = Cell(FALSE, s[i - Len(e)])
      BY <3>1, <1>4, Zenon
    <3>. HIDE DEF n
    <3>. QED BY <3>1, <3>2, <3>3, <3>4
  <2>. QED BY <2>1, <2>2
<1>6. L[p] = x
  <2>1. ~(p <= Len(e)) /\ p <= Len(e) + 1
    BY <1>1
  <2>2. L[p] = IF p <= Len(e) THEN Cell(TRUE, e[p])
               ELSE IF p <= Len(e) + 1 THEN x ELSE Cell(FALSE, s[p - Len(e) - 1])
    <3>. HIDE DEF L, p
    <3>. QED BY <1>1, <1>3, Zenon
  <2>. HIDE DEF L, p
  <2>. QED BY <2>1, <2>2, Zenon
<1>. HIDE DEF L, K, n, p
<1>7. Removed(L, K, p)
  BY <1>1, <1>2, <1>5 DEF Removed
<1>. QED BY <1>6, <1>7 DEF L, K, p

LEMMA LineRun ==
    ASSUME NEW e, NEW x, NEW y, NEW s, SqlLine(e, s)
    PROVE  /\ Replaced(LineOf(e, 1, x, s), LineOf(e, 1, y, s), Len(e) + 1, y)
           /\ LineOf(e, 1, x, s)[Len(e) + 1] = x
           /\ \A i \in DOMAIN LineOf(e, 1, x, s) :
                 i < Len(e) + 1 => LineOf(e, 1, x, s)[i].done
<1>. DEFINE L == LineOf(e, 1, x, s)
            K == LineOf(e, 1, y, s)
            n == Len(e) + 1 + Len(s)
            p == Len(e) + 1
<1>1. Len(e) \in Nat /\ Len(s) \in Nat /\ n \in Nat /\ p \in 1..n
  BY DEF SqlLine
<1>2. DOMAIN L = 1..n /\ DOMAIN K = 1..n
  BY Zenon DEF LineOf
<1>3. ASSUME NEW i \in 1..n
      PROVE  /\ L[i] = IF i <= Len(e) THEN Cell(TRUE, e[i])
                       ELSE IF i <= Len(e) + 1 THEN x ELSE Cell(FALSE, s[i - Len(e) - 1])
             /\ K[i] = IF i <= Len(e) THEN Cell(TRUE, e[i])
                       ELSE IF i <= Len(e) + 1 THEN y ELSE Cell(FALSE, s[i - Len(e) - 1])
  BY Zenon DEF LineOf
<1>4. ~(p <= Len(e)) /\ p <= Len(e) + 1
  BY <1>1
<1>5. \A i \in 1..n : i # p => i <= Len(e) \/ ~(i <= Len(e) + 1)
  BY <1>1
<1>6. \A i \in 1..n : i < p => i <= Len(e)
  BY <1>1
<1>. HIDE DEF L, K, p
<1>7. L[p] = x /\ K[p] = y
  BY <1>1, <1>3, <1>4
<1>8. \A i \in 1..n \ {p} : K[i] = L[i]
  BY <1>3, <1>5
<1>9. \A i \in 1..n : i < p => L[i].done
  <2>1. ASSUME NEW i \in 1..n, i < p PROVE L[i].done
    <3>1. L[i] = Cell(TRUE, e[i])
      BY <2>1, <1>3, <1>6, Zenon
    <3>. QED BY <3>1 DEF Cell
  <2>. QED BY <2>1
<1>. HIDE DEF n
<1>10. Replaced(L, K, p, y)
  BY <1>1, <1>2, <1>7, <1>8 DEF Replaced
<1>. QED BY <1>2, <1>7, <1>9, <1>10 DEF L, K, p

LEMMA LineDelivered ==
    ASSUME NEW e, NEW v \in SqlEvents, NEW y, NEW s, SqlLine(e, s)
    PROVE  LineOf(Append(e, v), 0, y, s) = LineOf(e, 1, Cell(TRUE, v), s)
<1>. DEFINE L == LineOf(e, 1, Cell(TRUE, v), s)
            K == LineOf(Append(e, v), 0, y, s)
            f == Append(e, v)
            n == Len(e) + 1 + Len(s)
<1>1. /\ Len(e) \in Nat /\ Len(s) \in Nat /\ n \in Nat /\ Len(f) = Len(e) + 1
      /\ Len(f) + 0 + Len(s) = n
      /\ f[Len(e) + 1] = v /\ \A i \in 1..Len(e) : f[i] = e[i]
  <2>1. /\ Len(e) \in Nat /\ Len(s) \in Nat /\ Len(f) = Len(e) + 1
        /\ f[Len(e) + 1] = v /\ \A i \in 1..Len(e) : f[i] = e[i]
    BY DEF SqlLine
  <2>. HIDE DEF f
  <2>. QED BY <2>1
<1>2. DOMAIN L = 1..n /\ DOMAIN K = 1..n
  <2>1. DOMAIN L = 1..n /\ DOMAIN K = 1..(Len(f) + 0 + Len(s))
    BY Zenon DEF LineOf
  <2>. HIDE DEF K, L, f, n
  <2>. QED BY <2>1, <1>1, Zenon
<1>3. ASSUME NEW i \in 1..n PROVE K[i] = L[i]
  <2>1. L[i] = IF i <= Len(e) THEN Cell(TRUE, e[i])
               ELSE IF i <= Len(e) + 1 THEN Cell(TRUE, v) ELSE Cell(FALSE, s[i - Len(e) - 1])
    BY Zenon DEF LineOf
  <2>2. i \in 1..(Len(f) + 0 + Len(s))
    BY <1>1
  <2>3. K[i] = IF i <= Len(f) THEN Cell(TRUE, f[i])
               ELSE IF i <= Len(f) + 0 THEN y ELSE Cell(FALSE, s[i - Len(f) - 0])
    BY <2>2, Zenon DEF LineOf
  <2>. HIDE DEF f, L, K
  <2>4. CASE i <= Len(e)
    <3>1. i <= Len(f) /\ f[i] = e[i]
      BY <2>4, <1>1
    <3>. QED BY <2>1, <2>3, <2>4, <3>1, Zenon
  <2>5. CASE i = Len(e) + 1
    <3>1. i <= Len(f) /\ f[i] = v /\ ~(i <= Len(e)) /\ i <= Len(e) + 1
      BY <2>5, <1>1
    <3>. QED BY <2>1, <2>3, <3>1, Zenon
  <2>6. CASE ~(i <= Len(e) + 1)
    <3>1. /\ ~(i <= Len(f)) /\ ~(i <= Len(f) + 0) /\ ~(i <= Len(e))
          /\ i - Len(f) - 0 = i - Len(e) - 1
      BY <2>6, <1>1
    <3>. QED BY <2>1, <2>3, <2>6, <3>1, Zenon
  <2>. QED BY <2>4, <2>5, <2>6, <1>1
<1>4. K = [i \in 1..n |-> K[i]] /\ L = [i \in 1..n |-> L[i]]
  <2>1. K = [i \in DOMAIN K |-> K[i]] /\ L = [i \in DOMAIN L |-> L[i]]
    BY Zenon DEF LineOf
  <2>. HIDE DEF K, L
  <2>. QED BY <2>1, <1>2
<1>. HIDE DEF K, L, n
<1>5. K = L
  BY <1>3, <1>4
<1>. QED BY <1>5 DEF K, L

LEMMA LineSent ==
    ASSUME NEW S, NEW T, NEW e \in Seq(S), NEW h \in {0, 1}, NEW x, NEW s \in Seq(T), NEW c \in T
    PROVE  Appended(LineOf(e, h, x, s), LineOf(e, h, x, Append(s, c)), Cell(FALSE, c))
<1>. DEFINE t == Append(s, c)
            L == LineOf(e, h, x, s)
            K == LineOf(e, h, x, t)
            n == Len(e) + h + Len(s)
<1>1. /\ Len(e) \in Nat /\ Len(s) \in Nat /\ n \in Nat /\ Len(t) = Len(s) + 1
      /\ Len(e) + h + Len(t) = n + 1
      /\ t[Len(s) + 1] = c /\ \A i \in 1..Len(s) : t[i] = s[i]
  OBVIOUS
<1>. HIDE DEF t
<1>2. DOMAIN L = 1..n /\ DOMAIN K = 1..(n + 1)
  BY <1>1, Zenon DEF LineOf
<1>3. ASSUME NEW i \in 1..n
      PROVE  L[i] = IF i <= Len(e) THEN Cell(TRUE, e[i])
                    ELSE IF i <= Len(e) + h THEN x ELSE Cell(FALSE, s[i - Len(e) - h])
  BY Zenon DEF LineOf
<1>4. ASSUME NEW i \in 1..(n + 1)
      PROVE  K[i] = IF i <= Len(e) THEN Cell(TRUE, e[i])
                    ELSE IF i <= Len(e) + h THEN x ELSE Cell(FALSE, t[i - Len(e) - h])
  <2>1. i \in 1..(Len(e) + h + Len(t))
    BY <1>1
  <2>. QED BY <2>1, Zenon DEF LineOf
<1>5. ASSUME NEW i \in 1..n PROVE K[i] = L[i]
  <2>1. i \in 1..(n + 1)
    BY <1>1
  <2>2. ~(i <= Len(e)) /\ ~(i <= Len(e) + h) => t[i - Len(e) - h] = s[i - Len(e) - h]
    BY <1>1
  <2>. HIDE DEF L, K
  <2>. QED BY <2>1, <2>2, <1>3, <1>4, Zenon
<1>6. K[n + 1] = Cell(FALSE, c)
  <2>1. PICK m \in 1..(n + 1) : /\ m = n + 1 /\ ~(m <= Len(e)) /\ ~(m <= Len(e) + h)
                                /\ m - Len(e) - h = Len(s) + 1
    BY <1>1
  <2>. HIDE DEF L, K, n
  <2>2. K[m] = Cell(FALSE, t[m - Len(e) - h])
    BY <2>1, <1>4, Zenon
  <2>. QED BY <2>1, <2>2, <1>1
<1>. HIDE DEF L, K, n
<1>7. Appended(L, K, Cell(FALSE, c))
  BY <1>1, <1>2, <1>5, <1>6 DEF Appended
<1>. QED BY <1>7 DEF L, K, t

(***************************************************************************)
(* What a step that is about something else leaves as it is.               *)
(***************************************************************************)
LEMMA GoodWeaker ==
    ASSUME NEW u, NEW L, NEW d, NEW r, NEW r2, SqlGood(u, L, d, r), r = 1 => r2 = 1
    PROVE  SqlGood(u, L, d, r2)
<1>1. RefreshComes(L, r) => RefreshComes(L, r2)
  BY DEF RefreshComes
<1>2. RowsAreTrue(u, L, d, r2)
  BY <1>1 DEF SqlGood, RowsAreTrue
<1>3. SnapshotIsTrue(u, L, d, r2)
  BY <1>1 DEF SqlGood, SnapshotIsTrue
<1>. QED BY <1>2, <1>3 DEF SqlGood

LEMMA SqlFrame ==
    ASSUME SqlInv, SqlSame(w', w), in'.sql = in.sql, sql' = sql, out'.sql = out.sql, db' = db,
           ScanRefreshing => ScanRefreshing'
    PROVE  SqlInv'
<1>1. Line(out.sql)' = Line(out.sql)
  <2>1. Held' = Held /\ HeldCell' = HeldCell
    BY DEF Held, HeldCell
  <2>. QED BY <2>1, Zenon DEF Line
<1>2. SqlGood(w, Line(out.sql), db, ScanRefreshes')
  <2>1. ScanRefreshes = 1 => ScanRefreshes' = 1
    BY DEF ScanRefreshes
  <2>. QED BY <2>1, GoodWeaker, Zenon DEF SqlInv
<1>3. SqlGood(w', Line(out.sql), db, ScanRefreshes')
  BY <1>2, SqlGoodSame, Zenon
<1>. QED BY <1>1, <1>3 DEF SqlInv

LEMMA ScanFrame ==
    ASSUME ScanInv, scan' = scan, in'.scan = in.scan, out'.scan = out.scan,
           w'.pause_pending = w.pause_pending, w'.monitoring = w.monitoring
    PROVE  ScanInv' /\ (ScanRefreshing => ScanRefreshing')
BY DEF ScanInv, ScanGood, Alive, OnePause, PausesAgree, PauseTold, PauseHeld, PauseAsked,
       PauseEvent, ScanRefreshing

AuditSame(v, u) ==
    /\ v.auditing = u.auditing /\ v.audits = u.audits /\ v.save = u.save
    /\ v.asked = u.asked /\ v.cancelled = u.cancelled

LEMMA AuditFrame ==
    ASSUME AuditInv, audit' = audit, in'.audit = in.audit, out'.audit = out.audit,
           cancels' = cancels, db'.reports = db.reports, AuditSame(w', w)
    PROVE  AuditInv'
<1>1. OneAnalysis(w, out.audit)'
  BY DEF AuditInv, AuditGood, OneAnalysis, Working, AuditSame
<1>2. CancelsAreAsked(w, out.audit)'
  BY DEF AuditInv, AuditGood, CancelsAreAsked, AuditSame
<1>3. ReportsAreKept(w)'
  BY DEF AuditInv, AuditGood, ReportsAreKept, AuditSame
<1>. QED BY <1>1, <1>2, <1>3 DEF AuditInv, AuditGood

(***************************************************************************)
(* The window after an event of the sql worker.                            *)
(***************************************************************************)
Elsewhere(v, u) ==
    /\ v.detail = u.detail /\ v.audits = u.audits
    /\ v.pause_pending = u.pause_pending /\ v.monitoring = u.monitoring
    /\ v.auditing = u.auditing /\ v.asked = u.asked /\ v.cancelled = u.cancelled
Decided(v, u) ==
    \/ v.save = u.save
    \/ /\ u.save.state = "Saving" /\ v.save.state \in {"Saved", "Failed"}
       /\ v.save.report = u.save.report

LEMMA SettersFacts ==
    ASSUME NEW u \in Window
    PROVE  /\ \A b \in BOOLEAN : LET v == [u EXCEPT !.busy = b]
                                 IN v \in Window /\ v.changes = u.changes /\ v.save = u.save
                                    /\ Elsewhere(v, u)
           /\ \A s \in {None} \cup BOOLEAN :
                 LET v == [u EXCEPT !.busy = FALSE, !.selected = s]
                 IN v \in Window /\ v.changes = u.changes /\ v.save = u.save /\ Elsewhere(v, u)
           /\ \A s \in [report: 0..MaxClicks, state: {"none", "Queued", "Saving", "Saved", "Failed"}] :
                 LET v == [u EXCEPT !.save = s]
                 IN v \in Window /\ v.changes = u.changes /\ v.save = s /\ Elsewhere(v, u)
<1>1. ASSUME NEW b \in BOOLEAN
      PROVE  LET v == [u EXCEPT !.busy = b]
             IN v \in Window /\ v.changes = u.changes /\ v.save = u.save /\ Elsewhere(v, u)
  <2>1. [u EXCEPT !.busy = b] \in Window
    BY DEF Window
  <2>. QED BY <2>1 DEF Window, Elsewhere
<1>2. ASSUME NEW s \in {None} \cup BOOLEAN
      PROVE  LET v == [u EXCEPT !.busy = FALSE, !.selected = s]
             IN v \in Window /\ v.changes = u.changes /\ v.save = u.save /\ Elsewhere(v, u)
  <2>1. [u EXCEPT !.busy = FALSE, !.selected = s] \in Window
    BY DEF Window
  <2>. QED BY <2>1 DEF Window, Elsewhere
<1>3. ASSUME NEW s \in [report: 0..MaxClicks, state: {"none", "Queued", "Saving", "Saved", "Failed"}]
      PROVE  LET v == [u EXCEPT !.save = s]
             IN v \in Window /\ v.changes = u.changes /\ v.save = s /\ Elsewhere(v, u)
  <2>1. [u EXCEPT !.save = s] \in Window
    BY DEF Window
  <2>. QED BY <2>1 DEF Window, Elsewhere
<1>. QED BY <1>1, <1>2, <1>3, Zenon

LEMMA RefreshElsewhere ==
    ASSUME NEW u \in Window
    PROVE  /\ Refresh(u) \in Window /\ Refresh(u).changes = u.changes /\ Refresh(u).save = u.save
           /\ Elsewhere(Refresh(u), u)
BY RefreshFacts DEF SameElse, Elsewhere

LEMMA OnSqlWindow ==
    ASSUME NEW u \in Window, NEW e \in SqlEvents, u.changes # 0 => u.changes = u.detail
    PROVE  /\ OnSql(u, e) \in Window /\ Elsewhere(OnSql(u, e), u) /\ Decided(OnSql(u, e), u)
           /\ OnSql(u, e).changes # 0 => OnSql(u, e).changes = u.detail
<1>0. Elsewhere(u, u) /\ Decided(u, u)
  BY DEF Elsewhere, Decided
<1>1. CASE e.type = "Repositories"
  <2>1. CASE e.gen # u.generation
    BY <1>0, <1>1, <2>1 DEF OnSql
  <2>2. CASE e.gen = u.generation
    <3>. DEFINE v == [u EXCEPT !.loading = FALSE, !.rows = e.rows,
                               !.selected = IF @ = None \/ e.rows = None THEN @
                                            ELSE e.rows.data.watched]
    <3>1. OnSql(u, e) = v
      BY <1>1, <2>2 DEF OnSql
    <3>2. PICK rows \in {None} \cup [gen: Nat, data: Data] : rows = e.rows
      BY <1>1, SqlEventFacts
    <3>3. PICK s \in {None} \cup BOOLEAN :
             s = IF u.selected = None \/ e.rows = None THEN u.selected ELSE e.rows.data.watched
      BY <3>2 DEF Window, Data
    <3>4. v = [u EXCEPT !.loading = FALSE, !.rows = rows, !.selected = s]
      BY <3>2, <3>3
    <3>5. v \in Window
      <4>1. \A a \in {None} \cup [gen: Nat, data: Data], b \in {None} \cup BOOLEAN :
               [u EXCEPT !.loading = FALSE, !.rows = a, !.selected = b] \in Window
        BY DEF Window
      <4>. QED BY <3>4, <4>1, Zenon
    <3>6. v.save = u.save /\ v.changes = u.changes /\ Elsewhere(v, u)
      BY <3>4 DEF Window, Elsewhere
    <3>. HIDE DEF v
    <3>. QED BY <3>1, <3>5, <3>6 DEF Decided
  <2>. QED BY <2>1, <2>2
<1>2. CASE e.type = "Snapshot"
  <2>. DEFINE v == [u EXCEPT !.snapshot_loading = FALSE, !.snapshot_error = e.data = None,
                             !.snapshot = IF e.data = None THEN @ ELSE e.data]
  <2>1. OnSql(u, e) = v
    BY <1>2 DEF OnSql
  <2>2. PICK s \in {None} \cup [version: Nat, reports: SUBSET Audits] :
           s = IF e.data = None THEN u.snapshot ELSE e.data
    BY <1>2, SqlEventFacts DEF Window
  <2>3. PICK b \in BOOLEAN : b = (e.data = None)
    OBVIOUS
  <2>4. v = [u EXCEPT !.snapshot_loading = FALSE, !.snapshot_error = b, !.snapshot = s]
    BY <2>2, <2>3
  <2>5. v \in Window
    <3>1. \A a \in {None} \cup [version: Nat, reports: SUBSET Audits], c \in BOOLEAN :
             [u EXCEPT !.snapshot_loading = FALSE, !.snapshot_error = c, !.snapshot = a] \in Window
      BY DEF Window
    <3>. QED BY <2>4, <3>1, Zenon
  <2>6. v.save = u.save /\ v.changes = u.changes /\ Elsewhere(v, u)
    BY <2>4 DEF Window, Elsewhere
  <2>. HIDE DEF v
  <2>. QED BY <2>1, <2>5, <2>6 DEF Decided
<1>3. CASE e.type = "Changes"
  <2>1. CASE e.gen # u.detail \/ u.selected = None
    BY <1>0, <1>3, <2>1 DEF OnSql
  <2>2. CASE ~(e.gen # u.detail \/ u.selected = None)
    <3>. DEFINE v == [u EXCEPT !.changes_loading = FALSE, !.changes = IF e.ok THEN e.gen ELSE @]
    <3>1. OnSql(u, e) = v
      BY <1>3, <2>2 DEF OnSql
    <3>2. PICK n \in 0..MaxClicks : n = IF e.ok THEN e.gen ELSE u.changes
      BY <1>3, SqlEventFacts DEF Window
    <3>3. v = [u EXCEPT !.changes_loading = FALSE, !.changes = n]
      BY <3>2
    <3>4. v \in Window
      <4>1. \A a \in 0..MaxClicks : [u EXCEPT !.changes_loading = FALSE, !.changes = a] \in Window
        BY DEF Window
      <4>. QED BY <3>3, <4>1, Zenon
    <3>5. v.save = u.save /\ v.changes = n /\ Elsewhere(v, u)
      BY <3>3 DEF Window, Elsewhere
    <3>6. n # 0 => n = u.detail
      BY <3>2, <2>2
    <3>. HIDE DEF v
    <3>. QED BY <3>1, <3>4, <3>5, <3>6 DEF Decided
  <2>. QED BY <2>1, <2>2
<1>4. CASE e.type \in {"Mutated", "Completed"}
  <2>1. CASE ~e.ok
    <3>1. OnSql(u, e) = [u EXCEPT !.busy = FALSE]
      BY <1>4, <2>1 DEF OnSql
    <3>. QED BY <3>1, SettersFacts DEF Decided
  <2>2. CASE e.ok
    <3>1. PICK s \in {None} \cup BOOLEAN :
             OnSql(u, e) = Refresh([u EXCEPT !.busy = FALSE, !.selected = s])
      <4>1. CASE e.type = "Mutated"
        <5>1. PICK s \in {None} \cup BOOLEAN : s = IF u.selected = None THEN None ELSE e.watched
          BY <4>1, SqlEventFacts
        <5>. QED BY <5>1, <4>1, <2>2 DEF OnSql
      <4>2. CASE e.type = "Completed"
        <5>1. [u EXCEPT !.busy = FALSE] = [u EXCEPT !.busy = FALSE, !.selected = u.selected]
          BY DEF Window
        <5>2. u.selected \in {None} \cup BOOLEAN
          BY DEF Window
        <5>3. OnSql(u, e) = Refresh([u EXCEPT !.busy = FALSE])
          BY <4>2, <2>2 DEF OnSql
        <5>. QED BY <5>1, <5>2, <5>3, Zenon
      <4>. QED BY <1>4, <4>1, <4>2
    <3>. DEFINE v == [u EXCEPT !.busy = FALSE, !.selected = s]
    <3>2. v \in Window /\ v.changes = u.changes /\ v.save = u.save /\ Elsewhere(v, u)
      BY SettersFacts
    <3>3. OnSql(u, e) = Refresh(v)
      BY <3>1
    <3>. HIDE DEF v
    <3>. QED BY <3>2, <3>3, RefreshElsewhere DEF Elsewhere, Decided
  <2>. QED BY <2>1, <2>2
<1>5. CASE e.type = "ReportSaved"
  <2>1. CASE u.save # [report |-> e.report, state |-> "Saving"]
    BY <1>0, <1>5, <2>1 DEF OnSql
  <2>2. CASE u.save = [report |-> e.report, state |-> "Saving"]
    <3>1. PICK s \in [report: 0..MaxClicks, state: {"none", "Queued", "Saving", "Saved", "Failed"}] :
             /\ s.state \in {"Saved", "Failed"} /\ s.report = u.save.report
             /\ OnSql(u, e) = IF e.ok THEN Refresh([u EXCEPT !.save = s]) ELSE [u EXCEPT !.save = s]
      <4>1. u.save \in [report: 0..MaxClicks, state: {"none", "Queued", "Saving", "Saved", "Failed"}]
        BY DEF Window
      <4>. DEFINE a == [u.save EXCEPT !.state = "Saved"]
                  b == [u.save EXCEPT !.state = "Failed"]
      <4>2. /\ a \in [report: 0..MaxClicks, state: {"none", "Queued", "Saving", "Saved", "Failed"}]
            /\ b \in [report: 0..MaxClicks, state: {"none", "Queued", "Saving", "Saved", "Failed"}]
            /\ a.state = "Saved" /\ b.state = "Failed"
            /\ a.report = u.save.report /\ b.report = u.save.report
        BY <4>1
      <4>3. OnSql(u, e) = IF e.ok THEN Refresh([u EXCEPT !.save = a]) ELSE [u EXCEPT !.save = b]
        BY <1>5, <2>2 DEF OnSql
      <4>. HIDE DEF a, b
      <4>. QED BY <4>2, <4>3
    <3>. DEFINE v == [u EXCEPT !.save = s]
    <3>2. v \in Window /\ v.changes = u.changes /\ v.save = s /\ Elsewhere(v, u)
      BY SettersFacts
    <3>3. OnSql(u, e) = IF e.ok THEN Refresh(v) ELSE v
      BY <3>1
    <3>4. Decided(v, u)
      BY <3>1, <3>2, <2>2 DEF Decided
    <3>. HIDE DEF v
    <3>. QED BY <3>2, <3>3, <3>4, RefreshElsewhere DEF Elsewhere, Decided
  <2>. QED BY <2>1, <2>2
<1>. QED BY <1>1, <1>2, <1>3, <1>4, <1>5, SqlEventFacts

(***************************************************************************)
(* The steps of the window.                                                *)
(***************************************************************************)
LEMMA TailFacts ==
    ASSUME NEW S, NEW s \in Seq(S), s # <<>>
    PROVE  /\ Head(s) \in S /\ Tail(s) \in Seq(S) /\ 1 \in DOMAIN s /\ Head(s) = s[1]
           /\ Len(s) \in Nat /\ Len(s) > 0 /\ Len(Tail(s)) = Len(s) - 1
           /\ \A i \in DOMAIN Tail(s) : i + 1 \in DOMAIN s /\ i + 1 # 1 /\ Tail(s)[i] = s[i + 1]
           /\ \A i, j \in DOMAIN Tail(s) : i + 1 = j + 1 => i = j
           /\ \A j \in DOMAIN s : j # 1 => \E i \in DOMAIN Tail(s) : j = i + 1
<1>1. /\ Head(s) \in S /\ Tail(s) \in Seq(S) /\ 1 \in DOMAIN s /\ Head(s) = s[1]
      /\ Len(s) \in Nat /\ Len(s) > 0 /\ Len(Tail(s)) = Len(s) - 1
      /\ DOMAIN s = 1..Len(s) /\ DOMAIN Tail(s) = 1..(Len(s) - 1)
  OBVIOUS
<1>2. \A i \in 1..(Len(s) - 1) : Tail(s)[i] = s[i + 1]
  OBVIOUS
<1>3. PICK n \in Nat : n = Len(s)
  BY <1>1
<1>4. /\ \A i \in 1..(n - 1) : i + 1 \in 1..n /\ i + 1 # 1
      /\ \A i, j \in 1..(n - 1) : i + 1 = j + 1 => i = j
      /\ \A j \in 1..n : j # 1 => j - 1 \in 1..(n - 1) /\ j = (j - 1) + 1
  OBVIOUS
<1>. QED BY <1>1, <1>2, <1>3, <1>4

LEMMA AppendFacts ==
    ASSUME NEW S, NEW s \in Seq(S), NEW v \in S
    PROVE  /\ Append(s, v) \in Seq(S) /\ Len(s) \in Nat /\ Len(Append(s, v)) = Len(s) + 1
           /\ \A i \in DOMAIN Append(s, v) :
                 \/ i \in DOMAIN s /\ Append(s, v)[i] = s[i]
                 \/ i = Len(s) + 1 /\ Append(s, v)[i] = v
           /\ \A i \in DOMAIN s : i \in DOMAIN Append(s, v) /\ Append(s, v)[i] = s[i]
           /\ Len(s) + 1 \in DOMAIN Append(s, v) /\ Append(s, v)[Len(s) + 1] = v
           /\ Len(s) + 1 \notin DOMAIN s
OBVIOUS

LEMMA ReceiveSqlKeeps ==
    ASSUME IInv, ReceiveSql
    PROVE  Counters' /\ WorkersTyped' /\ stop' = FALSE /\ Good'
<1>. DEFINE e == Head(in.sql)
<1>1. /\ ~stop /\ in.sql # <<>> /\ in' = [in EXCEPT !.sql = Tail(@)]
      /\ w' = OnSql(w, e) /\ latest' = w'.generation
      /\ UNCHANGED <<turn, out, cancels, stop, sql, scan, audit, db, clicks, cycles, errors, user>>
  BY DEF ReceiveSql, Receive
<1>2. Counters /\ WorkersTyped /\ Good
  BY <1>1 DEF IInv
<1>3. /\ in'.sql = Tail(in.sql) /\ in'.scan = in.scan /\ in'.audit = in.audit
      /\ in' \in [sql: Seq(SqlEvents), scan: Seq(ScanEvents), audit: Seq(AuditEvents)]
      /\ Len(in'.sql) <= Len(in.sql) /\ e \in SqlEvents /\ in.sql \in Seq(SqlEvents)
  <2>1. in \in [sql: Seq(SqlEvents), scan: Seq(ScanEvents), audit: Seq(AuditEvents)]
    BY <1>2 DEF WorkersTyped
  <2>2. in.sql \in Seq(SqlEvents)
    BY <2>1
  <2>. DEFINE t == Tail(in.sql)
  <2>3. t \in Seq(SqlEvents) /\ e \in SqlEvents /\ Len(in.sql) \in Nat /\ Len(t) = Len(in.sql) - 1
    BY <1>1, <2>2, TailFacts, Zenon
  <2>4. in' = [in EXCEPT !.sql = t] /\ t = Tail(in.sql)
    BY <1>1
  <2>. HIDE DEF t, e
  <2>5. /\ in'.sql = t /\ in'.scan = in.scan /\ in'.audit = in.audit
        /\ in' \in [sql: Seq(SqlEvents), scan: Seq(ScanEvents), audit: Seq(AuditEvents)]
    BY <2>1, <2>3, <2>4
  <2>6. Len(t) <= Len(in.sql)
    BY <2>3
  <2>. QED BY <2>2, <2>3, <2>4, <2>5, <2>6, Zenon
<1>4. w \in Window /\ (w.changes # 0 => w.changes = w.detail)
  BY <1>2 DEF Good, WindowInv, WindowGood
<1>. HIDE DEF e
<1>5. /\ w' \in Window /\ Elsewhere(w', w) /\ Decided(w', w)
      /\ w'.changes # 0 => w'.changes = w.detail
  BY <1>1, <1>3, <1>4, OnSqlWindow, Zenon
<1>6. Counters'
  BY <1>1, <1>2, <1>5 DEF Counters, Window
<1>7. WorkersTyped'
  <2>1. Len(in'.sql) <= Events
    <3>1. Len(in.sql) \in Nat /\ Len(in'.sql) \in Nat
      BY <1>3
    <3>2. Len(in.sql) <= Events /\ Events \in Nat
      BY <1>2, DesktopAssumption DEF WorkersTyped
    <3>. QED BY <1>3, <3>1, <3>2
  <2>. QED BY <1>1, <1>2, <1>3, <2>1 DEF WorkersTyped
<1>8. WindowInv'
  BY <1>1, <1>2, <1>5 DEF Good, WindowInv, WindowGood, Elsewhere
<1>9. QueuesInv'
  BY <1>1, <1>2 DEF Good, QueuesInv
<1>10. SqlInv'
  <2>. DEFINE L == LineOf(in.sql, Held, HeldCell, out.sql)
              K == LineOf(Tail(in.sql), Held, HeldCell, out.sql)
  <2>1. Removed(L, K, 1) /\ Heads(L, e)
    <3>1. Held \in {0, 1} /\ out.sql \in Seq(SqlCommands)
      BY <1>2 DEF Held, Good, QueuesInv, Queues
    <3>. QED BY <1>1, <1>3, <3>1, LineReceived, Zenon DEF e
  <2>2. Line(out.sql) = L
    BY DEF Line
  <2>3. Line(out.sql)' = K
    <3>1. Held' = Held /\ HeldCell' = HeldCell
      BY <1>1 DEF Held, HeldCell
    <3>. QED BY <1>1, <1>3, <3>1, Zenon DEF Line
  <2>4. ScanRefreshes' = ScanRefreshes
    BY <1>1, <1>3 DEF ScanRefreshes, ScanRefreshing
  <2>. HIDE DEF L, K
  <2>5. SqlGood(w, L, db, ScanRefreshes)
    BY <1>2, <2>2 DEF Good, SqlInv
  <2>6. SqlGood(OnSql(w, e), K, db, ScanRefreshes)
    BY <1>3, <1>4, <2>1, <2>5, OnSqlIsGood, Zenon
  <2>. QED BY <1>1, <2>3, <2>4, <2>6 DEF SqlInv
<1>11. ScanInv'
  BY <1>1, <1>2, <1>3, <1>5, ScanFrame DEF Good, Elsewhere
<1>12. AuditInv'
  <2>1. OneAnalysis(w, out.audit)'
    BY <1>1, <1>2, <1>3, <1>5 DEF Good, AuditInv, AuditGood, OneAnalysis, Working, Elsewhere
  <2>2. CancelsAreAsked(w, out.audit)'
    BY <1>1, <1>2, <1>3, <1>5 DEF Good, AuditInv, AuditGood, CancelsAreAsked, Elsewhere
  <2>3. ReportsAreKept(w)'
    <3>1. w'.save.report = w.save.report /\ (w'.save = w.save \/ w.save # NoSave)
      BY <1>5 DEF Decided, NoSave
    <3>2. w'.save.state \in {"Queued", "Saving", "Failed"} =>
             w.save.state \in {"Queued", "Saving", "Failed"}
      BY <1>5 DEF Decided
    <3>. QED BY <1>1, <1>2, <1>5, <3>1, <3>2 DEF Good, AuditInv, AuditGood, ReportsAreKept, Elsewhere
  <2>. QED BY <2>1, <2>2, <2>3 DEF AuditInv, AuditGood
<1>. QED BY <1>1, <1>6, <1>7, <1>8, <1>9, <1>10, <1>11, <1>12 DEF Good

LEMMA ScanEventFacts ==
    ASSUME NEW e \in ScanEvents
    PROVE  /\ e.type \in {"Ready", "Started", "Finished", "Error", "Paused"}
           /\ e.type = "Paused" => e.value \in BOOLEAN
BY DEF ScanEvents

\* Nothing about the details, the analyses and the reports.
DetailSame(v, u) == v.detail = u.detail /\ v.changes = u.changes /\ AuditSame(v, u)

LEMMA OnScanWindow ==
    ASSUME NEW u \in Window, NEW e \in ScanEvents
    PROVE  /\ OnScan(u, e) \in Window /\ DetailSame(OnScan(u, e), u)
           /\ PauseEvent(e) => /\ OnScan(u, e).monitoring = ~e.value
                               /\ OnScan(u, e).pause_pending = FALSE
           /\ ~PauseEvent(e) => /\ OnScan(u, e).monitoring = u.monitoring
                                /\ OnScan(u, e).pause_pending = u.pause_pending
           /\ e.type \notin {"Finished", "Error"} => SqlSame(OnScan(u, e), u)
<1>1. CASE e.type = "Ready"
  <2>. DEFINE v == [u EXCEPT !.ready = TRUE]
  <2>1. OnScan(u, e) = v
    BY <1>1 DEF OnScan
  <2>2. v \in Window
    BY DEF Window
  <2>3. DetailSame(v, u) /\ SqlSame(v, u) /\ v.monitoring = u.monitoring
        /\ v.pause_pending = u.pause_pending
    BY DEF Window, DetailSame, AuditSame, SqlSame
  <2>. HIDE DEF v
  <2>. QED BY <1>1, <2>1, <2>2, <2>3 DEF PauseEvent
<1>2. CASE e.type = "Started"
  <2>. DEFINE v == [u EXCEPT !.scanning = TRUE]
  <2>1. OnScan(u, e) = v
    BY <1>2 DEF OnScan
  <2>2. v \in Window
    BY DEF Window
  <2>3. DetailSame(v, u) /\ SqlSame(v, u) /\ v.monitoring = u.monitoring
        /\ v.pause_pending = u.pause_pending
    BY DEF Window, DetailSame, AuditSame, SqlSame
  <2>. HIDE DEF v
  <2>. QED BY <1>2, <2>1, <2>2, <2>3 DEF PauseEvent
<1>3. CASE e.type = "Paused"
  <2>1. PICK b \in BOOLEAN : b = ~e.value
    BY <1>3, ScanEventFacts
  <2>. DEFINE v == [u EXCEPT !.pause_pending = FALSE, !.monitoring = b]
  <2>2. OnScan(u, e) = v
    BY <1>3, <2>1 DEF OnScan
  <2>3. v \in Window
    BY DEF Window
  <2>4. DetailSame(v, u) /\ SqlSame(v, u) /\ v.monitoring = b /\ v.pause_pending = FALSE
    BY DEF Window, DetailSame, AuditSame, SqlSame
  <2>. HIDE DEF v
  <2>. QED BY <1>3, <2>1, <2>2, <2>3, <2>4 DEF PauseEvent
<1>4. CASE e.type \in {"Finished", "Error"}
  <2>. DEFINE v == [u EXCEPT !.scanning = FALSE]
  <2>1. OnScan(u, e) = Refresh(v)
    BY <1>4 DEF OnScan
  <2>2. v \in Window
    BY DEF Window
  <2>3. DetailSame(v, u) /\ v.monitoring = u.monitoring /\ v.pause_pending = u.pause_pending
    BY DEF Window, DetailSame, AuditSame
  <2>. HIDE DEF v
  <2>4. /\ Refresh(v) \in Window /\ DetailSame(Refresh(v), u)
        /\ Refresh(v).monitoring = u.monitoring /\ Refresh(v).pause_pending = u.pause_pending
    BY <2>2, <2>3, RefreshFacts DEF SameElse, DetailSame, AuditSame
  <2>5. ~PauseEvent(e)
    BY <1>4 DEF PauseEvent
  <2>. QED BY <1>4, <2>1, <2>4, <2>5, Zenon
<1>. QED BY <1>1, <1>2, <1>3, <1>4, ScanEventFacts

LEMMA ScanRefreshIsGood ==
    ASSUME NEW u \in Window, NEW e \in ScanEvents, e.type \in {"Finished", "Error"},
           NEW L, NEW d, NEW r, NEW r2, SqlGood(u, L, d, r)
    PROVE  SqlGood(OnScan(u, e), L, d, r2)
<1>. DEFINE v == [u EXCEPT !.scanning = FALSE]
<1>1. OnScan(u, e) = Refresh(v)
  BY DEF OnScan
<1>2. v \in Window
  BY DEF Window
<1>3. SqlSame(v, u)
  BY DEF Window, SqlSame
<1>. HIDE DEF v
<1>4. SqlGood(v, L, d, r)
  BY <1>3, SqlGoodSame
<1>5. CellsAreTrue(L, d)
  BY DEF SqlGood, FlagsAreTrue, RowsAreTrue, CellsAreTrue
<1>6. InOrder(L) /\ OncePerKind(L) /\ Awaited(v, L)
      /\ (v.selected # None => v.selected = d.watched \/ MutationAfter(L, 0))
  BY <1>4 DEF SqlGood, FlagsAreTrue
<1>. QED BY <1>1, <1>2, <1>5, <1>6, RefreshIsGood

LEMMA ReceiveScanKeeps ==
    ASSUME IInv, ReceiveScan
    PROVE  Counters' /\ WorkersTyped' /\ stop' = FALSE /\ Good'
<1>. DEFINE e == Head(in.scan)
            t == Tail(in.scan)
<1>1. /\ ~stop /\ in.scan # <<>> /\ in' = [in EXCEPT !.scan = t]
      /\ w' = OnScan(w, e) /\ latest' = w'.generation
      /\ UNCHANGED <<turn, out, cancels, stop, sql, scan, audit, db, clicks, cycles, errors, user>>
  BY DEF ReceiveScan, Receive
<1>2. Counters /\ WorkersTyped /\ Good
  BY <1>1 DEF IInv
<1>3. /\ in.scan \in Seq(ScanEvents)
      /\ in \in [sql: Seq(SqlEvents), scan: Seq(ScanEvents), audit: Seq(AuditEvents)]
  BY <1>2 DEF WorkersTyped
<1>4. /\ t \in Seq(ScanEvents) /\ e \in ScanEvents /\ Len(in.scan) \in Nat /\ Len(in.scan) > 0
      /\ Len(t) = Len(in.scan) - 1
      /\ 1 \in DOMAIN in.scan /\ e = in.scan[1]
      /\ \A i \in DOMAIN t : i + 1 \in DOMAIN in.scan /\ i + 1 # 1 /\ t[i] = in.scan[i + 1]
      /\ \A i, j \in DOMAIN t : i + 1 = j + 1 => i = j
      /\ \A j \in DOMAIN in.scan : j # 1 => \E i \in DOMAIN t : j = i + 1
  <2>1. in.scan \in Seq(ScanEvents) /\ in.scan # <<>>
    BY <1>1, <1>3
  <2>. QED BY <2>1, TailFacts
<1>. HIDE DEF e, t
<1>5. /\ in'.scan = t /\ in'.sql = in.sql /\ in'.audit = in.audit
      /\ in' \in [sql: Seq(SqlEvents), scan: Seq(ScanEvents), audit: Seq(AuditEvents)]
  BY <1>1, <1>3, <1>4
<1>6. w \in Window
  BY <1>2 DEF Good, WindowInv, WindowGood
<1>7. /\ w' \in Window /\ DetailSame(w', w)
      /\ PauseEvent(e) => w'.monitoring = ~e.value /\ w'.pause_pending = FALSE
      /\ ~PauseEvent(e) => w'.monitoring = w.monitoring /\ w'.pause_pending = w.pause_pending
      /\ e.type \notin {"Finished", "Error"} => SqlSame(w', w)
  BY <1>1, <1>4, <1>6, OnScanWindow
<1>8. Counters'
  BY <1>1, <1>2, <1>7 DEF Counters, Window
<1>9. WorkersTyped'
  <2>1. Len(t) <= Events
    BY <1>2, <1>4, DesktopAssumption DEF WorkersTyped
  <2>. QED BY <1>1, <1>2, <1>5, <2>1 DEF WorkersTyped
<1>10. WindowInv'
  BY <1>1, <1>2, <1>7 DEF Good, WindowInv, WindowGood, DetailSame, AuditSame
<1>11. QueuesInv'
  BY <1>1, <1>2 DEF Good, QueuesInv
<1>12. SqlInv'
  <2>1. CASE e.type \in {"Finished", "Error"}
    <3>1. Line(out.sql)' = Line(out.sql)
      <4>1. Held' = Held /\ HeldCell' = HeldCell
        BY <1>1 DEF Held, HeldCell
      <4>. QED BY <1>1, <1>5, <4>1, Zenon DEF Line
    <3>2. SqlGood(w, Line(out.sql), db, ScanRefreshes)
      BY <1>2 DEF Good, SqlInv
    <3>3. SqlGood(w', Line(out.sql), db, ScanRefreshes')
      BY <1>1, <1>4, <1>6, <2>1, <3>2, ScanRefreshIsGood, Zenon
    <3>. QED BY <1>1, <3>1, <3>3 DEF SqlInv
  <2>2. CASE e.type \notin {"Finished", "Error"}
    <3>1. ScanRefreshing => ScanRefreshing'
      BY <1>1, <1>4, <1>5, <2>2 DEF ScanRefreshing
    <3>. QED BY <1>1, <1>2, <1>5, <1>7, <2>2, <3>1, SqlFrame DEF Good
  <2>. QED BY <2>1, <2>2
<1>13. ScanInv'
  <2>1. SUFFICES ASSUME Alive' PROVE OnePause(w, out.scan)' /\ PausesAgree(w)'
    BY DEF ScanInv, ScanGood
  <2>2. OnePause(w, out.scan) /\ PausesAgree(w)
    BY <1>1, <1>2, <2>1 DEF Good, ScanInv, ScanGood, Alive
  <2>3. /\ PauseHeld' = PauseHeld /\ PauseAsked(out.scan)' = PauseAsked(out.scan)
        /\ PauseTold' => PauseTold
    BY <1>1, <1>4, <1>5 DEF PauseHeld, PauseAsked, PauseTold
  <2>4. PauseEvent(e) => PauseTold /\ ~PauseTold'
    BY <1>1, <1>4, <1>5, <2>2 DEF PauseTold, OnePause, PauseHeld
  <2>5. ~PauseEvent(e) /\ PauseTold => PauseTold'
    BY <1>1, <1>4, <1>5, <2>3 DEF PauseTold
  <2>6. OnePause(w, out.scan)'
    <3>1. \A i, j \in DOMAIN out'.scan :
             PauseEvent(out'.scan[i]) /\ PauseEvent(out'.scan[j]) => i = j
      BY <1>1, <2>2 DEF OnePause
    <3>2. \A i, j \in DOMAIN t : PauseEvent(t[i]) /\ PauseEvent(t[j]) => i = j
      BY <1>4, <2>2 DEF OnePause
    <3>3. PauseHeld' => \A i \in DOMAIN t : ~PauseEvent(t[i])
      BY <1>4, <2>2, <2>3 DEF OnePause
    <3>4. ~(PauseTold' /\ PauseAsked(out.scan)')
      BY <2>2, <2>3 DEF OnePause
    <3>5. PauseTold' \/ PauseAsked(out.scan)' => w'.pause_pending
      BY <1>7, <2>2, <2>3, <2>4 DEF OnePause
    <3>. QED BY <1>5, <3>1, <3>2, <3>3, <3>4, <3>5 DEF OnePause
  <2>7. PausesAgree(w)'
    <3>1. PauseHeld' => scan'.event.value = scan'.paused
      BY <1>1, <2>2, <2>3 DEF PausesAgree
    <3>2. ASSUME NEW i \in DOMAIN t, PauseEvent(t[i]) PROVE t[i].value = scan'.paused
      <4>1. i + 1 \in DOMAIN in.scan /\ t[i] = in.scan[i + 1]
        BY <1>4
      <4>. QED BY <1>1, <4>1, <3>2, <2>2 DEF PausesAgree
    <3>3. ~PauseTold' => w'.monitoring = ~scan'.paused
      <4>1. CASE PauseEvent(e)
        <5>1. e.value = scan.paused
          BY <1>4, <2>2, <4>1 DEF PausesAgree
        <5>. QED BY <1>1, <1>7, <4>1, <5>1
      <4>2. CASE ~PauseEvent(e)
        BY <1>1, <1>7, <2>2, <2>5, <4>2 DEF PausesAgree
      <4>. QED BY <4>1, <4>2
    <3>. QED BY <1>5, <3>1, <3>2, <3>3 DEF PausesAgree
  <2>. QED BY <2>6, <2>7
<1>14. AuditInv'
  BY <1>1, <1>2, <1>5, <1>7, AuditFrame DEF Good, DetailSame
<1>. QED BY <1>1, <1>8, <1>9, <1>10, <1>11, <1>12, <1>13, <1>14 DEF Good

LEMMA AuditEventFacts ==
    ASSUME NEW e \in AuditEvents
    PROVE  e.type \in {"Finished", "Cancelled", "Error"} /\ e.number \in Audits
BY DEF AuditEvents

\* Nothing about the details, the pause and what the sql worker does.
PauseSame(v, u) == v.monitoring = u.monitoring /\ v.pause_pending = u.pause_pending

LEMMA OnAuditWindow ==
    ASSUME NEW u \in Window, NEW e \in AuditEvents
    PROVE  LET v == OnAudit(u, e)
           IN /\ v \in Window /\ PauseSame(v, u) /\ DataSame(v, u)
              /\ v.busy = u.busy /\ v.snapshot_loading = u.snapshot_loading
              /\ v.detail = u.detail /\ v.changes = u.changes /\ v.audits = u.audits
              /\ v.auditing = FALSE /\ v.asked = u.asked
              /\ v.save = IF e.type = "Finished" THEN [report |-> e.number, state |-> "Queued"]
                          ELSE u.save
              /\ v.cancelled = IF e.type = "Cancelled" THEN u.cancelled \cup {e.number}
                               ELSE u.cancelled
<1>1. PICK s \in [report: 0..MaxClicks, state: {"none", "Queued", "Saving", "Saved", "Failed"}] :
         s = IF e.type = "Finished" THEN [report |-> e.number, state |-> "Queued"] ELSE u.save
  <2>1. u.save \in [report: 0..MaxClicks, state: {"none", "Queued", "Saving", "Saved", "Failed"}]
    BY DEF Window
  <2>2. e.number \in 0..MaxClicks
    BY AuditEventFacts DEF Audits
  <2>. QED BY <2>1, <2>2
<1>2. PICK c \in SUBSET Audits :
         c = IF e.type = "Cancelled" THEN u.cancelled \cup {e.number} ELSE u.cancelled
  <2>1. u.cancelled \in SUBSET Audits
    BY DEF Window
  <2>. QED BY <2>1, AuditEventFacts
<1>. DEFINE v == [u EXCEPT !.auditing = FALSE, !.save = s, !.cancelled = c]
<1>3. v \in Window
  <2>1. \A a \in [report: 0..MaxClicks, state: {"none", "Queued", "Saving", "Saved", "Failed"}],
           b \in SUBSET Audits :
              [u EXCEPT !.auditing = FALSE, !.save = a, !.cancelled = b] \in Window
    BY DEF Window
  <2>. QED BY <2>1
<1>4. /\ PauseSame(v, u) /\ DataSame(v, u)
      /\ v.busy = u.busy /\ v.snapshot_loading = u.snapshot_loading
      /\ v.detail = u.detail /\ v.changes = u.changes /\ v.audits = u.audits
      /\ v.auditing = FALSE /\ v.asked = u.asked /\ v.save = s /\ v.cancelled = c
  BY DEF Window, PauseSame, DataSame
<1>5. OnAudit(u, e) = v
  <2>1. CASE e.type = "Finished"
    <3>1. OnAudit(u, e) = [[u EXCEPT !.auditing = FALSE] EXCEPT !.save = s]
      BY <2>1, <1>1 DEF OnAudit
    <3>2. c = u.cancelled
      BY <2>1, <1>2
    <3>. QED BY <3>1, <3>2 DEF Window
  <2>2. CASE e.type = "Cancelled"
    <3>1. OnAudit(u, e) = [[u EXCEPT !.auditing = FALSE] EXCEPT !.cancelled = u.cancelled \cup {e.number}]
      BY <2>2 DEF OnAudit, Window
    <3>2. s = u.save /\ c = u.cancelled \cup {e.number}
      BY <2>2, <1>1, <1>2
    <3>. QED BY <3>1, <3>2 DEF Window
  <2>3. CASE e.type = "Error"
    <3>1. OnAudit(u, e) = [u EXCEPT !.auditing = FALSE]
      BY <2>3 DEF OnAudit
    <3>2. s = u.save /\ c = u.cancelled
      BY <2>3, <1>1, <1>2
    <3>. QED BY <3>1, <3>2 DEF Window
  <2>. QED BY <2>1, <2>2, <2>3, AuditEventFacts
<1>. HIDE DEF v
<1>. QED BY <1>1, <1>2, <1>3, <1>4, <1>5

\* While no report is being saved nothing in the line is about one.
LEMMA NoSaveCell ==
    ASSUME NEW u, NEW L, Awaited(u, L), u.save.state # "Saving"
    PROVE  \A i \in DOMAIN L : Kind(L[i]) # "save"
<1>1. ASSUME NEW i \in DOMAIN L, Kind(L[i]) = "save" PROVE FALSE
  <2>1. u.save = [report |-> L[i].what.report, state |-> "Saving"]
    BY <1>1, Zenon DEF Awaited
  <2>. QED BY <2>1
<1>. QED BY <1>1

LEMMA SaveIsGood ==
    ASSUME NEW u, NEW v, NEW L, NEW d, NEW r, SqlGood(u, L, d, r), DataSame(v, u),
           v.busy = u.busy, v.snapshot_loading = u.snapshot_loading, u.save.state # "Saving"
    PROVE  SqlGood(v, L, d, r)
<1>1. \A i \in DOMAIN L : Kind(L[i]) # "save"
  BY NoSaveCell DEF SqlGood
<1>2. Awaited(v, L)
  BY <1>1 DEF SqlGood, Awaited, DataSame
<1>. QED BY <1>2, AwaitedIsGood

LEMMA ReceiveAuditKeeps ==
    ASSUME IInv, ReceiveAudit
    PROVE  Counters' /\ WorkersTyped' /\ stop' = FALSE /\ Good'
<1>. DEFINE e == Head(in.audit)
            t == Tail(in.audit)
<1>1. /\ ~stop /\ in.audit # <<>> /\ in' = [in EXCEPT !.audit = t]
      /\ w' = OnAudit(w, e) /\ latest' = w'.generation
      /\ UNCHANGED <<turn, out, cancels, stop, sql, scan, audit, db, clicks, cycles, errors, user>>
  BY DEF ReceiveAudit, Receive
<1>2. Counters /\ WorkersTyped /\ Good
  BY <1>1 DEF IInv
<1>3. /\ in.audit \in Seq(AuditEvents)
      /\ in \in [sql: Seq(SqlEvents), scan: Seq(ScanEvents), audit: Seq(AuditEvents)]
  BY <1>2 DEF WorkersTyped
<1>4. /\ t \in Seq(AuditEvents) /\ e \in AuditEvents /\ Len(in.audit) \in Nat /\ Len(in.audit) > 0
      /\ Len(t) = Len(in.audit) - 1 /\ 1 \in DOMAIN in.audit /\ e = in.audit[1]
  <2>1. in.audit \in Seq(AuditEvents) /\ in.audit # <<>>
    BY <1>1, <1>3
  <2>. QED BY <2>1, TailFacts
<1>. HIDE DEF e, t
<1>5. /\ in'.audit = t /\ in'.sql = in.sql /\ in'.scan = in.scan
      /\ in' \in [sql: Seq(SqlEvents), scan: Seq(ScanEvents), audit: Seq(AuditEvents)]
  BY <1>1, <1>3, <1>4
<1>6. w \in Window
  BY <1>2 DEF Good, WindowInv, WindowGood
<1>7. /\ w' \in Window /\ PauseSame(w', w) /\ DataSame(w', w)
      /\ w'.busy = w.busy /\ w'.snapshot_loading = w.snapshot_loading
      /\ w'.detail = w.detail /\ w'.changes = w.changes /\ w'.audits = w.audits
      /\ w'.auditing = FALSE /\ w'.asked = w.asked
      /\ w'.save = IF e.type = "Finished" THEN [report |-> e.number, state |-> "Queued"] ELSE w.save
      /\ w'.cancelled = IF e.type = "Cancelled" THEN w.cancelled \cup {e.number} ELSE w.cancelled
  BY <1>1, <1>4, <1>6, OnAuditWindow
<1>8. OneAnalysis(w, out.audit) /\ CancelsAreAsked(w, out.audit) /\ ReportsAreKept(w)
  BY <1>2 DEF Good, AuditInv, AuditGood
<1>9. /\ Working = 0 /\ Len(out.audit) = 0 /\ Len(in.audit) = 1 /\ Len(t) = 0
      /\ w.auditing /\ e.number = w.audits
  <2>1. Working \in {0, 1} /\ Len(out.audit) \in Nat
    BY <1>2 DEF Working, Good, QueuesInv, Queues
  <2>2. Len(in.audit) + Working + Len(out.audit) <= 1 /\ e.number = w.audits
    BY <1>4, <1>8 DEF OneAnalysis
  <2>3. Working = 0 /\ Len(out.audit) = 0 /\ Len(in.audit) = 1 /\ Len(t) = 0
    <3>1. \A a, b, c, z : /\ a \in Nat /\ c \in Nat /\ b \in {0, 1}
                          /\ a > 0 /\ a + b + c <= 1 /\ z = a - 1
                          => b = 0 /\ c = 0 /\ a = 1 /\ z = 0
      OBVIOUS
    <3>. QED BY <1>4, <2>1, <2>2, <3>1, Zenon
  <2>4. Len(in.audit) + Working + Len(out.audit) = 1
    BY <2>3
  <2>. QED BY <2>2, <2>3, <2>4, <1>8 DEF OneAnalysis
<1>10. t = <<>> /\ out.audit = <<>> /\ audit.pc \notin {"busy", "deliver"}
  <2>1. out.audit \in Seq(AuditCommands)
    BY <1>2 DEF Good, QueuesInv, Queues
  <2>2. t = <<>>
    BY <1>4, <1>9
  <2>3. out.audit = <<>>
    BY <1>9, <2>1
  <2>. QED BY <1>9, <2>2, <2>3 DEF Working
<1>11. w.save = NoSave /\ w.audits \notin w.cancelled \cup db.reports /\ w.audits \in Audits
  BY <1>8, <1>9 DEF ReportsAreKept
<1>12. Counters'
  BY <1>1, <1>2, <1>7 DEF Counters, Window
<1>13. WorkersTyped'
  <2>1. Len(t) <= Events
    BY <1>9, DesktopAssumption
  <2>. QED BY <1>1, <1>2, <1>5, <2>1 DEF WorkersTyped
<1>14. WindowInv'
  BY <1>1, <1>2, <1>7 DEF Good, WindowInv, WindowGood
<1>15. QueuesInv'
  BY <1>1, <1>2 DEF Good, QueuesInv
<1>16. SqlInv'
  <2>1. Line(out.sql)' = Line(out.sql)
    <3>1. Held' = Held /\ HeldCell' = HeldCell
      BY <1>1 DEF Held, HeldCell
    <3>. QED BY <1>1, <1>5, <3>1, Zenon DEF Line
  <2>2. ScanRefreshes' = ScanRefreshes
    BY <1>1, <1>5 DEF ScanRefreshes, ScanRefreshing
  <2>3. SqlGood(w, Line(out.sql), db, ScanRefreshes)
    BY <1>2 DEF Good, SqlInv
  <2>4. w.save.state # "Saving"
    BY <1>11 DEF NoSave
  <2>5. SqlGood(w', Line(out.sql), db, ScanRefreshes)
    BY <1>7, <2>3, <2>4, SaveIsGood, Zenon
  <2>. QED BY <1>1, <2>1, <2>2, <2>5 DEF SqlInv
<1>17. ScanInv'
  BY <1>1, <1>2, <1>5, <1>7, ScanFrame DEF Good, PauseSame
<1>18. AuditInv'
  <2>1. OneAnalysis(w, out.audit)'
    <3>1. Working' = 0
      BY <1>1, <1>9 DEF Working
    <3>2. Len(in'.audit) = 0 /\ Len(out'.audit) = 0
      BY <1>1, <1>5, <1>9
    <3>3. DOMAIN out'.audit = {} /\ DOMAIN in'.audit = {}
      BY <1>1, <1>5, <1>10
    <3>4. audit'.pc \notin {"busy", "deliver"}
      BY <1>1, <1>10
    <3>. QED BY <3>1, <3>2, <3>3, <3>4 DEF OneAnalysis
  <2>2. CancelsAreAsked(w, out.audit)'
    <3>1. DOMAIN out'.audit = {} /\ DOMAIN in'.audit = {}
      BY <1>1, <1>5, <1>10
    <3>2. audit'.pc \notin {"busy", "deliver"}
      BY <1>1, <1>10
    <3>3. w'.cancelled \subseteq w'.asked
      BY <1>4, <1>7, <1>8, <1>9 DEF CancelsAreAsked
    <3>. QED BY <3>1, <3>2, <3>3 DEF CancelsAreAsked
  <2>3. ReportsAreKept(w)'
    <3>1. w.audits \in 1..w.audits /\ w.audits # 0 /\ w.audits <= w.audits /\ w.audits \in Nat
      BY <1>11 DEF Audits
    <3>2. w'.cancelled \cup db'.reports \subseteq 1..w'.audits /\ w'.save.report <= w'.audits
      BY <1>1, <1>7, <1>8, <1>9, <3>1 DEF ReportsAreKept
    <3>3. w'.cancelled \cap (db'.reports \cup {w'.save.report}) = {}
      <4>1. CASE e.type = "Cancelled"
        <5>1. w'.save.report = 0 /\ 0 \notin w.cancelled
          BY <1>6, <1>7, <1>11, <4>1 DEF NoSave, Window, Audits
        <5>. QED BY <1>1, <1>7, <1>8, <1>9, <1>11, <3>1, <4>1, <5>1 DEF ReportsAreKept
      <4>2. CASE e.type # "Cancelled"
        BY <1>1, <1>7, <1>8, <1>9, <1>11, <4>2 DEF ReportsAreKept
      <4>. QED BY <4>1, <4>2
    <3>4. w'.save.state \in {"Queued", "Saving", "Failed"} => w'.save.report \in Audits
      BY <1>7, <1>9, <1>11 DEF NoSave
    <3>. QED BY <1>7, <3>2, <3>3, <3>4 DEF ReportsAreKept
  <2>. QED BY <2>1, <2>2, <2>3 DEF AuditInv, AuditGood
<1>. QED BY <1>1, <1>12, <1>13, <1>14, <1>15, <1>16, <1>17, <1>18 DEF Good

\* Steps that only move the frame on.
LEMMA DrainedKeeps ==
    ASSUME IInv, SqlDrained \/ ScanDrained \/ Draw
    PROVE  Counters' /\ WorkersTyped' /\ stop' = FALSE /\ Good'
<1>1. /\ ~stop /\ turn' \in {"sql", "scan", "audit", "draw"}
      /\ w' \in {w, [w EXCEPT !.ready = FALSE, !.scanning = FALSE, !.pause_pending = FALSE]}
      /\ w' # w => scan.pc = "gone"
      /\ UNCHANGED <<out, in, latest, cancels, stop, sql, scan, audit, db, clicks, cycles, errors, user>>
  BY DEF SqlDrained, ScanDrained, Draw, channels
<1>2. Counters /\ WorkersTyped /\ Good
  BY <1>1 DEF IInv
<1>3. w \in Window
  BY <1>2 DEF Good, WindowInv, WindowGood
<1>4. /\ w' \in Window /\ SqlSame(w', w) /\ AuditSame(w', w)
      /\ w'.detail = w.detail /\ w'.changes = w.changes
  <2>1. CASE w' = w
    BY <1>3, <2>1 DEF SqlSame, AuditSame
  <2>2. CASE w' = [w EXCEPT !.ready = FALSE, !.scanning = FALSE, !.pause_pending = FALSE]
    <3>1. w' \in Window
      BY <1>3, <2>2 DEF Window
    <3>2. /\ SqlSame(w', w) /\ AuditSame(w', w)
          /\ w'.detail = w.detail /\ w'.changes = w.changes
      BY <1>3, <2>2 DEF Window, SqlSame, AuditSame
    <3>. QED BY <3>1, <3>2
  <2>. QED BY <1>1, <2>1, <2>2
<1>5. Counters'
  BY <1>1, <1>2 DEF Counters
<1>6. WorkersTyped'
  BY <1>1, <1>2 DEF WorkersTyped
<1>7. WindowInv'
  BY <1>1, <1>2, <1>4 DEF Good, WindowInv, WindowGood, SqlSame, AuditSame
<1>8. QueuesInv'
  BY <1>1, <1>2 DEF Good, QueuesInv
<1>9. SqlInv'
  <2>1. ScanRefreshing => ScanRefreshing'
    BY <1>1 DEF ScanRefreshing
  <2>. QED BY <1>1, <1>2, <1>4, <2>1, SqlFrame DEF Good
<1>10. ScanInv'
  <2>1. CASE w' = w
    BY <1>1, <1>2, <2>1, ScanFrame DEF Good
  <2>2. CASE scan.pc = "gone"
    BY <1>1, <2>2 DEF ScanInv, ScanGood, Alive
  <2>. QED BY <1>1, <2>1, <2>2
<1>11. AuditInv'
  BY <1>1, <1>2, <1>4, AuditFrame DEF Good
<1>. QED BY <1>1, <1>5, <1>6, <1>7, <1>8, <1>9, <1>10, <1>11 DEF Good

(***************************************************************************)
(* The requests that are handed over.                                      *)
(***************************************************************************)
\* One command is sent, or none: the window still waits for all that is under way.
Hands(u, q, v, t) ==
    /\ v \in Window /\ t \in Seq(SqlCommands) /\ Len(t) <= Commands
    /\ v.generation = u.generation /\ v.detail = u.detail /\ v.changes = u.changes
    /\ PauseSame(v, u) /\ v.auditing = u.auditing /\ v.audits = u.audits
    /\ v.asked = u.asked /\ v.cancelled = u.cancelled
    /\ v.save = u.save \/ (u.save.state = "Queued" /\ v.save = [report |-> u.save.report, state |-> "Saving"])
    /\ \A e \in Seq(SqlEvents), h \in {0, 1} : \A x, d, r :
          SqlGood(u, LineOf(e, h, x, q), d, r) => SqlGood(v, LineOf(e, h, x, t), d, r)

LEMMA HandsNothing ==
    ASSUME NEW u \in Window, NEW q \in Seq(SqlCommands), Len(q) <= Commands
    PROVE  Hands(u, q, u, q)
BY DEF Hands, PauseSame

LEMMA SentCommand ==
    ASSUME NEW q \in Seq(SqlCommands), NEW c \in SqlCommands, Room(q, Commands)
    PROVE  /\ Append(q, c) \in Seq(SqlCommands) /\ Len(Append(q, c)) <= Commands
<1>1. Len(q) \in Nat /\ Len(Append(q, c)) = Len(q) + 1 /\ Append(q, c) \in Seq(SqlCommands)
  BY AppendFacts
<1>2. \A a \in Nat : a < Commands => a + 1 <= Commands
  BY DesktopAssumption
<1>. QED BY <1>1, <1>2, Zenon DEF Room

LEMMA HandsSave ==
    ASSUME NEW u \in Window, NEW q \in Seq(SqlCommands), Len(q) <= Commands,
           u.save.state = "Queued" => u.save.report \in Audits
    PROVE  Hands(u, q, FlushSave(u, q)[1], FlushSave(u, q)[2])
<1>1. CASE ~(u.save.state = "Queued" /\ Room(q, Commands))
  <2>1. FlushSave(u, q) = <<u, q>>
    BY <1>1 DEF FlushSave
  <2>. QED BY <2>1, HandsNothing
<1>2. CASE u.save.state = "Queued" /\ Room(q, Commands)
  <2>. DEFINE c == SaveReport(u.save.report)
              v == [u EXCEPT !.save.state = "Saving"]
  <2>1. FlushSave(u, q) = <<v, Append(q, c)>>
    BY <1>2 DEF FlushSave
  <2>2. c \in SqlCommands /\ c.type = "SaveReport" /\ c.report = u.save.report
    BY <1>2 DEF SaveReport, SqlCommands
  <2>3. PICK s \in [report: 0..MaxClicks, state: {"none", "Queued", "Saving", "Saved", "Failed"}] :
           s = [u.save EXCEPT !.state = "Saving"] /\ s = [report |-> u.save.report, state |-> "Saving"]
    <3>1. u.save \in [report: 0..MaxClicks, state: {"none", "Queued", "Saving", "Saved", "Failed"}]
      BY DEF Window
    <3>2. [u.save EXCEPT !.state = "Saving"] = [report |-> u.save.report, state |-> "Saving"]
      BY <3>1
    <3>3. [u.save EXCEPT !.state = "Saving"] \in
             [report: 0..MaxClicks, state: {"none", "Queued", "Saving", "Saved", "Failed"}]
      BY <3>1
    <3>. QED BY <3>2, <3>3, Zenon
  <2>4. v = [u EXCEPT !.save = s]
    BY <2>3
  <2>5. v \in Window
    BY <2>4 DEF Window
  <2>6. /\ DataSame(v, u) /\ PauseSame(v, u) /\ v.busy = u.busy
        /\ v.snapshot_loading = u.snapshot_loading /\ v.detail = u.detail /\ v.changes = u.changes
        /\ v.auditing = u.auditing /\ v.audits = u.audits
        /\ v.asked = u.asked /\ v.cancelled = u.cancelled /\ v.save = s
    BY <2>4 DEF Window, DataSame, PauseSame
  <2>7. Append(q, c) \in Seq(SqlCommands) /\ Len(Append(q, c)) <= Commands
    BY <1>2, <2>2, SentCommand
  <2>. HIDE DEF v, c
  <2>8. ASSUME NEW e \in Seq(SqlEvents), NEW h \in {0, 1}, NEW x, NEW d, NEW r,
               SqlGood(u, LineOf(e, h, x, q), d, r)
        PROVE  SqlGood(v, LineOf(e, h, x, Append(q, c)), d, r)
    <3>. DEFINE L == LineOf(e, h, x, q)
                K == LineOf(e, h, x, Append(q, c))
    <3>1. Appended(L, K, Cell(FALSE, c))
      BY <2>2, LineSent
    <3>. HIDE DEF L, K
    <3>2. SqlGood(u, L, d, r) /\ Awaited(u, L)
      BY <2>8 DEF L, SqlGood
    <3>3. u.save.state # "Saving"
      BY <1>2
    <3>4. SqlGood(v, L, d, r) /\ \A i \in DOMAIN L : Kind(L[i]) # "save"
      BY <2>6, <3>2, <3>3, SaveIsGood, NoSaveCell
    <3>5. Kind(Cell(FALSE, c)) = "save"
      BY <2>2 DEF Kind, Cell
    <3>6. Expects(v, L, c)
      BY <2>2, <2>3, <2>6, <3>4, <3>5 DEF Expects
    <3>7. SqlGood(v, K, d, r)
      BY <2>2, <3>1, <3>4, <3>6, AppendedIsGood DEF SqlGood
    <3>. QED BY <3>7 DEF K
  <2>9. Hands(u, q, v, Append(q, c))
    BY <1>2, <2>3, <2>5, <2>6, <2>7, <2>8 DEF Hands, DataSame
  <2>. QED BY <2>1, <2>9
<1>. QED BY <1>1, <1>2

LEMMA HandsQuery ==
    ASSUME NEW u \in Window, NEW q \in Seq(SqlCommands), Len(q) <= Commands
    PROVE  Hands(u, q, FlushQuery(u, q)[1], FlushQuery(u, q)[2])
<1>1. CASE ~(u.pending /\ Room(q, Commands))
  <2>1. FlushQuery(u, q) = <<u, q>>
    BY <1>1 DEF FlushQuery
  <2>. QED BY <2>1, HandsNothing
<1>2. CASE u.pending /\ Room(q, Commands)
  <2>. DEFINE c == Query(u.generation)
              v == [u EXCEPT !.pending = FALSE]
  <2>1. FlushQuery(u, q) = <<v, Append(q, c)>>
    BY <1>2 DEF FlushQuery
  <2>2. /\ c \in SqlCommands /\ c.type = "Query" /\ c.gen = u.generation
        /\ c.gen <= u.generation
    BY DEF Query, SqlCommands, Window
  <2>3. v \in Window
    BY DEF Window
  <2>4. /\ SqlSame(v, u) /\ PauseSame(v, u) /\ v.detail = u.detail /\ v.changes = u.changes
        /\ v.auditing = u.auditing /\ v.audits = u.audits
        /\ v.asked = u.asked /\ v.cancelled = u.cancelled
    BY DEF Window, SqlSame, PauseSame
  <2>5. Append(q, c) \in Seq(SqlCommands) /\ Len(Append(q, c)) <= Commands
    BY <1>2, <2>2, SentCommand
  <2>. HIDE DEF v, c
  <2>6. ASSUME NEW e \in Seq(SqlEvents), NEW h \in {0, 1}, NEW x, NEW d, NEW r,
               SqlGood(u, LineOf(e, h, x, q), d, r)
        PROVE  SqlGood(v, LineOf(e, h, x, Append(q, c)), d, r)
    <3>. DEFINE L == LineOf(e, h, x, q)
                K == LineOf(e, h, x, Append(q, c))
    <3>1. Appended(L, K, Cell(FALSE, c))
      BY <2>2, LineSent
    <3>. HIDE DEF L, K
    <3>2. SqlGood(v, L, d, r)
      BY <2>4, <2>6, SqlGoodSame DEF L
    <3>3. Kind(Cell(FALSE, c)) = "other"
      BY <2>2 DEF Kind, Cell
    <3>4. Expects(v, L, c)
      BY <2>2, <2>4, <3>3 DEF Expects, SqlSame
    <3>5. SqlGood(v, K, d, r)
      BY <2>2, <3>1, <3>2, <3>4, AppendedIsGood DEF SqlGood
    <3>. QED BY <3>5 DEF K
  <2>7. Hands(u, q, v, Append(q, c))
    BY <2>3, <2>4, <2>5, <2>6 DEF Hands, SqlSame
  <2>. QED BY <2>1, <2>7
<1>. QED BY <1>1, <1>2

LEMMA HandsSnapshot ==
    ASSUME NEW u \in Window, NEW q \in Seq(SqlCommands), Len(q) <= Commands
    PROVE  Hands(u, q, FlushSnapshot(u, q)[1], FlushSnapshot(u, q)[2])
<1>1. CASE ~(u.snapshot_requested /\ ~u.snapshot_loading /\ Room(q, Commands))
  <2>1. FlushSnapshot(u, q) = <<u, q>>
    BY <1>1 DEF FlushSnapshot
  <2>. QED BY <2>1, HandsNothing
<1>2. CASE u.snapshot_requested /\ ~u.snapshot_loading /\ Room(q, Commands)
  <2>. DEFINE c == Snapshot
              v == [u EXCEPT !.snapshot_requested = FALSE, !.snapshot_loading = TRUE]
  <2>1. FlushSnapshot(u, q) = <<v, Append(q, c)>>
    BY <1>2 DEF FlushSnapshot
  <2>2. c \in SqlCommands /\ c.type = "Snapshot"
    BY DEF Snapshot, SqlCommands
  <2>3. v \in Window
    BY DEF Window
  <2>4. /\ v.snapshot_loading = TRUE /\ v.busy = u.busy /\ v.save = u.save
        /\ v.generation = u.generation /\ v.rows = u.rows /\ v.selected = u.selected
        /\ PauseSame(v, u) /\ v.detail = u.detail /\ v.changes = u.changes
        /\ v.auditing = u.auditing /\ v.audits = u.audits
        /\ v.asked = u.asked /\ v.cancelled = u.cancelled
    BY DEF Window, PauseSame
  <2>5. Append(q, c) \in Seq(SqlCommands) /\ Len(Append(q, c)) <= Commands
    BY <1>2, <2>2, SentCommand
  <2>. HIDE DEF v, c
  <2>6. ASSUME NEW e \in Seq(SqlEvents), NEW h \in {0, 1}, NEW x, NEW d, NEW r,
               SqlGood(u, LineOf(e, h, x, q), d, r)
        PROVE  SqlGood(v, LineOf(e, h, x, Append(q, c)), d, r)
    <3>. DEFINE L == LineOf(e, h, x, q)
                K == LineOf(e, h, x, Append(q, c))
    <3>1. Appended(L, K, Cell(FALSE, c))
      BY <2>2, LineSent
    <3>. HIDE DEF L, K
    <3>2. SqlGood(u, L, d, r)
      BY <2>6 DEF L
    <3>3. Kind(Cell(FALSE, c)) = "snapshot"
      BY <2>2 DEF Kind, Cell
    <3>4. \A i \in DOMAIN L : Kind(L[i]) # "snapshot"
      BY <1>2, <3>2 DEF SqlGood, Awaited
    <3>5. Expects(v, L, c)
      BY <2>2, <2>4, <3>3, <3>4 DEF Expects
    <3>6. Awaited(v, L)
      BY <2>4, <3>2, <3>4 DEF SqlGood, Awaited
    <3>7. FlagsAreTrue(v, L, d)
      BY <2>4, <3>2 DEF SqlGood, FlagsAreTrue
    <3>8. RowsAreTrue(v, L, d, r)
      BY <2>4, <3>2 DEF SqlGood, RowsAreTrue
    <3>9. InOrder(L) /\ OncePerKind(L)
      BY <3>2 DEF SqlGood
    <3>10. SqlGood(v, K, d, r)
      BY <2>2, <3>1, <3>5, <3>6, <3>7, <3>8, <3>9, AppendedIsGood
    <3>. QED BY <3>10 DEF K
  <2>7. Hands(u, q, v, Append(q, c))
    BY <2>3, <2>4, <2>5, <2>6 DEF Hands
  <2>. QED BY <2>1, <2>7
<1>. QED BY <1>1, <1>2

LEMMA HandsTwice ==
    ASSUME NEW u, NEW q, NEW v, NEW t, NEW x, NEW s, Hands(u, q, v, t), Hands(v, t, x, s)
    PROVE  Hands(u, q, x, s)
<1>1. /\ x \in Window /\ s \in Seq(SqlCommands) /\ Len(s) <= Commands
      /\ x.generation = u.generation /\ x.detail = u.detail /\ x.changes = u.changes
      /\ PauseSame(x, u) /\ x.auditing = u.auditing /\ x.audits = u.audits
      /\ x.asked = u.asked /\ x.cancelled = u.cancelled
  BY DEF Hands, PauseSame
<1>2. x.save = u.save \/ (u.save.state = "Queued" /\ x.save = [report |-> u.save.report, state |-> "Saving"])
  BY DEF Hands
<1>3. \A e \in Seq(SqlEvents), h \in {0, 1} : \A y, d, r :
         SqlGood(u, LineOf(e, h, y, q), d, r) => SqlGood(x, LineOf(e, h, y, s), d, r)
  BY Zenon DEF Hands
<1>. QED BY <1>1, <1>2, <1>3 DEF Hands

LEMMA FlushKeeps ==
    ASSUME IInv, Flush
    PROVE  /\ Counters' /\ WorkersTyped' /\ stop' = FALSE /\ Good'
           /\ w'.save.report = w.save.report
<1>. DEFINE f1 == FlushSave(w, out.sql)
            f2 == FlushQuery(f1[1], f1[2])
            f3 == FlushSnapshot(f2[1], f2[2])
<1>1. /\ ~stop /\ turn' = "draw" /\ w' = f3[1] /\ out' = [out EXCEPT !.sql = f3[2]]
      /\ UNCHANGED <<in, latest, cancels, stop, sql, scan, audit, db, clicks, cycles, errors, user>>
  BY DEF Flush
<1>2. Counters /\ WorkersTyped /\ Good
  BY <1>1 DEF IInv
<1>3. /\ w \in Window /\ out.sql \in Seq(SqlCommands) /\ Len(out.sql) <= Commands
      /\ out \in [sql: Seq(SqlCommands), scan: Seq(ScanCommands), audit: Seq(AuditCommands)]
      /\ w.save.state = "Queued" => w.save.report \in Audits
  BY <1>2 DEF Good, WindowInv, WindowGood, QueuesInv, Queues, AuditInv, AuditGood, ReportsAreKept
<1>4. Hands(w, out.sql, f1[1], f1[2])
  BY <1>3, HandsSave, Zenon
<1>. HIDE DEF f1
<1>5. Hands(f1[1], f1[2], f2[1], f2[2])
  <2>1. f1[1] \in Window /\ f1[2] \in Seq(SqlCommands) /\ Len(f1[2]) <= Commands
    BY <1>4 DEF Hands
  <2>. QED BY <2>1, HandsQuery, Zenon
<1>. HIDE DEF f2
<1>6. Hands(f2[1], f2[2], f3[1], f3[2])
  <2>1. f2[1] \in Window /\ f2[2] \in Seq(SqlCommands) /\ Len(f2[2]) <= Commands
    BY <1>5 DEF Hands
  <2>. QED BY <2>1, HandsSnapshot, Zenon
<1>. HIDE DEF f3
<1>7. Hands(w, out.sql, f3[1], f3[2])
  <2>1. Hands(w, out.sql, f2[1], f2[2])
    BY <1>4, <1>5, HandsTwice
  <2>. QED BY <1>6, <2>1, HandsTwice
<1>. DEFINE t == f3[2]
<1>8. /\ out'.sql = t /\ out'.scan = out.scan /\ out'.audit = out.audit
      /\ out' \in [sql: Seq(SqlCommands), scan: Seq(ScanCommands), audit: Seq(AuditCommands)]
  <2>1. t \in Seq(SqlCommands) /\ out' = [out EXCEPT !.sql = t]
    BY <1>1, <1>7 DEF Hands
  <2>. HIDE DEF t
  <2>. QED BY <1>3, <2>1
<1>9. Hands(w, out.sql, w', t)
  BY <1>1, <1>7
<1>. HIDE DEF t
<1>10. Counters'
  BY <1>1, <1>2 DEF Counters
<1>11. WorkersTyped'
  BY <1>1, <1>2 DEF WorkersTyped
<1>12. WindowInv'
  BY <1>1, <1>2, <1>9 DEF Good, WindowInv, WindowGood, Hands
<1>13. QueuesInv'
  BY <1>2, <1>8, <1>9 DEF Good, QueuesInv, Queues, Hands
<1>14. SqlInv'
  <2>1. Line(out.sql)' = LineOf(in.sql, Held, HeldCell, t)
    <3>1. Held' = Held /\ HeldCell' = HeldCell
      BY <1>1 DEF Held, HeldCell
    <3>. QED BY <1>1, <1>8, <3>1, Zenon DEF Line
  <2>2. ScanRefreshes' = ScanRefreshes
    BY <1>1 DEF ScanRefreshes, ScanRefreshing
  <2>3. Held \in {0, 1} /\ in.sql \in Seq(SqlEvents)
    BY <1>2 DEF Held, WorkersTyped
  <2>4. SqlGood(w, LineOf(in.sql, Held, HeldCell, out.sql), db, ScanRefreshes)
    BY <1>2 DEF Good, SqlInv, Line
  <2>5. SqlGood(w', LineOf(in.sql, Held, HeldCell, t), db, ScanRefreshes)
    BY <1>9, <2>3, <2>4, Zenon DEF Hands
  <2>. QED BY <1>1, <2>1, <2>2, <2>5 DEF SqlInv
<1>15. ScanInv'
  BY <1>1, <1>2, <1>8, <1>9, ScanFrame DEF Good, Hands, PauseSame
<1>16. w'.save.report = w.save.report /\ (w'.save = w.save \/ w.save # NoSave)
  BY <1>9 DEF Hands, NoSave
<1>17. AuditInv'
  <2>1. OneAnalysis(w, out.audit)'
    BY <1>1, <1>2, <1>8, <1>9 DEF Good, AuditInv, AuditGood, OneAnalysis, Working, Hands
  <2>2. CancelsAreAsked(w, out.audit)'
    BY <1>1, <1>2, <1>8, <1>9 DEF Good, AuditInv, AuditGood, CancelsAreAsked, Hands
  <2>3. ReportsAreKept(w)'
    <3>1. w'.save.state \in {"Queued", "Saving", "Failed"} =>
             w.save.state \in {"Queued", "Saving", "Failed"}
      BY <1>9 DEF Hands
    <3>2. /\ w'.auditing = w.auditing /\ w'.audits = w.audits /\ w'.cancelled = w.cancelled
          /\ db' = db
      BY <1>1, <1>9 DEF Hands
    <3>. QED BY <1>2, <1>16, <3>1, <3>2 DEF Good, AuditInv, AuditGood, ReportsAreKept
  <2>. QED BY <2>1, <2>2, <2>3 DEF AuditInv, AuditGood
<1>. QED BY <1>1, <1>10, <1>11, <1>12, <1>13, <1>14, <1>15, <1>16, <1>17 DEF Good

(***************************************************************************)
(* The clicks.                                                             *)
(***************************************************************************)
ClickStep ==
    /\ ~stop /\ turn' = "sql" /\ clicks < MaxClicks /\ clicks' = clicks + 1
    /\ latest' = w'.generation
    /\ UNCHANGED <<in, cancels, stop, sql, scan, audit, db, cycles, errors, user>>

\* What is shown of the details and of the analyses stays within the clicks.
Shown(v) ==
    /\ v \in Window /\ v.detail <= clicks + 1 /\ v.audits <= clicks + 1
    /\ v.changes # 0 => v.changes = v.detail

LEMMA ClickFacts ==
    ASSUME IInv, ClickStep
    PROVE  /\ Counters /\ WorkersTyped /\ Good /\ Queues(out)
           /\ w \in Window /\ Shown(w) /\ w.detail <= clicks /\ w.audits <= clicks
           /\ clicks \in Nat /\ Held \in {0, 1} /\ in.sql \in Seq(SqlEvents)
           /\ Held' = Held /\ HeldCell' = HeldCell /\ ScanRefreshing' = ScanRefreshing
           /\ ScanRefreshes' = ScanRefreshes
           /\ SqlGood(w, LineOf(in.sql, Held, HeldCell, out.sql), db, ScanRefreshes)
<1>1. Counters /\ WorkersTyped /\ Good
  BY DEF IInv, ClickStep
<1>2. w \in Window /\ w.detail <= clicks /\ w.audits <= clicks /\ (w.changes # 0 => w.changes = w.detail)
  BY <1>1 DEF Good, WindowInv, WindowGood
<1>3. clicks \in Nat /\ w.detail \in Nat /\ w.audits \in Nat
  BY <1>1, <1>2, DesktopAssumption DEF Counters, Window
<1>4. Shown(w)
  BY <1>2, <1>3 DEF Shown
<1>5. /\ Held' = Held /\ HeldCell' = HeldCell /\ ScanRefreshing' = ScanRefreshing
      /\ ScanRefreshes' = ScanRefreshes
  BY DEF ClickStep, Held, HeldCell, ScanRefreshing, ScanRefreshes
<1>6. Held \in {0, 1} /\ in.sql \in Seq(SqlEvents)
  BY <1>1 DEF Held, WorkersTyped
<1>. QED BY <1>1, <1>2, <1>3, <1>4, <1>5, <1>6 DEF Good, QueuesInv, SqlInv, Line

LEMMA ClickKeepsTypes ==
    ASSUME IInv, ClickStep, Shown(w')
    PROVE  Counters' /\ WorkersTyped' /\ stop' = FALSE /\ WindowInv'
<1>1. Counters /\ WorkersTyped /\ Good
  BY ClickFacts
<1>2. clicks' \in 0..MaxClicks /\ cancels.value <= clicks'
  BY <1>1, DesktopAssumption DEF Counters, ClickStep
<1>3. w' \in Window /\ latest' \in Nat
  BY DEF Shown, ClickStep, Window
<1>4. Counters'
  BY <1>1, <1>2, <1>3 DEF Counters, ClickStep
<1>5. WorkersTyped'
  BY <1>1 DEF WorkersTyped, ClickStep
<1>6. WindowInv'
  BY DEF WindowInv, WindowGood, Shown, ClickStep
<1>. QED BY <1>4, <1>5, <1>6 DEF ClickStep

\* A command for the sql worker is sent.
LEMMA ClickSends ==
    ASSUME IInv, ClickStep, NEW c \in SqlCommands,
           out' = [out EXCEPT !.sql = Append(@, c)], Room(out.sql, Commands),
           c.type # "Snapshot", Shown(w'), PauseSame(w', w), AuditSame(w', w),
           SqlGood(w', Line(out.sql), db, ScanRefreshes), Expects(w', Line(out.sql), c)
    PROVE  Good'
<1>1. /\ Counters /\ WorkersTyped /\ Good /\ Queues(out) /\ Held \in {0, 1}
      /\ in.sql \in Seq(SqlEvents) /\ Held' = Held /\ HeldCell' = HeldCell
      /\ ScanRefreshes' = ScanRefreshes /\ (ScanRefreshing => ScanRefreshing')
  BY ClickFacts
<1>2. /\ out \in [sql: Seq(SqlCommands), scan: Seq(ScanCommands), audit: Seq(AuditCommands)]
      /\ out.sql \in Seq(SqlCommands)
  BY <1>1 DEF Queues
<1>. DEFINE t == Append(out.sql, c)
<1>3. t \in Seq(SqlCommands) /\ Len(t) <= Commands
  BY <1>2, SentCommand, Zenon
<1>4. out' = [out EXCEPT !.sql = t]
  OBVIOUS
<1>5. Appended(Line(out.sql), LineOf(in.sql, Held, HeldCell, t), Cell(FALSE, c))
  BY <1>1, <1>2, LineSent, Zenon DEF Line
<1>. HIDE DEF t
<1>6. /\ out'.sql = t /\ out'.scan = out.scan /\ out'.audit = out.audit
      /\ out' \in [sql: Seq(SqlCommands), scan: Seq(ScanCommands), audit: Seq(AuditCommands)]
  BY <1>2, <1>3, <1>4
<1>7. QueuesInv'
  BY <1>1, <1>3, <1>6 DEF Queues, QueuesInv
<1>8. SqlInv'
  <2>1. Line(out.sql)' = LineOf(in.sql, Held, HeldCell, t)
    BY <1>1, <1>6, Zenon DEF Line, ClickStep
  <2>2. SqlGood(w', LineOf(in.sql, Held, HeldCell, t), db, ScanRefreshes)
    BY <1>5, AppendedIsGood, Zenon DEF SqlGood
  <2>. QED BY <1>1, <2>1, <2>2 DEF SqlInv, ClickStep
<1>9. ScanInv'
  BY <1>1, <1>6, ScanFrame DEF Good, ClickStep, PauseSame
<1>10. AuditInv'
  BY <1>1, <1>6, AuditFrame DEF Good, ClickStep
<1>. QED BY <1>7, <1>8, <1>9, <1>10, ClickKeepsTypes DEF Good

\* Nothing is sent.
LEMMA ClickShows ==
    ASSUME IInv, ClickStep, out' = out, Shown(w'), PauseSame(w', w),
           SqlGood(w', Line(out.sql), db, ScanRefreshes), AuditInv'
    PROVE  Good'
<1>1. /\ Counters /\ WorkersTyped /\ Good /\ Held' = Held /\ HeldCell' = HeldCell
      /\ ScanRefreshes' = ScanRefreshes /\ (ScanRefreshing => ScanRefreshing')
  BY ClickFacts
<1>2. QueuesInv'
  BY <1>1 DEF Good, QueuesInv
<1>3. SqlInv'
  <2>1. Line(out.sql)' = Line(out.sql)
    BY <1>1, Zenon DEF Line, ClickStep
  <2>. QED BY <1>1, <2>1 DEF SqlInv, ClickStep
<1>4. ScanInv'
  BY <1>1, ScanFrame DEF Good, ClickStep, PauseSame
<1>. QED BY <1>2, <1>3, <1>4, ClickKeepsTypes DEF Good

\* A window with another detail open.
LEMMA OpenedIsWindow ==
    ASSUME NEW u \in Window, NEW x \in 0..MaxClicks, NEW o \in 0..MaxClicks, NEW y \in BOOLEAN,
           NEW z \in BOOLEAN
    PROVE  [u EXCEPT !.detail = x, !.changes = o, !.changes_loading = y, !.selected = z] \in Window
BY DEF Window

LEMMA OpenKeeps ==
    ASSUME IInv, ClickStep, w.rows # None,
           w' = OpenDetail(w, out)[1], out' = OpenDetail(w, out)[2]
    PROVE  Good' /\ w'.save = w.save
<1>1. /\ Good /\ w \in Window /\ Shown(w) /\ w.detail <= clicks /\ w.detail \in Nat
      /\ clicks \in Nat /\ clicks + 1 <= MaxClicks
  <2>1. Counters /\ Good /\ w \in Window /\ Shown(w) /\ w.detail <= clicks /\ clicks \in Nat
    BY ClickFacts
  <2>. QED BY <2>1, DesktopAssumption DEF ClickStep, Window
<1>2. PICK n \in 0..MaxClicks : n = w.detail + 1 /\ n <= clicks + 1
  BY <1>1, DesktopAssumption
<1>3. PICK b \in BOOLEAN : b = w.rows.data.watched
  BY <1>1 DEF Window, Data
<1>4. PICK sent \in BOOLEAN : sent = Room(out.sql, Commands)
  <2>1. Room(out.sql, Commands) \in BOOLEAN
    BY DEF Room
  <2>. QED BY <2>1, Zenon
<1>. DEFINE v == [w EXCEPT !.detail = n, !.changes = 0, !.changes_loading = sent, !.selected = b]
            c == Changes(n)
<1>5. v \in Window
  <2>1. 0 \in 0..MaxClicks
    BY DesktopAssumption
  <2>. QED BY <1>1, <2>1, OpenedIsWindow, Zenon
<1>6. /\ v.detail = n /\ v.changes = 0 /\ v.selected = b /\ v.busy = w.busy
      /\ v.snapshot_loading = w.snapshot_loading /\ v.generation = w.generation
      /\ v.rows = w.rows /\ v.snapshot_requested = w.snapshot_requested
      /\ v.snapshot = w.snapshot /\ v.snapshot_error = w.snapshot_error
      /\ v.audits = w.audits /\ PauseSame(v, w) /\ AuditSame(v, w)
  BY <1>1 DEF Window, PauseSame, AuditSame
<1>7. w' = v /\ out' = IF sent THEN [out EXCEPT !.sql = Append(@, c)] ELSE out
  <2>. DEFINE o == IF sent THEN [out EXCEPT !.sql = Append(@, c)] ELSE out
  <2>. DEFINE r == [w EXCEPT !.detail = w.detail + 1, !.changes = 0,
                             !.changes_loading = Room(out.sql, Commands),
                             !.selected = w.rows.data.watched]
  <2>1. r = v
    BY <1>2, <1>3, <1>4, Zenon
  <2>6. OpenDetail(w, out) =
          <<r, IF Room(out.sql, Commands)
               THEN [out EXCEPT !.sql = Append(@, Changes(r.detail))] ELSE out>>
    BY DEF OpenDetail
  <2>7. Room(out.sql, Commands) <=> sent
    BY <1>4, Zenon
  <2>. HIDE DEF r, v
  <2>2. OpenDetail(w, out) =
          <<v, IF Room(out.sql, Commands)
               THEN [out EXCEPT !.sql = Append(@, Changes(v.detail))] ELSE out>>
    BY <2>1, <2>6
  <2>3. (IF Room(out.sql, Commands) THEN [out EXCEPT !.sql = Append(@, Changes(v.detail))] ELSE out) = o
    <3>1. Changes(v.detail) = c
      BY <1>6
    <3>. HIDE DEF c
    <3>2. CASE sent
      BY <2>7, <3>1, <3>2
    <3>3. CASE ~sent
      BY <2>7, <3>3
    <3>. QED BY <3>2, <3>3
  <2>4. OpenDetail(w, out) = <<v, o>>
    BY <2>2, <2>3, Zenon
  <2>. HIDE DEF v, o
  <2>5. w' = v /\ out' = o
    BY <2>4
  <2>. QED BY <2>5 DEF o
<1>8. Shown(v)
  BY <1>1, <1>2, <1>5, <1>6 DEF Shown
<1>9. c \in SqlCommands /\ c.type = "Changes" /\ Kind(Cell(FALSE, c)) = "other"
  BY DEF Changes, SqlCommands, Kind, Cell
<1>. HIDE DEF v, c
<1>10. SqlGood(v, Line(out.sql), db, ScanRefreshes)
  <2>. DEFINE L == Line(out.sql)
  <2>1. SqlGood(w, L, db, ScanRefreshes)
    BY <1>1 DEF Good, SqlInv
  <2>. HIDE DEF L
  <2>2. Awaited(v, L)
    BY <1>6, <2>1 DEF SqlGood, Awaited, AuditSame
  <2>3. FlagsAreTrue(v, L, db)
    BY <1>3, <1>6, <2>1 DEF SqlGood, FlagsAreTrue
  <2>4. RowsAreTrue(v, L, db, ScanRefreshes)
    BY <1>6, <2>1 DEF SqlGood, RowsAreTrue
  <2>5. SnapshotIsTrue(v, L, db, ScanRefreshes)
    BY <1>6, <2>1 DEF SqlGood, SnapshotIsTrue
  <2>. QED BY <2>1, <2>2, <2>3, <2>4, <2>5 DEF SqlGood, L
<1>11. CASE sent
  <2>1. Expects(v, Line(out.sql), c)
    BY <1>9 DEF Expects
  <2>2. Room(out.sql, Commands) /\ out' = [out EXCEPT !.sql = Append(@, c)]
    BY <1>4, <1>7, <1>11
  <2>3. c.type # "Snapshot" /\ Shown(w') /\ PauseSame(w', w) /\ AuditSame(w', w)
        /\ SqlGood(w', Line(out.sql), db, ScanRefreshes) /\ Expects(w', Line(out.sql), c)
    BY <1>6, <1>7, <1>8, <1>9, <1>10, <2>1
  <2>. QED BY <1>9, <2>2, <2>3, ClickSends DEF AuditSame
<1>12. CASE ~sent
  <2>1. AuditInv'
    BY <1>1, <1>6, <1>7, <1>12, AuditFrame DEF Good, ClickStep
  <2>2. Shown(w') /\ PauseSame(w', w) /\ SqlGood(w', Line(out.sql), db, ScanRefreshes) /\ out' = out
    BY <1>6, <1>7, <1>8, <1>10, <1>12
  <2>. QED BY <1>6, <1>7, <2>1, <2>2, ClickShows DEF AuditSame
<1>. QED BY <1>11, <1>12

LEMMA OperationKeeps ==
    ASSUME IInv, ClickStep, NEW c \in SqlCommands, c.type \in {"Mutate", "ReEvaluate"},
           w' = Operation(w, out, c)[1], out' = Operation(w, out, c)[2],
           Operation(w, out, c) # <<w, out>>
    PROVE  Good' /\ w'.save = w.save
<1>1. Good /\ w \in Window /\ Shown(w)
  BY ClickFacts
<1>2. ~w.busy /\ Room(out.sql, Commands)
  BY DEF Operation
<1>. DEFINE v == [w EXCEPT !.busy = TRUE]
<1>3. w' = v /\ out' = [out EXCEPT !.sql = Append(@, c)]
  <2>1. Operation(w, out, c) = <<v, [out EXCEPT !.sql = Append(@, c)]>>
    BY <1>2 DEF Operation
  <2>. HIDE DEF v
  <2>. QED BY <2>1
<1>4. v \in Window
  BY <1>1 DEF Window
<1>5. /\ v.busy = TRUE /\ DataSame(v, w) /\ v.snapshot_loading = w.snapshot_loading
      /\ v.save = w.save /\ v.detail = w.detail /\ v.changes = w.changes
      /\ PauseSame(v, w) /\ AuditSame(v, w)
  BY <1>1 DEF Window, DataSame, PauseSame, AuditSame
<1>. HIDE DEF v
<1>6. Shown(v)
  BY <1>1, <1>4, <1>5 DEF Shown, AuditSame
<1>. DEFINE L == Line(out.sql)
<1>7. SqlGood(w, L, db, ScanRefreshes)
  BY <1>1 DEF Good, SqlInv
<1>. HIDE DEF L
<1>8. \A i \in DOMAIN L : Kind(L[i]) # "operation"
  BY <1>2, <1>7 DEF SqlGood, Awaited
<1>9. SqlGood(v, L, db, ScanRefreshes)
  <2>1. Awaited(v, L)
    BY <1>5, <1>7, <1>8 DEF SqlGood, Awaited, DataSame
  <2>. QED BY <1>5, <1>7, <2>1, AwaitedIsGood
<1>10. Expects(v, L, c)
  <2>1. Kind(Cell(FALSE, c)) = "operation"
    BY DEF Kind, Cell
  <2>. QED BY <1>5, <1>8, <2>1 DEF Expects
<1>11. /\ Shown(w') /\ PauseSame(w', w) /\ AuditSame(w', w) /\ c.type # "Snapshot"
       /\ SqlGood(w', Line(out.sql), db, ScanRefreshes) /\ Expects(w', Line(out.sql), c)
  BY <1>3, <1>5, <1>6, <1>9, <1>10 DEF L
<1>. QED BY <1>2, <1>3, <1>11, ClickSends DEF AuditSame

\* What a click does to the report that waits or is being saved.
SaveKept(v, u) == SavePending(u.save) => v.save.report = u.save.report

LEMMA SearchKeeps ==
    ASSUME IInv, ClickStep, w' = RequestQuery(w), out' = out
    PROVE  Good' /\ SaveKept(w', w)
<1>1. Good /\ w \in Window /\ Shown(w)
  BY ClickFacts
<1>2. w' \in Window /\ SameElse(w', w)
  BY <1>1, QueryFacts
<1>3. Shown(w') /\ PauseSame(w', w) /\ AuditSame(w', w)
  BY <1>1, <1>2 DEF Shown, SameElse, PauseSame, AuditSame
<1>4. SqlGood(w', Line(out.sql), db, ScanRefreshes)
  BY <1>1, RequestIsGood DEF Good, SqlInv
<1>5. AuditInv'
  BY <1>1, <1>3, AuditFrame DEF Good, ClickStep
<1>. QED BY <1>3, <1>4, <1>5, ClickShows DEF SaveKept, AuditSame

LEMMA ShutKeeps ==
    ASSUME IInv, ClickStep, w' = [w EXCEPT !.selected = None], out' = out
    PROVE  Good' /\ SaveKept(w', w)
<1>1. Good /\ w \in Window /\ Shown(w)
  BY ClickFacts
<1>2. /\ w' \in Window /\ w'.selected = None
      /\ PauseSame(w', w) /\ AuditSame(w', w) /\ w'.detail = w.detail /\ w'.changes = w.changes
      /\ w'.busy = w.busy /\ w'.snapshot_loading = w.snapshot_loading
      /\ w'.generation = w.generation /\ w'.rows = w.rows
      /\ w'.snapshot_requested = w.snapshot_requested
      /\ w'.snapshot = w.snapshot /\ w'.snapshot_error = w.snapshot_error
  BY <1>1 DEF Window, PauseSame, AuditSame
<1>3. Shown(w')
  BY <1>1, <1>2 DEF Shown, AuditSame
<1>4. SqlGood(w', Line(out.sql), db, ScanRefreshes)
  <2>. DEFINE L == Line(out.sql)
  <2>1. SqlGood(w, L, db, ScanRefreshes)
    BY <1>1 DEF Good, SqlInv
  <2>. HIDE DEF L
  <2>2. Awaited(w', L)
    BY <1>2, <2>1 DEF SqlGood, Awaited, AuditSame
  <2>3. FlagsAreTrue(w', L, db)
    BY <1>2, <2>1 DEF SqlGood, FlagsAreTrue
  <2>4. RowsAreTrue(w', L, db, ScanRefreshes)
    BY <1>2, <2>1 DEF SqlGood, RowsAreTrue
  <2>5. SnapshotIsTrue(w', L, db, ScanRefreshes)
    BY <1>2, <2>1 DEF SqlGood, SnapshotIsTrue
  <2>. QED BY <2>1, <2>2, <2>3, <2>4, <2>5 DEF SqlGood, L
<1>5. AuditInv'
  BY <1>1, <1>2, AuditFrame DEF Good, ClickStep
<1>. QED BY <1>2, <1>3, <1>4, <1>5, ClickShows DEF SaveKept, AuditSame

LEMMA RetryKeeps ==
    ASSUME IInv, ClickStep, w.save.state = "Failed",
           w' = [w EXCEPT !.save.state = "Queued"], out' = out
    PROVE  Good' /\ SaveKept(w', w)
<1>1. Good /\ w \in Window /\ Shown(w)
  BY ClickFacts
<1>2. PICK s \in [report: 0..MaxClicks, state: {"none", "Queued", "Saving", "Saved", "Failed"}] :
         s = [w.save EXCEPT !.state = "Queued"]
  <2>1. w.save \in [report: 0..MaxClicks, state: {"none", "Queued", "Saving", "Saved", "Failed"}]
    BY <1>1 DEF Window
  <2>. QED BY <2>1
<1>3. s.report = w.save.report /\ s.state = "Queued"
  BY <1>1, <1>2 DEF Window
<1>4. w' = [w EXCEPT !.save = s]
  BY <1>2
<1>5. w' \in Window
  <2>1. \A x \in [report: 0..MaxClicks, state: {"none", "Queued", "Saving", "Saved", "Failed"}] :
           [w EXCEPT !.save = x] \in Window
    BY <1>1 DEF Window
  <2>. QED BY <1>4, <2>1
<1>6. /\ PauseSame(w', w) /\ DataSame(w', w) /\ w'.save = s
      /\ w'.detail = w.detail /\ w'.changes = w.changes /\ w'.audits = w.audits
      /\ w'.busy = w.busy /\ w'.snapshot_loading = w.snapshot_loading
      /\ w'.auditing = w.auditing /\ w'.asked = w.asked /\ w'.cancelled = w.cancelled
  BY <1>1, <1>4 DEF Window, PauseSame, DataSame
<1>7. Shown(w')
  BY <1>1, <1>5, <1>6 DEF Shown
<1>8. SqlGood(w', Line(out.sql), db, ScanRefreshes)
  <2>1. SqlGood(w, Line(out.sql), db, ScanRefreshes)
    BY <1>1 DEF Good, SqlInv
  <2>2. w.save.state # "Saving"
    OBVIOUS
  <2>. QED BY <1>6, <2>1, <2>2, SaveIsGood, Zenon
<1>9. AuditInv'
  <2>1. OneAnalysis(w, out.audit) /\ CancelsAreAsked(w, out.audit) /\ ReportsAreKept(w)
    BY <1>1 DEF Good, AuditInv, AuditGood
  <2>2. OneAnalysis(w, out.audit)'
    BY <1>6, <2>1 DEF OneAnalysis, Working, ClickStep
  <2>3. CancelsAreAsked(w, out.audit)'
    BY <1>6, <2>1 DEF CancelsAreAsked, ClickStep
  <2>4. ~w.auditing /\ w.save.report \in Audits
    BY <2>1 DEF ReportsAreKept, NoSave
  <2>5. ReportsAreKept(w)'
    BY <1>3, <1>6, <2>1, <2>4 DEF ReportsAreKept, ClickStep
  <2>. QED BY <2>2, <2>3, <2>5 DEF AuditInv, AuditGood
<1>. QED BY <1>3, <1>6, <1>7, <1>8, <1>9, ClickShows DEF SaveKept

\* A command for the scan worker is sent.
LEMMA ScanSends ==
    ASSUME IInv, ClickStep, NEW c \in ScanCommands, Room(out.scan, Commands),
           out' = [out EXCEPT !.scan = Append(@, c)], Shown(w'), SqlSame(w', w), AuditSame(w', w),
           ScanGood(w', Append(out.scan, c))
    PROVE  Good'
<1>. DEFINE t == Append(out.scan, c)
<1>1. /\ Counters /\ WorkersTyped /\ Good /\ Queues(out) /\ ScanRefreshing' = ScanRefreshing
  BY ClickFacts
<1>2. /\ out \in [sql: Seq(SqlCommands), scan: Seq(ScanCommands), audit: Seq(AuditCommands)]
      /\ out.scan \in Seq(ScanCommands) /\ Len(out.scan) < Commands
  BY <1>1 DEF Queues, Room
<1>3. t \in Seq(ScanCommands) /\ Len(t) <= Commands
  <2>1. /\ t \in Seq(ScanCommands) /\ Len(out.scan) \in Nat /\ Len(t) = Len(out.scan) + 1
    BY <1>2
  <2>2. \A a, b, n \in Nat : a < n /\ b = a + 1 => b <= n
    OBVIOUS
  <2>3. Len(t) \in Nat
    BY <2>1
  <2>. QED BY <1>2, <2>1, <2>2, <2>3, DesktopAssumption
<1>4. out' = [out EXCEPT !.scan = t]
  OBVIOUS
<1>5. ScanGood(w', t)
  OBVIOUS
<1>. HIDE DEF t
<1>6. /\ out'.sql = out.sql /\ out'.scan = t /\ out'.audit = out.audit
      /\ out' \in [sql: Seq(SqlCommands), scan: Seq(ScanCommands), audit: Seq(AuditCommands)]
  BY <1>2, <1>3, <1>4
<1>7. QueuesInv'
  BY <1>1, <1>3, <1>6 DEF Queues, QueuesInv
<1>8. SqlInv'
  BY <1>1, <1>6, SqlFrame DEF Good, ClickStep
<1>9. ScanInv'
  <2>. in' = in /\ scan' = scan
    BY DEF ClickStep
  <2>1. (PauseHeld' <=> PauseHeld) /\ (PauseTold' <=> PauseTold) /\ (Alive' <=> Alive)
    BY DEF PauseHeld, PauseTold, Alive
  <2>2. ASSUME OnePause(w', t) PROVE OnePause(w, out.scan)'
    BY <1>6, <2>2 DEF OnePause, PauseAsked, PauseTold, PauseHeld
  <2>3. ASSUME PausesAgree(w') PROVE PausesAgree(w)'
    BY <2>1, <2>3 DEF PausesAgree
  <2>. QED BY <1>5, <2>1, <2>2, <2>3 DEF ScanInv, ScanGood
<1>10. AuditInv'
  BY <1>1, <1>6, AuditFrame DEF Good, ClickStep
<1>. QED BY <1>7, <1>8, <1>9, <1>10, ClickKeepsTypes DEF Good

LEMMA ScanNowKeeps ==
    ASSUME IInv, ClickStep, w' = ScanNow(w, out)[1], out' = ScanNow(w, out)[2],
           ScanNow(w, out) # <<w, out>>
    PROVE  Good' /\ SaveKept(w', w)
<1>1. Good /\ w \in Window /\ Shown(w) /\ Queues(out)
  BY ClickFacts
<1>2. Room(out.scan, Commands) /\ ScanNow(w, out) = <<[w EXCEPT !.scanning = TRUE],
                                                     [out EXCEPT !.scan = Append(@, Event("Scan"))]>>
  BY DEF ScanNow
<1>. DEFINE c == Event("Scan")
            t == Append(out.scan, c)
<1>3. w' = [w EXCEPT !.scanning = TRUE] /\ out' = [out EXCEPT !.scan = Append(@, c)]
  <2>. DEFINE v == [w EXCEPT !.scanning = TRUE]
              o == [out EXCEPT !.scan = Append(@, c)]
  <2>1. ScanNow(w, out) = <<v, o>>
    BY <1>2
  <2>. HIDE DEF v, o
  <2>2. w' = v /\ out' = o
    BY <2>1
  <2>. QED BY <2>2 DEF v, o
<1>4. /\ w' \in Window /\ SqlSame(w', w) /\ AuditSame(w', w) /\ PauseSame(w', w)
      /\ w'.detail = w.detail /\ w'.changes = w.changes
  <2>1. w \in Window /\ w' = [w EXCEPT !.scanning = TRUE]
    BY <1>1, <1>3
  <2>2. w' \in Window
    BY <2>1 DEF Window
  <2>. QED BY <2>1, <2>2 DEF Window, SqlSame, AuditSame, PauseSame
<1>5. Shown(w')
  BY <1>1, <1>4 DEF Shown, AuditSame
<1>6. c \in ScanCommands /\ ~PauseEvent(c)
  BY DEF Event, ScanCommands, PauseEvent
<1>. HIDE DEF c
<1>7. ScanGood(w', t)
  <2>1. out.scan \in Seq(ScanCommands)
    BY <1>1 DEF Queues
  <2>2. /\ \A i \in DOMAIN t : \/ i \in DOMAIN out.scan /\ t[i] = out.scan[i]
                               \/ i = Len(out.scan) + 1 /\ t[i] = c
    BY <1>6, <2>1, AppendFacts
  <2>. HIDE DEF t
  <2>3. \A i \in DOMAIN t : PauseEvent(t[i]) => i \in DOMAIN out.scan /\ PauseEvent(out.scan[i])
    BY <1>6, <2>2
  <2>4. PauseAsked(t) => PauseAsked(out.scan)
    BY <2>3 DEF PauseAsked
  <2>5. SUFFICES ASSUME Alive PROVE OnePause(w', t) /\ PausesAgree(w')
    BY DEF ScanGood
  <2>6. OnePause(w, out.scan) /\ PausesAgree(w)
    BY <1>1, <2>5 DEF Good, ScanInv, ScanGood
  <2>7. OnePause(w', t)
    BY <1>4, <2>3, <2>4, <2>6 DEF OnePause, PauseSame
  <2>. QED BY <1>4, <2>6, <2>7 DEF PausesAgree, PauseSame
<1>. QED BY <1>2, <1>3, <1>4, <1>5, <1>6, <1>7, ScanSends DEF SaveKept, AuditSame

LEMMA PauseKeeps ==
    ASSUME IInv, ClickStep, w' = PauseOrResume(w, out)[1], out' = PauseOrResume(w, out)[2],
           PauseOrResume(w, out) # <<w, out>>
    PROVE  Good' /\ SaveKept(w', w)
<1>1. Good /\ w \in Window /\ Shown(w) /\ Queues(out)
  BY ClickFacts
<1>. DEFINE c == Paused(w.monitoring)
            t == Append(out.scan, c)
<1>2. /\ Room(out.scan, Commands) /\ ~w.pause_pending
      /\ PauseOrResume(w, out) = <<[w EXCEPT !.pause_pending = TRUE],
                                   [out EXCEPT !.scan = Append(@, c)]>>
  BY DEF PauseOrResume
<1>3. w' = [w EXCEPT !.pause_pending = TRUE] /\ out' = [out EXCEPT !.scan = Append(@, c)]
  <2>. DEFINE v == [w EXCEPT !.pause_pending = TRUE]
              o == [out EXCEPT !.scan = Append(@, c)]
  <2>1. PauseOrResume(w, out) = <<v, o>>
    BY <1>2
  <2>. HIDE DEF v, o
  <2>2. w' = v /\ out' = o
    BY <2>1
  <2>. QED BY <2>2 DEF v, o
<1>4. /\ w' \in Window /\ SqlSame(w', w) /\ AuditSame(w', w) /\ w'.pause_pending = TRUE
      /\ w'.monitoring = w.monitoring /\ w'.detail = w.detail /\ w'.changes = w.changes
  BY <1>1, <1>3 DEF Window, SqlSame, AuditSame
<1>5. Shown(w')
  BY <1>1, <1>4 DEF Shown, AuditSame
<1>6. c \in ScanCommands
  BY <1>1 DEF Paused, ScanCommands, Window
<1>. HIDE DEF c
<1>7. ScanGood(w', t)
  <2>1. out.scan \in Seq(ScanCommands)
    BY <1>1 DEF Queues
  <2>2. \A i \in DOMAIN t : \/ i \in DOMAIN out.scan /\ t[i] = out.scan[i]
                            \/ i = Len(out.scan) + 1 /\ t[i] = c
    BY <1>6, <2>1, AppendFacts
  <2>. HIDE DEF t
  <2>3. SUFFICES ASSUME Alive PROVE OnePause(w', t) /\ PausesAgree(w')
    BY DEF ScanGood
  <2>4. OnePause(w, out.scan) /\ PausesAgree(w)
    BY <1>1, <2>3 DEF Good, ScanInv, ScanGood
  <2>5. ~PauseTold /\ \A i \in DOMAIN out.scan : ~PauseEvent(out.scan[i])
    BY <1>2, <2>4 DEF OnePause, PauseAsked
  <2>6. \A i, j \in DOMAIN t : PauseEvent(t[i]) /\ PauseEvent(t[j]) => i = j
    BY <2>2, <2>5
  <2>7. OnePause(w', t)
    BY <1>4, <2>4, <2>5, <2>6 DEF OnePause
  <2>. QED BY <1>4, <2>4, <2>7 DEF PausesAgree
<1>. QED BY <1>2, <1>3, <1>4, <1>5, <1>6, <1>7, ScanSends DEF SaveKept, AuditSame

\* While no analysis is shown nobody works on one.
LEMMA NobodyAnalyzes ==
    ASSUME Counters, WorkersTyped, Good, ~w.auditing
    PROVE  /\ out.audit = <<>> /\ DOMAIN in.audit = {} /\ Len(in.audit) = 0
           /\ audit.pc \notin {"busy", "deliver"} /\ Working = 0
<1>1. /\ Len(in.audit) \in Nat /\ Len(out.audit) \in Nat /\ Working \in {0, 1}
      /\ in.audit \in Seq(AuditEvents) /\ out.audit \in Seq(AuditCommands)
  BY DEF WorkersTyped, Good, QueuesInv, Queues, Working
<1>2. /\ Len(in.audit) + Working + Len(out.audit) <= 1
      /\ Len(in.audit) + Working + Len(out.audit) # 1
  BY DEF Good, AuditInv, AuditGood, OneAnalysis
<1>3. Len(in.audit) = 0 /\ Working = 0 /\ Len(out.audit) = 0
  <2>1. \A a, c \in Nat, b \in {0, 1} : a + b + c <= 1 /\ a + b + c # 1 => a = 0 /\ b = 0 /\ c = 0
    OBVIOUS
  <2>. QED BY <1>1, <1>2, <2>1, Zenon
<1>4. out.audit = <<>> /\ in.audit = <<>>
  BY <1>1, <1>3
<1>. QED BY <1>3, <1>4 DEF Working

LEMMA AnalyzeKeeps ==
    ASSUME IInv, ClickStep, w' = Analyze(w, out)[1], out' = Analyze(w, out)[2],
           Analyze(w, out) # <<w, out>>
    PROVE  Good' /\ SaveKept(w', w)
<1>1. Counters /\ WorkersTyped /\ Good /\ w \in Window /\ Shown(w) /\ Queues(out)
      /\ w.audits <= clicks /\ clicks \in Nat
  BY ClickFacts
<1>. DEFINE c == [number |-> w.audits + 1, cancel_generation |-> cancels.value]
            t == Append(out.audit, c)
<1>2. /\ ~w.auditing /\ ~SavePending(w.save)
      /\ Analyze(w, out) = <<[w EXCEPT !.auditing = TRUE, !.save = NoSave, !.audits = @ + 1],
                             [out EXCEPT !.audit = Append(@, c)]>>
  BY DEF Analyze
<1>3. PICK n \in 0..MaxClicks : n = w.audits + 1 /\ n \in Audits /\ n <= clicks + 1
  <2>1. clicks < MaxClicks /\ MaxClicks \in Nat /\ w.audits \in Nat
    BY <1>1, DesktopAssumption DEF ClickStep, Window
  <2>2. \A a, b, m \in Nat : a <= b /\ b < m => a + 1 \in 1..m /\ a + 1 <= b + 1 /\ a + 1 \in 0..m
    OBVIOUS
  <2>. QED BY <1>1, <2>1, <2>2 DEF Audits
<1>4. /\ w' = [w EXCEPT !.auditing = TRUE, !.save = NoSave, !.audits = n]
      /\ out' = [out EXCEPT !.audit = t]
  <2>. DEFINE v == [w EXCEPT !.auditing = TRUE, !.save = NoSave, !.audits = n]
              o == [out EXCEPT !.audit = t]
  <2>1. Analyze(w, out) = <<v, o>>
    BY <1>2, <1>3
  <2>. HIDE DEF v, o
  <2>2. w' = v /\ out' = o
    BY <2>1
  <2>. QED BY <2>2 DEF v, o
<1>5. w' \in Window
  <2>1. NoSave \in [report: 0..MaxClicks, state: {"none", "Queued", "Saving", "Saved", "Failed"}]
    BY DesktopAssumption DEF NoSave
  <2>2. \A x \in [report: 0..MaxClicks, state: {"none", "Queued", "Saving", "Saved", "Failed"}],
           y \in 0..MaxClicks : [w EXCEPT !.auditing = TRUE, !.save = x, !.audits = y] \in Window
    BY <1>1 DEF Window
  <2>3. [w EXCEPT !.auditing = TRUE, !.save = NoSave, !.audits = n] \in Window
    BY <2>1, <2>2, Zenon
  <2>. QED BY <1>4, <2>3
<1>6. /\ PauseSame(w', w) /\ DataSame(w', w) /\ w'.save = NoSave /\ w'.auditing = TRUE
      /\ w'.audits = n /\ w'.detail = w.detail /\ w'.changes = w.changes
      /\ w'.busy = w.busy /\ w'.snapshot_loading = w.snapshot_loading
      /\ w'.asked = w.asked /\ w'.cancelled = w.cancelled
  BY <1>1, <1>4 DEF Window, PauseSame, DataSame
<1>7. Shown(w')
  BY <1>1, <1>3, <1>5, <1>6 DEF Shown
<1>8. /\ out.audit = <<>> /\ DOMAIN in.audit = {} /\ Len(in.audit) = 0
      /\ audit.pc \notin {"busy", "deliver"} /\ Working = 0
  BY <1>1, <1>2, NobodyAnalyzes
<1>9. c \in AuditCommands /\ c.number = n /\ c.cancel_generation = cancels.value
  <2>1. cancels.value \in 0..MaxClicks
    BY <1>1, DesktopAssumption DEF Counters
  <2>. QED BY <1>3, <2>1 DEF AuditCommands
<1>. HIDE DEF c
<1>10. t \in Seq(AuditCommands) /\ Len(t) = 1 /\ \A i \in DOMAIN t : t[i] = c
  <2>1. t = <<c>>
    BY <1>8
  <2>. QED BY <1>9, <2>1
<1>. HIDE DEF t
<1>11. /\ out'.sql = out.sql /\ out'.scan = out.scan /\ out'.audit = t
       /\ out' \in [sql: Seq(SqlCommands), scan: Seq(ScanCommands), audit: Seq(AuditCommands)]
  BY <1>1, <1>4, <1>10 DEF Queues
<1>12. QueuesInv'
  <2>1. Len(out'.audit) <= 1 /\ Len(out'.sql) <= Commands /\ Len(out'.scan) <= Commands
    <3>1. Len(t) <= 1
      BY <1>10
    <3>2. Len(out.sql) <= Commands /\ Len(out.scan) <= Commands
      BY <1>1 DEF Queues
    <3>. QED BY <1>11, <3>1, <3>2, Zenon
  <2>. QED BY <1>11, <2>1 DEF Queues, QueuesInv
<1>13. SqlInv'
  <2>1. SqlGood(w, Line(out.sql), db, ScanRefreshes)
    BY <1>1 DEF Good, SqlInv
  <2>2. w.save.state # "Saving"
    BY <1>2 DEF SavePending
  <2>3. SqlGood(w', Line(out.sql), db, ScanRefreshes)
    BY <1>6, <2>1, <2>2, SaveIsGood, Zenon
  <2>4. Held' = Held /\ HeldCell' = HeldCell /\ ScanRefreshes' = ScanRefreshes
    BY ClickFacts
  <2>5. Line(out.sql)' = Line(out.sql)
    BY <1>11, <2>4, Zenon DEF Line, ClickStep
  <2>. QED BY <2>3, <2>4, <2>5 DEF SqlInv, ClickStep
<1>14. ScanInv'
  BY <1>1, <1>6, <1>11, ScanFrame DEF Good, ClickStep, PauseSame
<1>15. AuditInv'
  <2>1. OneAnalysis(w, out.audit) /\ CancelsAreAsked(w, out.audit) /\ ReportsAreKept(w)
    BY <1>1 DEF Good, AuditInv, AuditGood
  <2>. in' = in /\ audit' = audit /\ cancels' = cancels /\ db' = db
    BY DEF ClickStep
  <2>2. OneAnalysis(w, out.audit)'
    <3>1. Working' = 0
      BY <1>8 DEF Working
    <3>2. Len(in'.audit) + Working' + Len(out'.audit) = 1
      BY <1>8, <1>10, <1>11, <3>1
    <3>. QED BY <1>6, <1>8, <1>9, <1>10, <1>11, <3>2 DEF OneAnalysis
  <2>3. CancelsAreAsked(w, out.audit)'
    BY <1>6, <1>8, <1>9, <1>10, <1>11, <2>1 DEF CancelsAreAsked
  <2>4. ReportsAreKept(w)'
    <3>1. /\ w.audits \in Nat /\ w.cancelled \cup db.reports \subseteq 1..w.audits
          /\ w.cancelled \cap db.reports = {}
      BY <1>1, <2>1 DEF ReportsAreKept, Window
    <3>2. n \notin 1..w.audits /\ 1..w.audits \subseteq 1..n /\ 0 \notin 1..w.audits
          /\ 0 <= n
      BY <1>3, <3>1
    <3>. QED BY <1>3, <1>6, <3>1, <3>2 DEF ReportsAreKept, NoSave
  <2>. QED BY <2>2, <2>3, <2>4 DEF AuditInv, AuditGood
<1>16. SaveKept(w', w)
  BY <1>2 DEF SaveKept
<1>. QED BY <1>7, <1>12, <1>13, <1>14, <1>15, <1>16, ClickKeepsTypes DEF Good

LEMMA DrawCancelledKeeps ==
    ASSUME IInv, DrawCancelled
    PROVE  Counters' /\ WorkersTyped' /\ stop' = FALSE /\ Good' /\ w'.save = w.save
<1>1. /\ ~stop /\ turn' = "sql" /\ clicks < MaxClicks /\ clicks' = clicks + 1 /\ w.auditing
      /\ w' = [w EXCEPT !.asked = @ \cup {w.audits}]
      /\ cancels' = [cancels EXCEPT !.value = @ + 1]
      /\ UNCHANGED <<in, out, latest, stop, sql, scan, audit, db, cycles, errors, user>>
  BY DEF DrawCancelled
<1>2. Counters /\ WorkersTyped /\ Good
  BY <1>1 DEF IInv
<1>3. OneAnalysis(w, out.audit) /\ CancelsAreAsked(w, out.audit) /\ ReportsAreKept(w)
  BY <1>2 DEF Good, AuditInv, AuditGood
<1>4. w \in Window /\ w.audits \in Audits
  BY <1>1, <1>2, <1>3 DEF Good, WindowInv, WindowGood, ReportsAreKept
<1>5. /\ w' \in Window /\ SqlSame(w', w) /\ PauseSame(w', w)
      /\ w'.detail = w.detail /\ w'.changes = w.changes /\ w'.audits = w.audits
      /\ w'.auditing = w.auditing /\ w'.save = w.save /\ w'.cancelled = w.cancelled
      /\ w'.asked = w.asked \cup {w.audits}
  <2>1. PICK a \in SUBSET Audits : a = w.asked \cup {w.audits}
    BY <1>4 DEF Window
  <2>2. w' = [w EXCEPT !.asked = a]
    BY <1>1, <2>1
  <2>. QED BY <1>4, <2>1, <2>2 DEF Window, SqlSame, PauseSame
<1>6. Counters'
  <2>1. /\ clicks' \in 0..MaxClicks /\ cancels' \in [value: Nat, seen: Nat]
        /\ cancels'.seen <= cancels'.value /\ cancels'.value <= clicks'
    <3>1. /\ cancels.value \in Nat /\ cancels.seen \in Nat /\ clicks \in 0..MaxClicks
          /\ cancels.seen <= cancels.value /\ cancels.value <= clicks
          /\ cancels \in [value: Nat, seen: Nat]
      BY <1>2 DEF Counters
    <3>2. cancels'.value = cancels.value + 1 /\ cancels'.seen = cancels.seen
          /\ cancels' \in [value: Nat, seen: Nat]
      BY <1>1, <3>1
    <3>. QED BY <1>1, <3>1, <3>2, DesktopAssumption
  <2>. QED BY <1>1, <1>2, <2>1 DEF Counters
<1>7. WorkersTyped'
  BY <1>1, <1>2 DEF WorkersTyped
<1>8. WindowInv'
  <2>1. w.detail <= clicks + 1 /\ w.audits <= clicks + 1
    BY <1>2, <1>4, DesktopAssumption DEF Good, WindowInv, WindowGood, Counters, Window
  <2>. QED BY <1>1, <1>2, <1>5, <2>1 DEF Good, WindowInv, WindowGood, SqlSame
<1>9. QueuesInv'
  BY <1>1, <1>2 DEF Good, QueuesInv
<1>10. SqlInv'
  <2>1. ScanRefreshing' = ScanRefreshing
    BY <1>1 DEF ScanRefreshing
  <2>. QED BY <1>1, <1>2, <1>5, <2>1, SqlFrame DEF Good
<1>11. ScanInv'
  BY <1>1, <1>2, <1>5, ScanFrame DEF Good, PauseSame
<1>12. AuditInv'
  <2>1. OneAnalysis(w, out.audit)'
    BY <1>1, <1>3, <1>5 DEF OneAnalysis, Working
  <2>2. CancelsAreAsked(w, out.audit)'
    <3>1. w'.audits \in w'.asked /\ w'.cancelled \subseteq w'.asked
      BY <1>3, <1>5 DEF CancelsAreAsked
    <3>. QED BY <3>1 DEF CancelsAreAsked
  <2>3. ReportsAreKept(w)'
    BY <1>1, <1>3, <1>5 DEF ReportsAreKept
  <2>. QED BY <2>1, <2>2, <2>3 DEF AuditInv, AuditGood
<1>. QED BY <1>1, <1>5, <1>6, <1>7, <1>8, <1>9, <1>10, <1>11, <1>12 DEF Good

LEMMA DrawClickedKeeps ==
    ASSUME IInv, NEW c \in user, DrawClicked(c)
    PROVE  /\ Counters' /\ WorkersTyped' /\ stop' = FALSE /\ Good'
           /\ SaveKept(w', w)
<1>1. /\ ClickStep /\ w' = Click(w, out, c)[1] /\ out' = Click(w, out, c)[2]
      /\ Click(w, out, c) # <<w, out>>
  BY DEF DrawClicked, ClickStep
<1>2. w \in Window
  BY <1>1, ClickFacts
<1>3. Good' /\ SaveKept(w', w)
  <2>1. CASE c = "open" /\ w.rows # None
    <3>1. Click(w, out, c) = OpenDetail(w, out)
      BY <2>1 DEF Click
    <3>. QED BY <1>1, <2>1, <3>1, OpenKeeps DEF SaveKept
  <2>2. CASE c = "watch" /\ w.selected # None
    <3>1. Click(w, out, c) = Operation(w, out, Mutate(~w.selected))
      BY <2>2 DEF Click
    <3>2. Mutate(~w.selected) \in SqlCommands /\ Mutate(~w.selected).type = "Mutate"
      BY <1>2, <2>2 DEF Mutate, SqlCommands, Window
    <3>. QED BY <1>1, <3>1, <3>2, OperationKeeps DEF SaveKept
  <2>3. CASE c = "re-evaluate"
    <3>1. Click(w, out, c) = Operation(w, out, ReEvaluate)
      BY <2>3 DEF Click
    <3>2. ReEvaluate \in SqlCommands /\ ReEvaluate.type = "ReEvaluate"
      BY DEF ReEvaluate, SqlCommands
    <3>. QED BY <1>1, <3>1, <3>2, OperationKeeps DEF SaveKept
  <2>4. CASE c = "scan"
    <3>1. Click(w, out, c) = ScanNow(w, out)
      BY <2>4 DEF Click
    <3>. QED BY <1>1, <3>1, ScanNowKeeps
  <2>5. CASE c = "pause"
    <3>1. Click(w, out, c) = PauseOrResume(w, out)
      BY <2>5 DEF Click
    <3>. QED BY <1>1, <3>1, PauseKeeps
  <2>6. CASE c = "analyze"
    <3>1. Click(w, out, c) = Analyze(w, out)
      BY <2>6 DEF Click
    <3>. QED BY <1>1, <3>1, AnalyzeKeeps
  <2>7. CASE /\ ~(c = "open" /\ w.rows # None) /\ ~(c = "watch" /\ w.selected # None)
             /\ c \notin {"re-evaluate", "scan", "pause", "analyze"}
    <3>1. Click(w, out, c) = Keep(w, out, c)
      BY <2>7 DEF Click
    <3>2. CASE c = "search"
      <4>1. w' = RequestQuery(w) /\ out' = out
        BY <1>1, <3>1, <3>2 DEF Keep
      <4>. QED BY <1>1, <4>1, SearchKeeps
    <3>3. CASE c = "shut"
      <4>1. w' = [w EXCEPT !.selected = None] /\ out' = out
        BY <1>1, <3>1, <3>3 DEF Keep
      <4>. QED BY <1>1, <4>1, ShutKeeps
    <3>4. CASE c = "retry" /\ w.save.state = "Failed"
      <4>1. w' = [w EXCEPT !.save.state = "Queued"] /\ out' = out
        BY <1>1, <3>1, <3>4 DEF Keep
      <4>. QED BY <1>1, <3>4, <4>1, RetryKeeps
    <3>5. CASE c \notin {"search", "shut"} /\ ~(c = "retry" /\ w.save.state = "Failed")
      BY <1>1, <3>1, <3>5 DEF Keep
    <3>. QED BY <3>2, <3>3, <3>4, <3>5
  <2>. QED BY <2>1, <2>2, <2>3, <2>4, <2>5, <2>6, <2>7
<1>4. Shown(w')
  BY <1>1, <1>3 DEF Good, WindowInv, WindowGood, Shown, ClickStep
<1>5. Counters' /\ WorkersTyped' /\ stop' = FALSE
  BY <1>1, <1>4, ClickKeepsTypes
<1>. QED BY <1>3, <1>5

LEMMA CloseKeeps ==
    ASSUME IInv, Close
    PROVE  Counters' /\ WorkersTyped' /\ stop' = TRUE /\ Closed'
<1>1. /\ stop' = TRUE /\ w' = Blank /\ out' = NoQueues
      /\ UNCHANGED <<turn, in, latest, cancels, sql, scan, audit, db, clicks, cycles, errors, user>>
  BY DEF Close
<1>2. Counters /\ WorkersTyped
  BY DEF IInv
<1>3. Counters'
  BY <1>1, <1>2 DEF Counters
<1>4. WorkersTyped'
  BY <1>1, <1>2 DEF WorkersTyped
<1>. QED BY <1>1, <1>3, <1>4 DEF Closed

(***************************************************************************)
(* The workers.                                                            *)
(***************************************************************************)

\* A step of a worker leaves the window alone, so that a closed one stays closed.
WorkerStep ==
    /\ w' = w /\ turn' = turn /\ latest' = latest /\ stop' = stop
    /\ clicks' = clicks /\ user' = user

LEMMA StepKeeps ==
    ASSUME IInv, WorkerStep, Counters', WorkersTyped', out' = out \/ ~stop, ~stop => Good'
    PROVE  IInv'
<1>1. CASE stop
  <2>1. Closed /\ w' = w /\ out' = out /\ stop' = TRUE
    BY <1>1 DEF IInv, WorkerStep, Counters
  <2>2. Closed'
    BY <2>1 DEF Closed
  <2>. QED BY <2>1, <2>2 DEF IInv
<1>2. CASE ~stop
  BY <1>2 DEF IInv, WorkerStep
<1>. QED BY <1>1, <1>2

\* The answer to a command, and what has become of the database.
Answered(c, e) ==
    /\ e \in SqlEvents /\ Answers(e, c)
    /\ sql' = Says([sql EXCEPT !.command = NoEvent], e, "idle")
    /\ \/ db' = db /\ Reads(e, db)
       \/ Writes(e, db, db')
    /\ \/ db'.reports = db.reports
       \/ c.type = "SaveReport" /\ db'.reports = db.reports \cup {c.report}

LEMMA RunAnswers ==
    ASSUME WorkersTyped, SqlRun, ~(sql.command.type = "Query" /\ sql.command.gen # latest)
    PROVE  \E e : Answered(sql.command, e)
<1>. DEFINE c == sql.command
<1>1. c \in SqlCommands /\ db \in [version: Nat, watched: BOOLEAN, reports: SUBSET Audits]
  BY DEF WorkersTyped, SqlRun
<1>2. /\ c.type \in {"Query", "Snapshot", "Changes", "Mutate", "ReEvaluate", "SaveReport"}
      /\ c.type = "Query" => c.gen \in Nat
      /\ c.type = "Changes" => c.gen \in 0..MaxClicks
      /\ c.type = "Mutate" => c.watched \in BOOLEAN
      /\ c.type = "SaveReport" => c.report \in Audits
  BY <1>1, SqlCommandFacts
<1>3. ASSUME NEW e, e \in SqlEvents, Answers(e, c), Reads(e, db), db' = db,
             sql' = Says([sql EXCEPT !.command = NoEvent], e, "idle")
      PROVE  Answered(c, e)
  BY <1>3, Zenon DEF Answered
<1>4. CASE c.type = "Query"
  <2>. DEFINE e1 == [type |-> "Repositories", gen |-> c.gen,
                     rows |-> [gen |-> c.gen, data |-> Seen]]
              e2 == [type |-> "Repositories", gen |-> c.gen, rows |-> None]
  <2>1. \/ sql' = Says([sql EXCEPT !.command = NoEvent], e1, "idle") /\ db' = db
        \/ sql' = Says([sql EXCEPT !.command = NoEvent], e2, "idle") /\ db' = db
    BY <1>4 DEF SqlRun
  <2>2. e1 \in SqlEvents /\ e2 \in SqlEvents
    <3>1. Seen \in Data
      BY <1>1 DEF Seen, Data
    <3>. QED BY <1>2, <1>4, <3>1 DEF SqlEvents
  <2>3. Answers(e1, c) /\ Answers(e2, c)
    BY <1>4 DEF Answers, Kind, Cell
  <2>4. Reads(e1, db) /\ Reads(e2, db)
    BY DEF Reads, Seen
  <2>. HIDE DEF c, e1, e2
  <2>5. Answered(c, e1) \/ Answered(c, e2)
    BY <1>3, <2>1, <2>2, <2>3, <2>4, Zenon
  <2>. QED BY <2>5, Zenon DEF c
<1>5. CASE c.type = "Snapshot"
  <2>. DEFINE e1 == [type |-> "Snapshot", data |-> [version |-> db.version, reports |-> db.reports]]
              e2 == [type |-> "Snapshot", data |-> None]
  <2>1. \/ sql' = Says([sql EXCEPT !.command = NoEvent], e1, "idle") /\ db' = db
        \/ sql' = Says([sql EXCEPT !.command = NoEvent], e2, "idle") /\ db' = db
    BY <1>5 DEF SqlRun
  <2>2. e1 \in SqlEvents /\ e2 \in SqlEvents
    BY <1>1 DEF SqlEvents
  <2>3. Answers(e1, c) /\ Answers(e2, c)
    BY <1>5 DEF Answers, Kind, Cell
  <2>4. Reads(e1, db) /\ Reads(e2, db)
    BY DEF Reads, Told
  <2>. HIDE DEF c, e1, e2
  <2>5. Answered(c, e1) \/ Answered(c, e2)
    BY <1>3, <2>1, <2>2, <2>3, <2>4, Zenon
  <2>. QED BY <2>5, Zenon DEF c
<1>6. CASE c.type = "Changes"
  <2>. DEFINE e1 == [type |-> "Changes", gen |-> c.gen, ok |-> TRUE]
              e2 == [type |-> "Changes", gen |-> c.gen, ok |-> FALSE]
  <2>1. \/ sql' = Says([sql EXCEPT !.command = NoEvent], e1, "idle") /\ db' = db
        \/ sql' = Says([sql EXCEPT !.command = NoEvent], e2, "idle") /\ db' = db
    BY <1>6 DEF SqlRun
  <2>2. e1 \in SqlEvents /\ e2 \in SqlEvents
    BY <1>2, <1>6 DEF SqlEvents
  <2>3. Answers(e1, c) /\ Answers(e2, c)
    BY <1>6 DEF Answers, Kind, Cell
  <2>4. Reads(e1, db) /\ Reads(e2, db)
    BY DEF Reads
  <2>. HIDE DEF c, e1, e2
  <2>5. Answered(c, e1) \/ Answered(c, e2)
    BY <1>3, <2>1, <2>2, <2>3, <2>4, Zenon
  <2>. QED BY <2>5, Zenon DEF c
<1>7. CASE c.type = "Mutate"
  <2>. DEFINE e1 == [type |-> "Mutated", watched |-> c.watched, ok |-> TRUE]
              e2 == [type |-> "Mutated", watched |-> c.watched, ok |-> FALSE]
  <2>1. \/ /\ sql' = Says([sql EXCEPT !.command = NoEvent], e1, "idle")
           /\ db' = [db EXCEPT !.version = @ + 1, !.watched = c.watched]
        \/ sql' = Says([sql EXCEPT !.command = NoEvent], e2, "idle") /\ db' = db
    BY <1>7 DEF SqlRun
  <2>2. e1 \in SqlEvents /\ e2 \in SqlEvents
    BY <1>2, <1>7 DEF SqlEvents
  <2>3. Answers(e1, c) /\ Answers(e2, c)
    BY <1>7 DEF Answers, Kind, Cell
  <2>4. Reads(e2, db)
    BY DEF Reads
  <2>5. ASSUME db' = [db EXCEPT !.version = @ + 1, !.watched = c.watched]
        PROVE  Writes(e1, db, db') /\ db'.reports = db.reports
    BY <1>1, <2>5 DEF Writes
  <2>. HIDE DEF c, e1, e2
  <2>6. Answered(c, e1) \/ Answered(c, e2)
    BY <1>3, <2>1, <2>2, <2>3, <2>4, <2>5, Zenon DEF Answered
  <2>. QED BY <2>6, Zenon DEF c
<1>8. CASE c.type = "ReEvaluate"
  <2>. DEFINE e1 == [type |-> "Completed", ok |-> TRUE]
              e2 == [type |-> "Completed", ok |-> FALSE]
  <2>1. \/ /\ sql' = Says([sql EXCEPT !.command = NoEvent], e1, "idle")
           /\ db' = [db EXCEPT !.version = @ + 1]
        \/ sql' = Says([sql EXCEPT !.command = NoEvent], e2, "idle") /\ db' = db
    BY <1>8 DEF SqlRun
  <2>2. e1 \in SqlEvents /\ e2 \in SqlEvents
    BY DEF SqlEvents
  <2>3. Answers(e1, c) /\ Answers(e2, c)
    BY <1>8 DEF Answers, Kind, Cell
  <2>4. Reads(e2, db)
    BY DEF Reads
  <2>5. ASSUME db' = [db EXCEPT !.version = @ + 1]
        PROVE  Writes(e1, db, db') /\ db'.reports = db.reports
    BY <1>1, <2>5 DEF Writes
  <2>. HIDE DEF c, e1, e2
  <2>6. Answered(c, e1) \/ Answered(c, e2)
    BY <1>3, <2>1, <2>2, <2>3, <2>4, <2>5, Zenon DEF Answered
  <2>. QED BY <2>6, Zenon DEF c
<1>9. CASE c.type = "SaveReport"
  <2>. DEFINE e1 == [type |-> "ReportSaved", report |-> c.report, ok |-> TRUE]
              e2 == [type |-> "ReportSaved", report |-> c.report, ok |-> FALSE]
  <2>1. \/ /\ sql' = Says([sql EXCEPT !.command = NoEvent], e1, "idle")
           /\ db' = [db EXCEPT !.reports = @ \cup {c.report}, !.version = @ + 1]
        \/ sql' = Says([sql EXCEPT !.command = NoEvent], e2, "idle") /\ db' = db
    BY <1>9 DEF SqlRun
  <2>2. e1 \in SqlEvents /\ e2 \in SqlEvents
    BY <1>2, <1>9 DEF SqlEvents
  <2>3. Answers(e1, c) /\ Answers(e2, c)
    BY <1>9 DEF Answers, Kind, Cell
  <2>4. Reads(e2, db)
    BY DEF Reads
  <2>5. ASSUME db' = [db EXCEPT !.reports = @ \cup {c.report}, !.version = @ + 1]
        PROVE  Writes(e1, db, db') /\ db'.reports = db.reports \cup {c.report}
    BY <1>1, <2>5 DEF Writes
  <2>. HIDE DEF c, e1, e2
  <2>6. Answered(c, e1) \/ Answered(c, e2)
    BY <1>3, <1>9, <2>1, <2>2, <2>3, <2>4, <2>5, Zenon DEF Answered
  <2>. QED BY <2>6, Zenon DEF c
<1>. QED BY <1>2, <1>4, <1>5, <1>6, <1>7, <1>8, <1>9

\* The sql worker works on something else in the line.
LEMMA SqlStepKeeps ==
    ASSUME IInv, ~stop, w' = w, latest' = latest, out'.scan = out.scan, out'.audit = out.audit,
           in'.scan = in.scan, in'.audit = in.audit, scan' = scan, audit' = audit,
           cancels' = cancels, clicks' = clicks, db'.reports = db.reports,
           QueuesInv', SqlGood(w, LineOf(in'.sql, Held', HeldCell', out'.sql), db', ScanRefreshes)
    PROVE  Good'
<1>1. Good
  BY DEF IInv
<1>2. WindowInv'
  BY <1>1 DEF Good, WindowInv, WindowGood
<1>3. ScanInv' /\ ScanRefreshing' = ScanRefreshing
  BY <1>1, ScanFrame DEF Good, ScanRefreshing
<1>4. SqlInv'
  BY <1>3 DEF SqlInv, Line, ScanRefreshes
<1>5. AuditInv'
  BY <1>1, AuditFrame DEF Good, AuditSame
<1>. QED BY <1>2, <1>3, <1>4, <1>5 DEF Good

LEMMA SqlTakeKeeps ==
    ASSUME IInv, SqlTake
    PROVE  IInv'
<1>. DEFINE c == Head(out.sql)
            t == Tail(out.sql)
<1>1. /\ ~stop /\ out.sql # <<>> /\ sql.pc = "idle" /\ out' = [out EXCEPT !.sql = t]
      /\ sql' = IF c.type = "Query" /\ c.gen # latest THEN sql
                ELSE [sql EXCEPT !.pc = "busy", !.command = c]
      /\ UNCHANGED <<w, turn, in, latest, cancels, stop, scan, audit, db, clicks, cycles, errors, user>>
  BY DEF SqlTake
<1>2. Counters /\ WorkersTyped /\ Good
  BY <1>1 DEF IInv
<1>3. /\ out.sql \in Seq(SqlCommands) /\ Len(out.sql) <= Commands /\ in.sql \in Seq(SqlEvents)
      /\ out \in [sql: Seq(SqlCommands), scan: Seq(ScanCommands), audit: Seq(AuditCommands)]
  BY <1>2 DEF Good, QueuesInv, Queues, WorkersTyped
<1>4. c \in SqlCommands /\ t \in Seq(SqlCommands) /\ Len(t) <= Commands
  <2>1. /\ c \in SqlCommands /\ t \in Seq(SqlCommands) /\ Len(out.sql) \in Nat
        /\ Len(t) = Len(out.sql) - 1
    BY <1>1, <1>3, TailFacts
  <2>2. \A a, b, n : a \in Nat /\ b = a - 1 /\ n \in Nat /\ a <= n => b <= n
    OBVIOUS
  <2>. QED BY <1>3, <2>1, <2>2, DesktopAssumption
<1>5. Held = 0 /\ SqlGood(w, LineOf(in.sql, 0, HeldCell, out.sql), db, ScanRefreshes)
  BY <1>1, <1>2 DEF Held, Good, SqlInv, Line
<1>6. /\ LineOf(in.sql, 1, Cell(FALSE, c), t) = LineOf(in.sql, 0, HeldCell, out.sql)
      /\ Removed(LineOf(in.sql, 0, HeldCell, out.sql), LineOf(in.sql, 0, HeldCell, t), Len(in.sql) + 1)
      /\ LineOf(in.sql, 0, HeldCell, out.sql)[Len(in.sql) + 1] = Cell(FALSE, c)
  <2>1. SqlLine(in.sql, out.sql) /\ out.sql # <<>>
    BY <1>1, <1>3 DEF SqlLine
  <2>2. LineOf(in.sql, 1, Cell(FALSE, c), t) = LineOf(in.sql, 0, HeldCell, out.sql)
    BY <2>1, LineTaken
  <2>3. /\ Removed(LineOf(in.sql, 0, HeldCell, out.sql), LineOf(in.sql, 0, HeldCell, t), Len(in.sql) + 1)
        /\ LineOf(in.sql, 0, HeldCell, out.sql)[Len(in.sql) + 1] = Cell(FALSE, c)
    BY <2>1, LineSkipped
  <2>. QED BY <2>2, <2>3
<1>. HIDE DEF c, t
<1>7. /\ out'.sql = t /\ out'.scan = out.scan /\ out'.audit = out.audit
      /\ out' \in [sql: Seq(SqlCommands), scan: Seq(ScanCommands), audit: Seq(AuditCommands)]
  BY <1>1, <1>3, <1>4
<1>8. QueuesInv'
  BY <1>2, <1>4, <1>7 DEF Good, QueuesInv, Queues
<1>9. Counters'
  BY <1>1, <1>2 DEF Counters
<1>10. WorkersTyped'
  <2>1. /\ sql' \in [pc: {"idle", "busy", "deliver", "gone"}, command: SqlCommands \cup {NoEvent},
                     event: SqlEvents \cup {NoEvent}, next: {"idle"}]
        /\ sql'.pc = "busy" => sql'.command \in SqlCommands
        /\ sql'.pc # "deliver"
    <3>1. sql \in [pc: {"idle", "busy", "deliver", "gone"}, command: SqlCommands \cup {NoEvent},
                   event: SqlEvents \cup {NoEvent}, next: {"idle"}]
      BY <1>2 DEF WorkersTyped
    <3>2. sql' = sql \/ sql' = [sql EXCEPT !.pc = "busy", !.command = c]
      BY <1>1
    <3>. QED BY <1>1, <1>4, <3>1, <3>2
  <2>. QED BY <1>1, <1>2, <2>1 DEF WorkersTyped
<1>11. SqlGood(w, LineOf(in'.sql, Held', HeldCell', out'.sql), db', ScanRefreshes)
  <2>1. CASE c.type = "Query" /\ c.gen # latest
    <3>1. Held' = 0 /\ HeldCell' = HeldCell
      BY <1>1, <2>1 DEF Held, HeldCell
    <3>. DEFINE L == LineOf(in.sql, 0, HeldCell, out.sql)
                p == Len(in.sql) + 1
    <3>2. ~Refreshes(L[p]) /\ Kind(L[p]) # "snapshot"
      BY <1>6, <2>1 DEF Refreshes, Kind, Cell
    <3>3. Removed(L, LineOf(in.sql, 0, HeldCell, t), p) /\ SqlGood(w, L, db, ScanRefreshes)
      BY <1>5, <1>6
    <3>. HIDE DEF L, p
    <3>4. SqlGood(w, LineOf(in.sql, 0, HeldCell, t), db, ScanRefreshes)
      BY <3>2, <3>3, RemovedKeepsSqlGood, Zenon
    <3>. QED BY <1>1, <1>7, <3>1, <3>4
  <2>2. CASE ~(c.type = "Query" /\ c.gen # latest)
    <3>1. sql'.pc = "busy" /\ sql'.command = c
      BY <1>1, <1>2, <2>2 DEF WorkersTyped
    <3>2. Held' = 1 /\ HeldCell' = Cell(FALSE, c)
      BY <3>1 DEF Held, HeldCell
    <3>. QED BY <1>1, <1>5, <1>6, <1>7, <3>2
  <2>. QED BY <2>1, <2>2
<1>12. Good'
  BY <1>1, <1>7, <1>8, <1>11, SqlStepKeeps
<1>. QED BY <1>1, <1>9, <1>10, <1>12 DEF IInv

LEMMA SqlDeliverKeeps ==
    ASSUME IInv, SqlDeliver
    PROVE  IInv'
<1>1. /\ sql.pc = "deliver" /\ MayRetry("sql")
      /\ in' = IF stop THEN in ELSE [in EXCEPT !.sql = Append(@, sql.event)]
      /\ sql' = [sql EXCEPT !.pc = IF stop THEN "gone" ELSE sql.next, !.event = NoEvent]
      /\ UNCHANGED <<w, turn, out, latest, cancels, stop, scan, audit, db, clicks, cycles, errors, user>>
  BY DEF SqlDeliver, Deliver, Delivered
<1>2. Counters /\ WorkersTyped
  BY DEF IInv
<1>3. /\ sql.event \in SqlEvents /\ sql.next = "idle" /\ in.sql \in Seq(SqlEvents)
      /\ in \in [sql: Seq(SqlEvents), scan: Seq(ScanEvents), audit: Seq(AuditEvents)]
      /\ sql'.pc \in {"idle", "gone"} /\ (~stop => sql'.pc = "idle")
  BY <1>1, <1>2 DEF WorkersTyped
<1>4. Counters'
  BY <1>1, <1>2 DEF Counters
<1>. DEFINE t == Append(in.sql, sql.event)
<1>5. t \in Seq(SqlEvents) /\ (~stop => Len(t) <= Events)
  <2>1. t \in Seq(SqlEvents) /\ Len(in.sql) \in Nat /\ Len(t) = Len(in.sql) + 1
    BY <1>3, AppendFacts
  <2>2. ~stop => Len(in.sql) < Events
    BY <1>1 DEF MayRetry
  <2>. QED BY <2>1, <2>2, DesktopAssumption
<1>6. ~stop => in' = [in EXCEPT !.sql = t]
  BY <1>1
<1>7. ~stop => LineOf(t, 0, HeldCell', out.sql) = LineOf(in.sql, 1, Cell(TRUE, sql.event), out.sql)
  <2>1. SUFFICES ASSUME ~stop
                 PROVE  LineOf(t, 0, HeldCell', out.sql) = LineOf(in.sql, 1, Cell(TRUE, sql.event), out.sql)
    OBVIOUS
  <2>2. SqlLine(in.sql, out.sql) /\ sql.event \in SqlEvents
    BY <1>3, <2>1 DEF IInv, Good, QueuesInv, Queues, SqlLine
  <2>. DEFINE y == HeldCell'
  <2>. HIDE DEF y
  <2>3. LineOf(t, 0, y, out.sql) = LineOf(in.sql, 1, Cell(TRUE, sql.event), out.sql)
    BY <2>2, LineDelivered
  <2>. QED BY <2>3 DEF y
<1>. HIDE DEF t
<1>8. WorkersTyped'
  <2>1. in' \in [sql: Seq(SqlEvents), scan: Seq(ScanEvents), audit: Seq(AuditEvents)]
    BY <1>1, <1>3, <1>5, <1>6
  <2>2. Len(in'.sql) <= Events /\ in'.scan = in.scan /\ in'.audit = in.audit
    BY <1>1, <1>2, <1>3, <1>5, <1>6 DEF WorkersTyped
  <2>3. /\ sql' \in [pc: {"idle", "busy", "deliver", "gone"}, command: SqlCommands \cup {NoEvent},
                     event: SqlEvents \cup {NoEvent}, next: {"idle"}]
    BY <1>1, <1>2 DEF WorkersTyped
  <2>. QED BY <1>1, <1>2, <1>3, <2>1, <2>2, <2>3 DEF WorkersTyped
<1>9. ASSUME ~stop PROVE Good'
  <2>1. Good
    BY <1>9 DEF IInv
  <2>2. in'.sql = t /\ in'.scan = in.scan /\ in'.audit = in.audit
    BY <1>3, <1>5, <1>6, <1>9
  <2>3. QueuesInv'
    BY <1>1, <2>1 DEF Good, QueuesInv
  <2>4. Held = 1 /\ HeldCell = Cell(TRUE, sql.event) /\ Held' = 0
    BY <1>1, <1>3, <1>9 DEF Held, HeldCell
  <2>5. SqlGood(w, LineOf(in'.sql, Held', HeldCell', out'.sql), db', ScanRefreshes)
    BY <1>1, <1>7, <1>9, <2>1, <2>2, <2>4 DEF Good, SqlInv, Line
  <2>. QED BY <1>1, <1>9, <2>2, <2>3, <2>5, SqlStepKeeps
<1>. QED BY <1>1, <1>4, <1>8, <1>9, StepKeeps DEF WorkerStep

LEMMA SqlStopKeeps ==
    ASSUME IInv, SqlStop
    PROVE  IInv'
<1>1. stop /\ sql' = [sql EXCEPT !.pc = "gone"]
      /\ UNCHANGED <<w, turn, channels, scan, audit, db, clicks, cycles, errors, user>>
  BY DEF SqlStop
<1>2. Counters'
  BY <1>1 DEF IInv, Counters, channels
<1>3. WorkersTyped'
  <2>1. WorkersTyped /\ UNCHANGED <<in, scan, audit, db>>
    BY <1>1 DEF IInv, channels
  <2>2. /\ sql' \in [pc: {"idle", "busy", "deliver", "gone"}, command: SqlCommands \cup {NoEvent},
                      event: SqlEvents \cup {NoEvent}, next: {"idle"}]
        /\ sql'.pc = "gone"
    BY <1>1, <2>1 DEF WorkersTyped
  <2>. QED BY <2>1, <2>2 DEF WorkersTyped
<1>. QED BY <1>1, <1>2, <1>3, StepKeeps DEF WorkerStep, channels

\* A query that was outdated when it was to run.
LEMMA SqlRunSkips ==
    ASSUME IInv, SqlRun, ~stop, sql.command.type = "Query", sql.command.gen # latest
    PROVE  Good'
<1>. DEFINE c == sql.command
            L == LineOf(in.sql, 1, Cell(FALSE, c), out.sql)
            p == Len(in.sql) + 1
<1>1. /\ sql.pc = "busy" /\ sql' = [sql EXCEPT !.pc = "idle", !.command = NoEvent] /\ db' = db
      /\ UNCHANGED <<w, turn, channels, scan, audit, clicks, cycles, user>>
  BY DEF SqlRun
<1>2. WorkersTyped /\ Good
  BY DEF IInv
<1>3. SqlLine(in.sql, out.sql) /\ QueuesInv
  BY <1>2 DEF Good, QueuesInv, Queues, WorkersTyped, SqlLine
<1>4. Held = 1 /\ HeldCell = Cell(FALSE, c) /\ Held' = 0
  BY <1>1, <1>2 DEF Held, HeldCell, WorkersTyped
<1>5. SqlGood(w, L, db, ScanRefreshes)
  BY <1>2, <1>4 DEF Good, SqlInv, Line
<1>. DEFINE y == HeldCell'
<1>. HIDE DEF y
<1>6. Removed(L, LineOf(in.sql, 0, y, out.sql), p) /\ L[p] = Cell(FALSE, c)
  BY <1>3, LineDropped
<1>7. ~Refreshes(L[p]) /\ Kind(L[p]) # "snapshot"
  BY <1>6 DEF Refreshes, Kind, Cell
<1>. HIDE DEF L, p, c
<1>8. SqlGood(w, LineOf(in.sql, 0, y, out.sql), db, ScanRefreshes)
  BY <1>5, <1>6, <1>7, RemovedKeepsSqlGood, Zenon
<1>9. SqlGood(w, LineOf(in'.sql, Held', HeldCell', out'.sql), db', ScanRefreshes)
  BY <1>1, <1>4, <1>8 DEF channels, y
<1>10. QueuesInv'
  BY <1>1, <1>3 DEF channels, QueuesInv
<1>. QED BY <1>1, <1>9, <1>10, SqlStepKeeps DEF channels

\* A command that ran, or failed.
LEMMA SqlRunGood ==
    ASSUME IInv, SqlRun, ~stop, NEW e, Answered(sql.command, e)
    PROVE  Good'
<1>. DEFINE c == sql.command
            L == LineOf(in.sql, 1, Cell(FALSE, c), out.sql)
            K == LineOf(in.sql, 1, Cell(TRUE, e), out.sql)
            p == Len(in.sql) + 1
<1>1. /\ sql.pc = "busy" /\ UNCHANGED <<w, turn, channels, scan, audit, clicks, cycles, user>>
  BY DEF SqlRun
<1>2. WorkersTyped /\ Good
  BY DEF IInv
<1>3. /\ SqlLine(in.sql, out.sql) /\ QueuesInv /\ c \in SqlCommands
      /\ sql \in [pc: {"idle", "busy", "deliver", "gone"}, command: SqlCommands \cup {NoEvent},
                  event: SqlEvents \cup {NoEvent}, next: {"idle"}]
  BY <1>1, <1>2 DEF Good, QueuesInv, Queues, WorkersTyped, SqlLine
<1>4. /\ e \in SqlEvents /\ Answers(e, c) /\ sql'.pc = "deliver" /\ sql'.event = e
      /\ \/ db' = db /\ Reads(e, db)
         \/ Writes(e, db, db')
      /\ \/ db'.reports = db.reports
         \/ c.type = "SaveReport" /\ db'.reports = db.reports \cup {c.report}
  BY <1>3 DEF Answered, Says
<1>5. /\ Held = 1 /\ HeldCell = Cell(FALSE, c) /\ Held' = 1 /\ HeldCell' = Cell(TRUE, e)
  BY <1>1, <1>4 DEF Held, HeldCell
<1>6. SqlGood(w, L, db, ScanRefreshes)
  BY <1>2, <1>5 DEF Good, SqlInv, Line
<1>7. /\ Replaced(L, K, p, Cell(TRUE, e)) /\ L[p] = Cell(FALSE, c) /\ p \in DOMAIN L
      /\ \A i \in DOMAIN L : i < p => L[i].done
  <2>. DEFINE k == Cell(TRUE, e)
              x == Cell(FALSE, c)
              M == LineOf(in.sql, 1, x, out.sql)
  <2>. HIDE DEF k, x
  <2>3. /\ Replaced(M, LineOf(in.sql, 1, k, out.sql), p, k) /\ M[p] = x
        /\ \A i \in DOMAIN M : i < p => M[i].done
    BY <1>3, LineRun
  <2>4. M = L /\ x = Cell(FALSE, c)
    BY DEF x
  <2>. HIDE DEF M, L
  <2>1. /\ Replaced(L, LineOf(in.sql, 1, k, out.sql), p, k) /\ L[p] = Cell(FALSE, c)
        /\ \A i \in DOMAIN L : i < p => L[i].done
    BY <2>3, <2>4
  <2>2. p \in DOMAIN L
    <3>. HIDE DEF L, p, c
    <3>. QED BY <2>1 DEF Replaced
  <2>. QED BY <2>1, <2>2 DEF k
<1>. HIDE DEF L, K, p
<1>8. SqlGood(w, K, db', ScanRefreshes)
  <2>1. CASE db' = db /\ Reads(e, db)
    <3>1. SqlGood(w, K, db, ScanRefreshes)
      BY <1>3, <1>4, <1>6, <1>7, <2>1, ReadsIsGood, Zenon
    <3>. QED BY <2>1, <3>1
  <2>2. CASE Writes(e, db, db')
    BY <1>3, <1>4, <1>6, <1>7, <2>2, WritesIsGood, Zenon
  <2>. QED BY <1>4, <2>1, <2>2
<1>9. ScanInv' /\ ScanRefreshing' = ScanRefreshing
  BY <1>1, <1>2, ScanFrame DEF Good, ScanRefreshing, channels
<1>10. SqlInv'
  <2>1. Line(out.sql)' = K /\ w' = w /\ ScanRefreshes' = ScanRefreshes
    BY <1>1, <1>5, <1>9 DEF Line, K, channels, ScanRefreshes
  <2>. QED BY <1>8, <2>1 DEF SqlInv
<1>11. WindowInv' /\ QueuesInv'
  BY <1>1, <1>2 DEF Good, WindowInv, WindowGood, QueuesInv, channels
<1>12. AuditInv'
  <2>1. AuditInv
    BY <1>2 DEF Good
  <2>2. CASE db'.reports = db.reports
    BY <1>1, <2>1, <2>2, AuditFrame DEF AuditSame, channels
  <2>3. CASE c.type = "SaveReport" /\ db'.reports = db.reports \cup {c.report}
    <3>1. L[p].what = c /\ Kind(L[p]) = "save"
      BY <1>7, <2>3 DEF Kind, Cell
    <3>2. w.save = [report |-> c.report, state |-> "Saving"]
      BY <1>6, <1>7, <3>1 DEF SqlGood, Awaited
    <3>3. c.report \in Audits
      BY <1>3, <2>3, SqlCommandFacts
    <3>4. OneAnalysis(w, out.audit) /\ CancelsAreAsked(w, out.audit) /\ ReportsAreKept(w)
      BY <2>1 DEF AuditInv, AuditGood
    <3>5. OneAnalysis(w, out.audit)' /\ CancelsAreAsked(w, out.audit)'
      BY <1>1, <3>4 DEF OneAnalysis, CancelsAreAsked, Working, channels
    <3>6. w.save.report = c.report /\ w.save # NoSave
      BY <3>2 DEF NoSave
    <3>7. c.report \in 1..w.audits
      <4>1. w.audits \in Nat /\ c.report <= w.audits
        BY <1>2, <3>4, <3>6 DEF ReportsAreKept, Good, WindowInv, WindowGood, Window
      <4>. QED BY <3>3, <4>1 DEF Audits
    <3>8. ReportsAreKept(w)'
      BY <1>1, <2>3, <3>4, <3>6, <3>7 DEF ReportsAreKept
    <3>. QED BY <3>5, <3>8 DEF AuditInv, AuditGood
  <2>. QED BY <1>4, <2>2, <2>3
<1>. QED BY <1>9, <1>10, <1>11, <1>12 DEF Good

LEMMA SqlRunKeeps ==
    ASSUME IInv, SqlRun
    PROVE  IInv'
<1>1. /\ UNCHANGED <<w, turn, channels, scan, audit, clicks, cycles, user>>
      /\ errors' = errors \/ (errors < MaxErrors /\ errors' = errors + 1)
      /\ sql.pc = "busy"
  BY DEF SqlRun
<1>2. Counters /\ WorkersTyped
  BY DEF IInv
<1>3. Counters'
  BY <1>1, <1>2, DesktopAssumption DEF Counters, channels
<1>4. /\ sql \in [pc: {"idle", "busy", "deliver", "gone"}, command: SqlCommands \cup {NoEvent},
                  event: SqlEvents \cup {NoEvent}, next: {"idle"}]
      /\ sql.command \in SqlCommands /\ db \in [version: Nat, watched: BOOLEAN, reports: SUBSET Audits]
  BY <1>1, <1>2 DEF WorkersTyped
<1>5. CASE sql.command.type = "Query" /\ sql.command.gen # latest
  <2>1. sql' = [sql EXCEPT !.pc = "idle", !.command = NoEvent] /\ db' = db
    BY <1>5 DEF SqlRun
  <2>2. WorkersTyped'
    BY <1>1, <1>2, <1>4, <2>1 DEF WorkersTyped, channels
  <2>. QED BY <1>1, <1>3, <1>5, <2>2, SqlRunSkips, StepKeeps DEF WorkerStep, channels
<1>6. CASE ~(sql.command.type = "Query" /\ sql.command.gen # latest)
  <2>1. PICK e : Answered(sql.command, e)
    BY <1>2, <1>6, RunAnswers
  <2>2. /\ e \in SqlEvents
        /\ sql' = [[sql EXCEPT !.command = NoEvent] EXCEPT !.pc = "deliver", !.event = e, !.next = "idle"]
    BY <2>1 DEF Answered, Says
  <2>3. /\ sql' \in [pc: {"idle", "busy", "deliver", "gone"}, command: SqlCommands \cup {NoEvent},
                     event: SqlEvents \cup {NoEvent}, next: {"idle"}]
        /\ sql'.pc = "deliver" /\ sql'.event = e
    BY <1>4, <2>2
  <2>4. db' \in [version: Nat, watched: BOOLEAN, reports: SUBSET Audits]
    <3>1. \/ db' = db
          \/ db' = [db EXCEPT !.version = @ + 1]
          \/ sql.command.type = "Mutate" /\ db' = [db EXCEPT !.version = @ + 1, !.watched = sql.command.watched]
          \/ sql.command.type = "SaveReport"
             /\ db' = [db EXCEPT !.reports = @ \cup {sql.command.report}, !.version = @ + 1]
      BY DEF SqlRun
    <3>2. /\ sql.command.type = "Mutate" => sql.command.watched \in BOOLEAN
          /\ sql.command.type = "SaveReport" => sql.command.report \in Audits
      BY <1>4, SqlCommandFacts
    <3>3. PICK n \in Nat : n = db.version + 1
      BY <1>4
    <3>4. CASE db' = db
      BY <1>4, <3>4
    <3>5. CASE db' = [db EXCEPT !.version = n]
      BY <1>4, <3>5
    <3>6. ASSUME NEW b \in BOOLEAN, db' = [db EXCEPT !.version = n, !.watched = b]
          PROVE  db' \in [version: Nat, watched: BOOLEAN, reports: SUBSET Audits]
      BY <1>4, <3>6
    <3>7. ASSUME NEW a \in Audits, db' = [db EXCEPT !.reports = @ \cup {a}, !.version = n]
          PROVE  db' \in [version: Nat, watched: BOOLEAN, reports: SUBSET Audits]
      BY <1>4, <3>7
    <3>. QED BY <3>1, <3>2, <3>3, <3>4, <3>5, <3>6, <3>7
  <2>5. WorkersTyped'
    BY <1>1, <1>2, <2>2, <2>3, <2>4 DEF WorkersTyped, channels
  <2>. QED BY <1>1, <1>3, <2>1, <2>5, SqlRunGood, StepKeeps DEF WorkerStep, channels
<1>. QED BY <1>5, <1>6

(***************************************************************************)
(* The scan worker.                                                        *)
(***************************************************************************)
LEMMA ScanStepKeeps ==
    ASSUME IInv, ~stop, w' = w, latest' = latest, clicks' = clicks, sql' = sql, audit' = audit,
           cancels' = cancels, in'.sql = in.sql, in'.audit = in.audit, out'.sql = out.sql,
           out'.audit = out.audit, db'.watched = db.watched, db'.reports = db.reports,
           db' = db \/ ScanRefreshing', ScanRefreshing => ScanRefreshing', QueuesInv', ScanInv'
    PROVE  Good'
<1>1. Good
  BY DEF IInv
<1>2. WindowInv'
  BY <1>1 DEF Good, WindowInv, WindowGood
<1>3. SqlInv'
  <2>1. Line(out.sql)' = Line(out.sql)
    <3>1. Held' = Held /\ HeldCell' = HeldCell
      BY DEF Held, HeldCell
    <3>. QED BY <3>1, Zenon DEF Line
  <2>2. SqlGood(w, Line(out.sql), db, ScanRefreshes)
    BY <1>1 DEF Good, SqlInv
  <2>3. CASE ScanRefreshing'
    <3>1. SqlGood(w, Line(out.sql), db', 1)
      BY <2>2, RefreshedIsGood
    <3>2. ScanRefreshes' = 1
      BY <2>3 DEF ScanRefreshes
    <3>. QED BY <2>1, <3>1, <3>2 DEF SqlInv
  <2>4. CASE ~ScanRefreshing'
    <3>1. db' = db /\ ScanRefreshes' = ScanRefreshes
      BY <2>4 DEF ScanRefreshes
    <3>. QED BY <2>1, <2>2, <3>1 DEF SqlInv
  <2>. QED BY <2>3, <2>4
<1>4. AuditInv'
  BY <1>1, AuditFrame DEF Good, AuditSame
<1>. QED BY <1>2, <1>3, <1>4 DEF Good

\* The worker says something else than that it is paused: its cycle goes on, or ends.
LEMMA ScanSays ==
    ASSUME IInv, ~stop, w' = w, in' = in, out' = out, NEW t \in {"Ready", "Started", "Finished", "Error"},
           scan.pc \in {"new", "wait", "cycle"}, NEW n, NEW k \in 0..Watch,
           k = scan.commits \/ t \in {"Finished", "Error"},
           scan' = Says([scan EXCEPT !.commits = k], Event(t), n)
    PROVE  ScanInv' /\ (ScanRefreshing => ScanRefreshing')
           /\ (t \in {"Finished", "Error"} => ScanRefreshing')
<1>1. ScanGood(w, out.scan) /\ scan \in [pc: {"new", "wait", "cycle", "deliver", "gone"}, paused: BOOLEAN,
                 commits: 0..Watch, event: ScanEvents \cup {NoEvent}, next: {"wait", "cycle", "gone"}]
  BY DEF IInv, WorkersTyped, Good, ScanInv
<1>2. /\ scan'.pc = "deliver" /\ scan'.event.type = t /\ scan'.paused = scan.paused
      /\ scan'.commits = k /\ Alive
  BY <1>1 DEF Says, Event, Alive
<1>3. ~PauseHeld /\ ~PauseHeld'
  BY <1>2 DEF PauseHeld, PauseEvent
<1>4. OnePause(w, out.scan) /\ PausesAgree(w)
  BY <1>1, <1>2 DEF ScanGood
<1>5. OnePause(w, out.scan)'
  BY <1>3, <1>4 DEF OnePause, PauseTold, PauseAsked
<1>6. PausesAgree(w)'
  BY <1>2, <1>3, <1>4 DEF PausesAgree, PauseTold
<1>7. t \in {"Finished", "Error"} => ScanRefreshing'
  BY <1>2 DEF ScanRefreshing
<1>8. ScanRefreshing => ScanRefreshing'
  BY <1>2, <1>7 DEF ScanRefreshing
<1>. QED BY <1>5, <1>6, <1>7, <1>8 DEF ScanInv, ScanGood

LEMMA ScanSaysTypes ==
    ASSUME WorkersTyped, in' = in, sql' = sql, audit' = audit,
           db' = db \/ db' = [db EXCEPT !.version = @ + 1],
           NEW t \in {"Ready", "Started", "Finished", "Error"}, NEW n \in {"wait", "cycle", "gone"},
           NEW k \in 0..Watch, scan' = Says([scan EXCEPT !.commits = k], Event(t), n)
    PROVE  WorkersTyped' /\ db'.watched = db.watched /\ db'.reports = db.reports
<1>1. db \in [version: Nat, watched: BOOLEAN, reports: SUBSET Audits]
  BY DEF WorkersTyped
<1>2. /\ db' \in [version: Nat, watched: BOOLEAN, reports: SUBSET Audits]
      /\ db'.watched = db.watched /\ db'.reports = db.reports
  BY <1>1
<1>3. Event(t) \in ScanEvents
  BY DEF Event, ScanEvents
<1>4. /\ scan' \in [pc: {"new", "wait", "cycle", "deliver", "gone"}, paused: BOOLEAN,
                    commits: 0..Watch, event: ScanEvents \cup {NoEvent}, next: {"wait", "cycle", "gone"}]
      /\ scan'.event \in ScanEvents
  <2>1. scan \in [pc: {"new", "wait", "cycle", "deliver", "gone"}, paused: BOOLEAN,
                  commits: 0..Watch, event: ScanEvents \cup {NoEvent}, next: {"wait", "cycle", "gone"}]
    BY DEF WorkersTyped
  <2>. DEFINE e == Event(t)
  <2>2. e \in ScanEvents
    BY <1>3
  <2>3. scan' = [scan EXCEPT !.commits = k, !.pc = "deliver", !.event = e, !.next = n]
    BY <2>1 DEF Says
  <2>. HIDE DEF e
  <2>. QED BY <2>1, <2>2, <2>3
<1>. QED BY <1>2, <1>4 DEF WorkersTyped

\* What it says of anything else than a cycle's end leaves the count of quarantines alone.
LEMMA SameCommits ==
    ASSUME WorkersTyped, NEW e, NEW n
    PROVE  scan.commits \in 0..Watch /\ Says(scan, e, n) = Says([scan EXCEPT !.commits = scan.commits], e, n)
<1>1. scan \in [pc: {"new", "wait", "cycle", "deliver", "gone"}, paused: BOOLEAN,
                commits: 0..Watch, event: ScanEvents \cup {NoEvent}, next: {"wait", "cycle", "gone"}]
  BY DEF WorkersTyped
<1>2. [scan EXCEPT !.commits = scan.commits] = scan
  BY <1>1
<1>. QED BY <1>1, <1>2

LEMMA ScanNewKeeps ==
    ASSUME IInv, ScanNew
    PROVE  IInv'
<1>1. /\ scan.pc = "new" /\ UNCHANGED <<w, turn, channels, sql, audit, db, clicks, cycles, user>>
      /\ \E t \in {"Ready", "Error"}, n \in {"wait", "gone"} : scan' = Says(scan, Event(t), n)
      /\ errors' = errors \/ (errors < MaxErrors /\ errors' = errors + 1)
  BY DEF ScanNew
<1>2. PICK t \in {"Ready", "Error"}, n \in {"wait", "gone"} : scan' = Says(scan, Event(t), n)
  BY <1>1
<1>3. Counters /\ WorkersTyped
  BY DEF IInv
<1>4. Counters'
  BY <1>1, <1>3, DesktopAssumption DEF Counters, channels
<1>. DEFINE k == scan.commits
<1>7. k \in 0..Watch /\ scan' = Says([scan EXCEPT !.commits = k], Event(t), n)
  BY <1>2, <1>3, SameCommits
<1>5. WorkersTyped'
  BY <1>1, <1>3, <1>7, ScanSaysTypes DEF channels
<1>6. ASSUME ~stop PROVE Good'
  <2>1. ScanInv' /\ (ScanRefreshing => ScanRefreshing')
    BY <1>1, <1>6, <1>7, ScanSays DEF channels
  <2>2. QueuesInv'
    BY <1>1, <1>6 DEF IInv, Good, QueuesInv, channels
  <2>. QED BY <1>1, <1>6, <2>1, <2>2, ScanStepKeeps DEF channels
<1>. QED BY <1>1, <1>4, <1>5, <1>6, StepKeeps DEF WorkerStep, channels

LEMMA ScanDueKeeps ==
    ASSUME IInv, ScanDue
    PROVE  IInv'
<1>1. /\ scan.pc = "wait" /\ ~stop /\ scan' = Says(scan, Event("Started"), "cycle")
      /\ cycles < MaxCycles /\ cycles' = cycles + 1
      /\ UNCHANGED <<w, turn, channels, sql, audit, db, clicks, errors, user>>
  BY DEF ScanDue
<1>2. Counters /\ WorkersTyped
  BY DEF IInv
<1>3. Counters'
  BY <1>1, <1>2, DesktopAssumption DEF Counters, channels
<1>. DEFINE k == scan.commits
<1>8. k \in 0..Watch /\ scan' = Says([scan EXCEPT !.commits = k], Event("Started"), "cycle")
  BY <1>1, <1>2, SameCommits
<1>4. WorkersTyped'
  BY <1>1, <1>2, <1>8, ScanSaysTypes DEF channels
<1>5. ScanInv' /\ (ScanRefreshing => ScanRefreshing')
  BY <1>1, <1>8, ScanSays DEF channels
<1>6. QueuesInv'
  BY <1>1 DEF IInv, Good, QueuesInv, channels
<1>7. Good'
  BY <1>1, <1>5, <1>6, ScanStepKeeps DEF channels
<1>. QED BY <1>1, <1>3, <1>4, <1>7, StepKeeps DEF WorkerStep, channels

\* A quarantine in the middle of a cycle: what is shown is made good by the cycle's end.
LEMMA ScanQuarantineKeeps ==
    ASSUME IInv, ScanQuarantine
    PROVE  IInv'
<1>1. /\ scan.pc = "cycle" /\ UNCHANGED <<w, turn, channels, sql, audit, clicks, cycles, errors, user>>
      /\ scan.commits < Watch /\ scan' = [scan EXCEPT !.commits = @ + 1]
      /\ db' = [db EXCEPT !.version = @ + 1]
  BY DEF ScanQuarantine
<1>2. Counters /\ WorkersTyped
  BY DEF IInv
<1>3. /\ db \in [version: Nat, watched: BOOLEAN, reports: SUBSET Audits]
      /\ scan \in [pc: {"new", "wait", "cycle", "deliver", "gone"}, paused: BOOLEAN,
                   commits: 0..Watch, event: ScanEvents \cup {NoEvent}, next: {"wait", "cycle", "gone"}]
  BY <1>2 DEF WorkersTyped
<1>4. /\ db' \in [version: Nat, watched: BOOLEAN, reports: SUBSET Audits]
      /\ db'.watched = db.watched /\ db'.reports = db.reports
  BY <1>1, <1>3
<1>5. PICK k \in 0..Watch : k = scan.commits + 1 /\ k > 0
  BY <1>1, <1>3, DesktopAssumption
<1>6. scan' = [scan EXCEPT !.commits = k]
  BY <1>1, <1>5
<1>7. /\ scan' \in [pc: {"new", "wait", "cycle", "deliver", "gone"}, paused: BOOLEAN,
                    commits: 0..Watch, event: ScanEvents \cup {NoEvent}, next: {"wait", "cycle", "gone"}]
      /\ scan'.pc = "cycle" /\ scan'.paused = scan.paused /\ scan'.event = scan.event
      /\ scan'.next = scan.next /\ scan'.commits > 0
  BY <1>1, <1>3, <1>5, <1>6
<1>8. Counters'
  BY <1>1, <1>2 DEF Counters, channels
<1>9. WorkersTyped'
  BY <1>1, <1>2, <1>4, <1>7 DEF WorkersTyped, channels
<1>10. ASSUME ~stop PROVE Good'
  <2>1. ScanGood(w, out.scan)
    BY <1>10 DEF IInv, Good, ScanInv
  <2>2. ScanInv'
    BY <1>1, <1>7, <2>1 DEF ScanInv, ScanGood, Alive, OnePause, PausesAgree, PauseTold, PauseHeld,
                            PauseAsked, PauseEvent, channels
  <2>3. ScanRefreshing'
    BY <1>7 DEF ScanRefreshing
  <2>4. QueuesInv'
    BY <1>1, <1>10 DEF IInv, Good, QueuesInv, channels
  <2>. QED BY <1>1, <1>4, <1>10, <2>2, <2>3, <2>4, ScanStepKeeps DEF channels
<1>. QED BY <1>1, <1>8, <1>9, <1>10, StepKeeps DEF WorkerStep, channels

LEMMA ScanCycleKeeps ==
    ASSUME IInv, ScanCycle
    PROVE  IInv'
<1>1. /\ scan.pc = "cycle" /\ UNCHANGED <<w, turn, channels, sql, audit, clicks, cycles, errors, user>>
      /\ \E t \in {"Finished", "Error"} : scan' = Says([scan EXCEPT !.commits = 0], Event(t), "wait")
      /\ db' = db \/ db' = [db EXCEPT !.version = @ + 1]
  BY DEF ScanCycle
<1>2. PICK t \in {"Finished", "Error"} : scan' = Says([scan EXCEPT !.commits = 0], Event(t), "wait")
  BY <1>1
<1>3. Counters /\ WorkersTyped /\ 0 \in 0..Watch
  BY DesktopAssumption DEF IInv
<1>4. Counters'
  BY <1>1, <1>3 DEF Counters, channels
<1>5. WorkersTyped' /\ db'.watched = db.watched /\ db'.reports = db.reports
  BY <1>1, <1>2, <1>3, ScanSaysTypes DEF channels
<1>6. ASSUME ~stop PROVE Good'
  <2>1. ScanInv' /\ ScanRefreshing'
    BY <1>1, <1>2, <1>3, <1>6, ScanSays DEF channels
  <2>2. QueuesInv'
    BY <1>1, <1>6 DEF IInv, Good, QueuesInv, channels
  <2>. QED BY <1>1, <1>5, <1>6, <2>1, <2>2, ScanStepKeeps DEF channels
<1>. QED BY <1>1, <1>4, <1>5, <1>6, StepKeeps DEF WorkerStep, channels

LEMMA ScanStopKeeps ==
    ASSUME IInv, ScanStop
    PROVE  IInv'
<1>1. stop /\ scan' = [scan EXCEPT !.pc = "gone"]
      /\ UNCHANGED <<w, turn, channels, sql, audit, db, clicks, cycles, errors, user>>
  BY DEF ScanStop
<1>2. Counters'
  BY <1>1 DEF IInv, Counters, channels
<1>3. WorkersTyped'
  BY <1>1 DEF IInv, WorkersTyped, channels
<1>. QED BY <1>1, <1>2, <1>3, StepKeeps DEF WorkerStep, channels

LEMMA ScanCommandKeeps ==
    ASSUME IInv, ScanCommand
    PROVE  IInv'
<1>. DEFINE c == Head(out.scan)
            t == Tail(out.scan)
<1>1. /\ scan.pc \in {"wait", "cycle"} /\ ~stop /\ out.scan # <<>> /\ out' = [out EXCEPT !.scan = t]
      /\ scan' = IF c.type = "Paused" THEN Says([scan EXCEPT !.paused = c.value], c, scan.pc) ELSE scan
      /\ UNCHANGED <<w, turn, in, latest, cancels, stop, sql, audit, db, clicks, cycles, errors, user>>
  BY DEF ScanCommand
<1>2. Counters /\ WorkersTyped /\ Good
  BY <1>1 DEF IInv
<1>3. /\ out.scan \in Seq(ScanCommands) /\ Len(out.scan) <= Commands
      /\ out \in [sql: Seq(SqlCommands), scan: Seq(ScanCommands), audit: Seq(AuditCommands)]
      /\ scan \in [pc: {"new", "wait", "cycle", "deliver", "gone"}, paused: BOOLEAN,
                   commits: 0..Watch, event: ScanEvents \cup {NoEvent}, next: {"wait", "cycle", "gone"}]
  BY <1>2 DEF Good, QueuesInv, Queues, WorkersTyped
<1>4. /\ c \in ScanCommands /\ t \in Seq(ScanCommands) /\ Len(t) <= Commands
      /\ 1 \in DOMAIN out.scan /\ c = out.scan[1]
      /\ \A i \in DOMAIN t : i + 1 \in DOMAIN out.scan /\ i + 1 # 1 /\ t[i] = out.scan[i + 1]
      /\ \A i, j \in DOMAIN t : i + 1 = j + 1 => i = j
  <2>1. /\ c \in ScanCommands /\ t \in Seq(ScanCommands) /\ Len(out.scan) \in Nat
        /\ Len(t) = Len(out.scan) - 1 /\ 1 \in DOMAIN out.scan /\ c = out.scan[1]
        /\ \A i \in DOMAIN t : i + 1 \in DOMAIN out.scan /\ i + 1 # 1 /\ t[i] = out.scan[i + 1]
        /\ \A i, j \in DOMAIN t : i + 1 = j + 1 => i = j
    BY <1>1, <1>3, TailFacts
  <2>2. \A a, b, n : a \in Nat /\ b = a - 1 /\ n \in Nat /\ a <= n => b <= n
    OBVIOUS
  <2>3. Len(t) <= Commands
    BY <1>3, <2>1, <2>2, DesktopAssumption
  <2>. QED BY <2>1, <2>3
<1>5. c.type = "Paused" => c.value \in BOOLEAN /\ c \in ScanEvents
  BY <1>4 DEF ScanCommands, ScanEvents
<1>. HIDE DEF c, t
<1>6. /\ out'.sql = out.sql /\ out'.scan = t /\ out'.audit = out.audit
      /\ out' \in [sql: Seq(SqlCommands), scan: Seq(ScanCommands), audit: Seq(AuditCommands)]
  BY <1>1, <1>3, <1>4
<1>7. Counters'
  BY <1>1, <1>2 DEF Counters
<1>8. QueuesInv'
  BY <1>2, <1>4, <1>6 DEF Good, QueuesInv, Queues
<1>9. \A i \in DOMAIN t : PauseEvent(t[i]) => PauseAsked(out.scan)
  BY <1>4 DEF PauseAsked
<1>10. Alive /\ OnePause(w, out.scan) /\ PausesAgree(w) /\ ~PauseHeld
  BY <1>1, <1>2 DEF Good, ScanInv, ScanGood, Alive, PauseHeld
<1>11. \A i, j \in DOMAIN t : PauseEvent(t[i]) /\ PauseEvent(t[j]) => i = j
  <2>1. SUFFICES ASSUME NEW i \in DOMAIN t, NEW j \in DOMAIN t, PauseEvent(t[i]), PauseEvent(t[j])
                 PROVE  i = j
    OBVIOUS
  <2>2. i + 1 = j + 1
    BY <1>4, <1>10, <2>1 DEF OnePause
  <2>. QED BY <1>4, <2>2
<1>12. CASE c.type = "Paused"
  <2>1. scan' = [scan EXCEPT !.paused = c.value, !.pc = "deliver", !.event = c, !.next = scan.pc]
    BY <1>1, <1>3, <1>12 DEF Says
  <2>2. /\ scan' \in [pc: {"new", "wait", "cycle", "deliver", "gone"}, paused: BOOLEAN,
                      commits: 0..Watch, event: ScanEvents \cup {NoEvent}, next: {"wait", "cycle", "gone"}]
        /\ scan'.pc = "deliver" /\ scan'.event = c /\ scan'.paused = c.value
        /\ scan'.commits = scan.commits
    BY <1>1, <1>3, <1>5, <1>12, <2>1
  <2>3. WorkersTyped'
    BY <1>1, <1>2, <1>5, <1>12, <2>2 DEF WorkersTyped
  <2>4. PauseEvent(c) /\ PauseAsked(out.scan)
    BY <1>4, <1>12 DEF PauseEvent, PauseAsked
  <2>5. ~PauseTold /\ (\A i \in DOMAIN in.scan : ~PauseEvent(in.scan[i])) /\ w.pause_pending
    BY <1>10, <2>4 DEF OnePause, PauseTold
  <2>6. \A i \in DOMAIN t : ~PauseEvent(t[i])
    BY <1>4, <1>10, <2>4 DEF OnePause
  <2>7. PauseHeld' /\ PauseTold'
    BY <2>2, <2>4 DEF PauseHeld, PauseTold
  <2>8. OnePause(w, out.scan)'
    BY <1>1, <1>6, <2>5, <2>6 DEF OnePause, PauseAsked
  <2>9. PausesAgree(w)'
    BY <1>1, <2>2, <2>5, <2>7 DEF PausesAgree
  <2>10. ScanRefreshing => ScanRefreshing'
    BY <1>1, <2>2 DEF ScanRefreshing
  <2>11. Good'
    BY <1>1, <1>6, <1>8, <2>8, <2>9, <2>10, ScanStepKeeps DEF ScanInv, ScanGood
  <2>. QED BY <1>1, <1>7, <2>3, <2>11 DEF IInv
<1>13. CASE c.type # "Paused"
  <2>1. scan' = scan
    BY <1>1, <1>13
  <2>2. WorkersTyped'
    BY <1>1, <1>2, <2>1 DEF WorkersTyped
  <2>3. OnePause(w, out.scan)'
    BY <1>1, <1>6, <1>9, <1>10, <1>11, <2>1 DEF OnePause, PauseAsked, PauseTold, PauseHeld
  <2>4. PausesAgree(w)'
    BY <1>1, <1>10, <2>1 DEF PausesAgree, PauseTold, PauseHeld
  <2>5. ScanRefreshing => ScanRefreshing'
    BY <1>1, <2>1 DEF ScanRefreshing
  <2>6. Good'
    BY <1>1, <1>6, <1>8, <2>1, <2>3, <2>4, <2>5, ScanStepKeeps DEF ScanInv, ScanGood
  <2>. QED BY <1>1, <1>7, <2>2, <2>6 DEF IInv
<1>. QED BY <1>12, <1>13

LEMMA ScanDeliverKeeps ==
    ASSUME IInv, ScanDeliver
    PROVE  IInv'
<1>1. /\ scan.pc = "deliver" /\ MayRetry("scan")
      /\ in' = IF stop THEN in ELSE [in EXCEPT !.scan = Append(@, scan.event)]
      /\ scan' = [scan EXCEPT !.pc = IF stop THEN "gone" ELSE scan.next, !.event = NoEvent]
      /\ UNCHANGED <<w, turn, out, latest, cancels, stop, sql, audit, db, clicks, cycles, errors, user>>
  BY DEF ScanDeliver, Deliver, Delivered
<1>2. Counters /\ WorkersTyped
  BY DEF IInv
<1>3. /\ scan.event \in ScanEvents /\ in.scan \in Seq(ScanEvents)
      /\ in \in [sql: Seq(SqlEvents), scan: Seq(ScanEvents), audit: Seq(AuditEvents)]
      /\ scan \in [pc: {"new", "wait", "cycle", "deliver", "gone"}, paused: BOOLEAN,
                   commits: 0..Watch, event: ScanEvents \cup {NoEvent}, next: {"wait", "cycle", "gone"}]
  BY <1>1, <1>2 DEF WorkersTyped
<1>4. Counters'
  BY <1>1, <1>2 DEF Counters
<1>. DEFINE t == Append(in.scan, scan.event)
<1>5. /\ t \in Seq(ScanEvents) /\ (~stop => Len(t) <= Events)
      /\ \A i \in DOMAIN t : \/ i \in DOMAIN in.scan /\ t[i] = in.scan[i]
                             \/ i = Len(in.scan) + 1 /\ t[i] = scan.event
      /\ \A i \in DOMAIN in.scan : i \in DOMAIN t /\ t[i] = in.scan[i]
      /\ Len(in.scan) + 1 \in DOMAIN t /\ t[Len(in.scan) + 1] = scan.event
  <2>1. /\ t \in Seq(ScanEvents) /\ Len(in.scan) \in Nat /\ Len(t) = Len(in.scan) + 1
        /\ \A i \in DOMAIN t : \/ i \in DOMAIN in.scan /\ t[i] = in.scan[i]
                               \/ i = Len(in.scan) + 1 /\ t[i] = scan.event
        /\ \A i \in DOMAIN in.scan : i \in DOMAIN t /\ t[i] = in.scan[i]
        /\ Len(in.scan) + 1 \in DOMAIN t /\ t[Len(in.scan) + 1] = scan.event
    BY <1>3, AppendFacts
  <2>2. ~stop => Len(in.scan) < Events
    BY <1>1 DEF MayRetry
  <2>3. \A a, b, n \in Nat : b = a + 1 /\ a < n => b <= n
    OBVIOUS
  <2>4. Len(t) \in Nat /\ (~stop => Len(t) <= Events)
    BY <2>1, <2>2, <2>3, DesktopAssumption
  <2>. QED BY <2>1, <2>4
<1>6. ~stop => in' = [in EXCEPT !.scan = t]
  BY <1>1
<1>. HIDE DEF t
<1>7. /\ scan'.pc \in {"wait", "cycle", "gone"} /\ scan'.paused = scan.paused
      /\ scan'.commits = scan.commits
      /\ scan' \in [pc: {"new", "wait", "cycle", "deliver", "gone"}, paused: BOOLEAN,
                    commits: 0..Watch, event: ScanEvents \cup {NoEvent}, next: {"wait", "cycle", "gone"}]
      /\ ~stop => scan'.pc = scan.next
  BY <1>1, <1>3
<1>8. WorkersTyped'
  <2>1. in' \in [sql: Seq(SqlEvents), scan: Seq(ScanEvents), audit: Seq(AuditEvents)]
    BY <1>1, <1>3, <1>5, <1>6
  <2>2. Len(in'.scan) <= Events /\ in'.sql = in.sql /\ in'.audit = in.audit
    BY <1>1, <1>2, <1>3, <1>5, <1>6 DEF WorkersTyped
  <2>. QED BY <1>1, <1>2, <1>7, <2>1, <2>2 DEF WorkersTyped
<1>9. ASSUME ~stop PROVE Good'
  <2>1. in'.sql = in.sql /\ in'.scan = t /\ in'.audit = in.audit
    BY <1>3, <1>5, <1>6, <1>9
  <2>2. QueuesInv'
    BY <1>1, <1>9 DEF IInv, Good, QueuesInv
  <2>3. ScanRefreshing => ScanRefreshing'
    BY <1>1, <1>5, <1>7, <2>1 DEF ScanRefreshing
  <2>4. ScanInv'
    <3>1. SUFFICES ASSUME Alive' PROVE OnePause(w, out.scan)' /\ PausesAgree(w)'
      BY DEF ScanInv, ScanGood
    <3>2. OnePause(w, out.scan) /\ PausesAgree(w)
      BY <1>1, <1>7, <1>9, <3>1 DEF IInv, Good, ScanInv, ScanGood, Alive
    <3>3. PauseEvent(scan.event) <=> PauseHeld
      BY <1>1 DEF PauseHeld
    <3>4. ~PauseHeld'
      BY <1>7 DEF PauseHeld
    <3>5. PauseTold' <=> PauseTold
      BY <1>5, <2>1, <3>3, <3>4 DEF PauseTold
    <3>6. \A i, j \in DOMAIN t : PauseEvent(t[i]) /\ PauseEvent(t[j]) => i = j
      BY <1>5, <3>2, <3>3 DEF OnePause
    <3>7. \A i \in DOMAIN t : PauseEvent(t[i]) => t[i].value = scan.paused
      BY <1>5, <3>2, <3>3 DEF PausesAgree, PauseHeld
    <3>8. OnePause(w, out.scan)'
      BY <1>1, <2>1, <3>2, <3>4, <3>5, <3>6 DEF OnePause
    <3>9. PausesAgree(w)'
      BY <1>1, <1>7, <2>1, <3>2, <3>4, <3>5, <3>7 DEF PausesAgree
    <3>. QED BY <3>8, <3>9
  <2>. QED BY <1>1, <1>9, <2>1, <2>2, <2>3, <2>4, ScanStepKeeps
<1>. QED BY <1>1, <1>4, <1>8, <1>9, StepKeeps DEF WorkerStep

(***************************************************************************)
(* The audit worker.                                                       *)
(***************************************************************************)
AuditTyped(a) ==
    /\ a \in [pc: {"idle", "busy", "deliver", "gone"}, number: 0..MaxClicks,
              event: AuditEvents \cup {NoEvent}, next: {"idle"}]
    /\ a.pc = "busy" => a.number \in Audits
    /\ a.pc = "deliver" => a.event \in AuditEvents

LEMMA AuditStepKeeps ==
    ASSUME IInv, ~stop, w' = w, latest' = latest, clicks' = clicks, sql' = sql, scan' = scan,
           in'.sql = in.sql, in'.scan = in.scan, out'.sql = out.sql, out'.scan = out.scan,
           db' = db, QueuesInv', AuditInv'
    PROVE  Good'
<1>1. Good
  BY DEF IInv
<1>2. WindowInv'
  BY <1>1 DEF Good, WindowInv, WindowGood
<1>3. ScanInv' /\ (ScanRefreshing => ScanRefreshing')
  BY <1>1, ScanFrame DEF Good
<1>4. SqlInv'
  BY <1>1, <1>3, SqlFrame DEF Good, SqlSame
<1>. QED BY <1>2, <1>3, <1>4 DEF Good

LEMMA AuditSaysTypes ==
    ASSUME AuditTyped(audit), NEW t \in {"Finished", "Cancelled", "Error"}, NEW n \in Audits,
           AuditSays(t, n)
    PROVE  /\ AuditTyped(audit') /\ audit'.pc = "deliver"
           /\ audit'.event = [type |-> t, number |-> n]
<1>. DEFINE e == [type |-> t, number |-> n]
<1>1. e \in AuditEvents
  BY DEF AuditEvents
<1>2. PICK zero \in 0..MaxClicks : zero = 0
  BY DesktopAssumption
<1>3. audit' = [audit EXCEPT !.number = zero, !.pc = "deliver", !.event = e, !.next = "idle"]
  <2>1. audit \in [pc: {"idle", "busy", "deliver", "gone"}, number: 0..MaxClicks,
                   event: AuditEvents \cup {NoEvent}, next: {"idle"}]
    BY DEF AuditTyped
  <2>2. audit' = [[audit EXCEPT !.number = zero] EXCEPT !.pc = "deliver", !.event = e, !.next = "idle"]
    BY <1>2 DEF AuditSays, Says
  <2>. HIDE DEF e
  <2>. QED BY <2>1, <2>2
<1>4. audit'.event = e /\ AuditTyped(audit') /\ audit'.pc = "deliver"
  <2>. HIDE DEF e
  <2>. QED BY <1>1, <1>3 DEF AuditTyped
<1>. QED BY <1>4

LEMMA AuditTakeKeeps ==
    ASSUME IInv, AuditTake
    PROVE  IInv'
<1>. DEFINE c == Head(out.audit)
            t == Tail(out.audit)
<1>1. /\ audit.pc = "idle" /\ ~stop /\ out.audit # <<>> /\ out' = [out EXCEPT !.audit = t]
      /\ cancels' = [cancels EXCEPT !.seen = cancels.value]
      /\ IF cancels.value # c.cancel_generation THEN AuditSays("Cancelled", c.number)
         ELSE audit' = [audit EXCEPT !.pc = "busy", !.number = c.number]
      /\ UNCHANGED <<w, turn, in, latest, stop, sql, scan, db, clicks, cycles, errors, user>>
  BY DEF AuditTake
<1>2. Counters /\ WorkersTyped /\ Good
  BY <1>1 DEF IInv
<1>3. /\ out.audit \in Seq(AuditCommands) /\ Len(out.audit) <= 1 /\ in.audit \in Seq(AuditEvents)
      /\ out \in [sql: Seq(SqlCommands), scan: Seq(ScanCommands), audit: Seq(AuditCommands)]
      /\ AuditTyped(audit) /\ cancels \in [value: Nat, seen: Nat]
  BY <1>2 DEF Good, QueuesInv, Queues, WorkersTyped, AuditTyped, Counters
<1>4. /\ c \in AuditCommands /\ t \in Seq(AuditCommands) /\ 1 \in DOMAIN out.audit
      /\ c = out.audit[1] /\ Len(out.audit) \in Nat /\ Len(out.audit) > 0
      /\ Len(t) = Len(out.audit) - 1
  BY <1>1, <1>3, TailFacts
<1>. HIDE DEF c, t
<1>5. OneAnalysis(w, out.audit) /\ CancelsAreAsked(w, out.audit) /\ ReportsAreKept(w)
  BY <1>2 DEF Good, AuditInv, AuditGood
<1>6. /\ Working = 0 /\ Len(in.audit) = 0 /\ Len(out.audit) = 1 /\ Len(t) = 0
      /\ t = <<>> /\ in.audit = <<>> /\ w.auditing
  <2>1. Len(in.audit) \in Nat /\ Working \in {0, 1}
    BY <1>3 DEF Working
  <2>2. Len(in.audit) + Working + Len(out.audit) <= 1
    BY <1>5 DEF OneAnalysis
  <2>3. \A a, b, z : a \in Nat /\ b \in {0, 1} /\ z \in Nat /\ z > 0 /\ a + b + z <= 1 =>
           a = 0 /\ b = 0 /\ z = 1 /\ z - 1 = 0 /\ a + b + z = 1
    OBVIOUS
  <2>4. /\ Len(in.audit) = 0 /\ Working = 0 /\ Len(out.audit) = 1 /\ Len(out.audit) - 1 = 0
        /\ Len(in.audit) + Working + Len(out.audit) = 1
    BY <1>4, <2>1, <2>2, <2>3, Zenon
  <2>5. w.auditing
    BY <1>5, <2>4 DEF OneAnalysis
  <2>. QED BY <1>3, <1>4, <2>4, <2>5
<1>7. c.number \in Audits /\ c.number = w.audits
      /\ (c.cancel_generation # cancels.value => w.audits \in w.asked)
  BY <1>4, <1>5 DEF AuditCommands, OneAnalysis, CancelsAreAsked
<1>8. /\ out'.sql = out.sql /\ out'.scan = out.scan /\ out'.audit = t
      /\ out' \in [sql: Seq(SqlCommands), scan: Seq(ScanCommands), audit: Seq(AuditCommands)]
  BY <1>1, <1>3, <1>4
<1>9. QueuesInv'
  <2>1. Len(out'.audit) <= 1
    BY <1>6, <1>8
  <2>. QED BY <1>2, <1>8, <2>1 DEF Good, QueuesInv, Queues
<1>10. cancels'.seen = cancels.value /\ cancels'.value = cancels.value
       /\ cancels' \in [value: Nat, seen: Nat]
  BY <1>1, <1>3
<1>11. Counters'
  BY <1>1, <1>2, <1>10 DEF Counters
<1>12. /\ AuditTyped(audit') /\ audit'.pc \in {"busy", "deliver"}
       /\ audit'.pc = "busy" => audit'.number = w.audits
       /\ audit'.pc = "deliver" => audit'.event.number = w.audits /\ w.audits \in w.asked
  <2>1. CASE cancels.value # c.cancel_generation
    <3>1. /\ AuditTyped(audit') /\ audit'.pc = "deliver"
          /\ audit'.event = [type |-> "Cancelled", number |-> c.number]
      BY <1>1, <1>3, <1>7, <2>1, AuditSaysTypes
    <3>. QED BY <1>7, <2>1, <3>1
  <2>2. CASE cancels.value = c.cancel_generation
    <3>1. audit' = [audit EXCEPT !.pc = "busy", !.number = c.number] /\ c.number \in 0..MaxClicks
      BY <1>1, <1>7, <2>2 DEF Audits
    <3>. QED BY <1>3, <1>7, <3>1 DEF AuditTyped
  <2>. QED BY <2>1, <2>2
<1>13. WorkersTyped'
  BY <1>1, <1>2, <1>12 DEF WorkersTyped, AuditTyped
<1>14. AuditInv'
  <2>1. OneAnalysis(w, out.audit)'
    <3>1. Len(in'.audit) + Working' + Len(out'.audit) = 1
      BY <1>1, <1>6, <1>8, <1>12 DEF Working
    <3>2. DOMAIN out'.audit = {} /\ DOMAIN in'.audit = {}
      BY <1>1, <1>6, <1>8
    <3>. QED BY <1>1, <1>6, <1>12, <3>1, <3>2 DEF OneAnalysis
  <2>2. CancelsAreAsked(w, out.audit)'
    <3>1. DOMAIN out'.audit = {} /\ DOMAIN in'.audit = {}
      BY <1>1, <1>6, <1>8
    <3>. QED BY <1>1, <1>5, <1>10, <1>12, <3>1 DEF CancelsAreAsked
  <2>3. ReportsAreKept(w)'
    BY <1>1, <1>5 DEF ReportsAreKept
  <2>. QED BY <2>1, <2>2, <2>3 DEF AuditInv, AuditGood
<1>15. Good'
  BY <1>1, <1>8, <1>9, <1>14, AuditStepKeeps
<1>. QED BY <1>1, <1>11, <1>13, <1>15 DEF IInv

LEMMA AuditEndKeeps ==
    ASSUME IInv, AuditEnd
    PROVE  IInv'
<1>1. /\ audit.pc = "busy" /\ cancels' = [cancels EXCEPT !.seen = cancels.value]
      /\ UNCHANGED <<w, turn, out, in, latest, stop, sql, scan, db, clicks, cycles, errors, user>>
  BY DEF AuditEnd
<1>2. PICK t \in {"Finished", "Cancelled", "Error"} :
         AuditSays(t, audit.number) /\ (t = "Cancelled" => cancels.seen # cancels.value)
  BY DEF AuditEnd
<1>3. Counters /\ WorkersTyped
  BY DEF IInv
<1>4. AuditTyped(audit) /\ audit.number \in Audits /\ cancels \in [value: Nat, seen: Nat]
  BY <1>1, <1>3 DEF WorkersTyped, AuditTyped, Counters
<1>5. /\ AuditTyped(audit') /\ audit'.pc = "deliver"
      /\ audit'.event = [type |-> t, number |-> audit.number]
  BY <1>2, <1>4, AuditSaysTypes
<1>6. cancels'.seen = cancels.value /\ cancels'.value = cancels.value
      /\ cancels' \in [value: Nat, seen: Nat]
  BY <1>1, <1>4
<1>7. Counters'
  BY <1>1, <1>3, <1>6 DEF Counters
<1>8. WorkersTyped'
  BY <1>1, <1>3, <1>5 DEF WorkersTyped, AuditTyped
<1>9. ASSUME ~stop PROVE Good'
  <2>1. Good
    BY <1>9 DEF IInv
  <2>2. OneAnalysis(w, out.audit) /\ CancelsAreAsked(w, out.audit) /\ ReportsAreKept(w)
    BY <2>1 DEF Good, AuditInv, AuditGood
  <2>3. OneAnalysis(w, out.audit)'
    <3>1. Working' = Working
      BY <1>1, <1>5 DEF Working
    <3>. QED BY <1>1, <1>5, <2>2, <3>1 DEF OneAnalysis
  <2>4. CancelsAreAsked(w, out.audit)'
    BY <1>1, <1>2, <1>5, <1>6, <2>2 DEF CancelsAreAsked
  <2>5. ReportsAreKept(w)'
    BY <1>1, <2>2 DEF ReportsAreKept
  <2>6. QueuesInv' /\ AuditInv'
    BY <1>1, <2>1, <2>3, <2>4, <2>5 DEF Good, QueuesInv, AuditInv, AuditGood
  <2>. QED BY <1>1, <1>9, <2>6, AuditStepKeeps
<1>. QED BY <1>1, <1>7, <1>8, <1>9, StepKeeps DEF WorkerStep

LEMMA AuditDeliverKeeps ==
    ASSUME IInv, AuditDeliver
    PROVE  IInv'
<1>1. /\ audit.pc = "deliver" /\ MayRetry("audit")
      /\ in' = IF stop THEN in ELSE [in EXCEPT !.audit = Append(@, audit.event)]
      /\ audit' = [audit EXCEPT !.pc = IF stop THEN "gone" ELSE audit.next, !.event = NoEvent]
      /\ UNCHANGED <<w, turn, out, latest, cancels, stop, sql, scan, db, clicks, cycles, errors, user>>
  BY DEF AuditDeliver, Deliver, Delivered
<1>2. Counters /\ WorkersTyped
  BY DEF IInv
<1>3. /\ audit.event \in AuditEvents /\ in.audit \in Seq(AuditEvents) /\ AuditTyped(audit)
      /\ in \in [sql: Seq(SqlEvents), scan: Seq(ScanEvents), audit: Seq(AuditEvents)]
  BY <1>1, <1>2 DEF WorkersTyped, AuditTyped
<1>4. Counters'
  BY <1>1, <1>2 DEF Counters
<1>. DEFINE t == Append(in.audit, audit.event)
<1>5. /\ t \in Seq(AuditEvents) /\ (~stop => Len(t) <= Events) /\ Len(in.audit) \in Nat
      /\ Len(t) = Len(in.audit) + 1
      /\ \A i \in DOMAIN t : \/ i \in DOMAIN in.audit /\ t[i] = in.audit[i]
                             \/ t[i] = audit.event
  <2>1. /\ t \in Seq(AuditEvents) /\ Len(in.audit) \in Nat /\ Len(t) = Len(in.audit) + 1
        /\ \A i \in DOMAIN t : \/ i \in DOMAIN in.audit /\ t[i] = in.audit[i]
                               \/ t[i] = audit.event
    BY <1>3, AppendFacts
  <2>2. ~stop => Len(in.audit) < Events
    BY <1>1 DEF MayRetry
  <2>3. \A a, b, n \in Nat : b = a + 1 /\ a < n => b <= n
    OBVIOUS
  <2>4. Len(t) \in Nat /\ (~stop => Len(t) <= Events)
    BY <2>1, <2>2, <2>3, DesktopAssumption
  <2>. QED BY <2>1, <2>4
<1>6. ~stop => in' = [in EXCEPT !.audit = t]
  BY <1>1
<1>. HIDE DEF t
<1>7. AuditTyped(audit') /\ audit'.pc \in {"idle", "gone"}
  BY <1>1, <1>3 DEF AuditTyped
<1>8. WorkersTyped'
  <2>1. in' \in [sql: Seq(SqlEvents), scan: Seq(ScanEvents), audit: Seq(AuditEvents)]
    BY <1>1, <1>3, <1>5, <1>6
  <2>2. Len(in'.audit) <= Events /\ in'.sql = in.sql /\ in'.scan = in.scan
    BY <1>1, <1>2, <1>3, <1>5, <1>6 DEF WorkersTyped
  <2>. QED BY <1>1, <1>2, <1>7, <2>1, <2>2 DEF WorkersTyped, AuditTyped
<1>9. ASSUME ~stop PROVE Good'
  <2>1. Good
    BY <1>9 DEF IInv
  <2>2. in'.sql = in.sql /\ in'.scan = in.scan /\ in'.audit = t
    BY <1>3, <1>5, <1>6, <1>9
  <2>3. OneAnalysis(w, out.audit) /\ CancelsAreAsked(w, out.audit) /\ ReportsAreKept(w)
    BY <2>1 DEF Good, AuditInv, AuditGood
  <2>4. OneAnalysis(w, out.audit)'
    <3>1. Working = 1 /\ Working' = 0
      BY <1>1, <1>7 DEF Working
    <3>2. Len(out.audit) \in Nat
      BY <2>1 DEF Good, QueuesInv, Queues
    <3>3. Len(in'.audit) + Working' + Len(out'.audit) = Len(in.audit) + Working + Len(out.audit)
      <4>1. \A a, b \in Nat : (a + 1) + 0 + b = a + 1 + b
        OBVIOUS
      <4>. QED BY <1>1, <1>5, <2>2, <3>1, <3>2, <4>1, Zenon
    <3>4. \A i \in DOMAIN in'.audit : in'.audit[i].number = w.audits
      BY <1>1, <1>5, <2>2, <2>3 DEF OneAnalysis
    <3>. QED BY <1>1, <1>7, <2>3, <3>3, <3>4 DEF OneAnalysis
  <2>5. CancelsAreAsked(w, out.audit)'
    BY <1>1, <1>5, <1>7, <2>2, <2>3 DEF CancelsAreAsked
  <2>6. ReportsAreKept(w)'
    BY <1>1, <2>3 DEF ReportsAreKept
  <2>7. QueuesInv' /\ AuditInv'
    BY <1>1, <2>1, <2>4, <2>5, <2>6 DEF Good, QueuesInv, AuditInv, AuditGood
  <2>. QED BY <1>1, <1>9, <2>2, <2>7, AuditStepKeeps
<1>. QED BY <1>1, <1>4, <1>8, <1>9, StepKeeps DEF WorkerStep

LEMMA AuditStopKeeps ==
    ASSUME IInv, AuditStop
    PROVE  IInv'
<1>1. stop /\ audit' = [audit EXCEPT !.pc = "gone"]
      /\ UNCHANGED <<w, turn, channels, sql, scan, db, clicks, cycles, errors, user>>
  BY DEF AuditStop
<1>2. Counters'
  BY <1>1 DEF IInv, Counters, channels
<1>3. WorkersTyped'
  <2>1. WorkersTyped /\ AuditTyped(audit)
    BY DEF IInv, WorkersTyped, AuditTyped
  <2>2. AuditTyped(audit')
    BY <1>1, <2>1 DEF AuditTyped
  <2>. QED BY <1>1, <2>1, <2>2 DEF WorkersTyped, AuditTyped, channels
<1>. QED BY <1>1, <1>2, <1>3, StepKeeps DEF WorkerStep, channels

(***************************************************************************)
(* The invariant holds, and what it says.                                  *)
(***************************************************************************)
LEMMA BlankFacts ==
    /\ Blank \in Window /\ Blank.rows = None /\ Blank.generation = 0 /\ Blank.snapshot_requested = TRUE
    /\ Blank.selected = None /\ Blank.detail = 0 /\ Blank.changes = 0 /\ Blank.audits = 0
    /\ Blank.auditing = FALSE /\ Blank.save = NoSave /\ Blank.cancelled = {} /\ Blank.asked = {}
    /\ Blank.monitoring = Monitored /\ Blank.pause_pending = FALSE
<1>1. 0 \in 0..MaxClicks /\ Monitored \in BOOLEAN
  BY DesktopAssumption
<1>2. NoSave \in [report: 0..MaxClicks, state: {"none", "Queued", "Saving", "Saved", "Failed"}]
  BY <1>1 DEF NoSave
<1>3. {} \in SUBSET Audits
  OBVIOUS
<1>4. Blank \in Window
  BY <1>1, <1>2, <1>3 DEF Blank, Window
<1>. QED BY <1>4 DEF Blank

LEMMA InitKeeps ==
    ASSUME Init
    PROVE  IInv
<1>1. /\ w = RequestQuery(Blank) /\ turn = "sql" /\ out = NoQueues /\ in = NoQueues
      /\ latest = 1 /\ cancels = [value |-> 0, seen |-> 0] /\ stop = FALSE
      /\ sql = [pc |-> "idle", command |-> NoEvent, event |-> NoEvent, next |-> "idle"]
      /\ scan = [pc |-> "new", paused |-> ~Monitored, commits |-> 0, event |-> NoEvent,
                  next |-> "wait"]
      /\ audit = [pc |-> "idle", number |-> 0, event |-> NoEvent, next |-> "idle"]
      /\ db = [version |-> 0, watched |-> FALSE, reports |-> {}]
      /\ user \in Users /\ clicks = 0 /\ cycles = 0 /\ errors = 0
  BY DEF Init
<1>2. /\ w \in Window /\ w.generation = 1 /\ w.rows = None /\ w.snapshot_requested = TRUE
      /\ w.selected = None /\ w.detail = 0 /\ w.changes = 0 /\ w.audits = 0 /\ w.auditing = FALSE
      /\ w.save = NoSave /\ w.cancelled = {} /\ w.asked = {} /\ w.monitoring = Monitored
  <2>1. w.generation = Blank.generation + 1
    BY <1>1, BlankFacts, QueryFacts
  <2>. QED BY <1>1, <2>1, BlankFacts, QueryFacts DEF SameElse
<1>3. /\ out.sql = <<>> /\ out.scan = <<>> /\ out.audit = <<>>
      /\ in.sql = <<>> /\ in.scan = <<>> /\ in.audit = <<>>
  BY <1>1 DEF NoQueues
<1>4. Counters
  <2>1. cancels \in [value: Nat, seen: Nat] /\ cancels.seen = 0 /\ cancels.value = 0
    BY <1>1
  <2>2. clicks \in 0..MaxClicks /\ cycles \in 0..MaxCycles /\ errors \in 0..MaxErrors
    BY <1>1, DesktopAssumption
  <2>3. cancels.seen <= cancels.value /\ cancels.value <= clicks
    BY <1>1, <2>1
  <2>4. turn = "sql" /\ latest \in Nat /\ stop \in BOOLEAN /\ user \in Users
    BY <1>1
  <2>. QED BY <2>1, <2>2, <2>3, <2>4 DEF Counters
<1>5. WorkersTyped
  <2>1. in \in [sql: Seq(SqlEvents), scan: Seq(ScanEvents), audit: Seq(AuditEvents)]
    BY <1>1 DEF NoQueues
  <2>2. Len(in.sql) <= Events /\ Len(in.scan) <= Events /\ Len(in.audit) <= Events
    BY <1>3, DesktopAssumption
  <2>. DEFINE no == NoEvent
  <2>. HIDE DEF no
  <2>3. /\ sql \in [pc: {"idle", "busy", "deliver", "gone"}, command: SqlCommands \cup {no},
                    event: SqlEvents \cup {no}, next: {"idle"}]
        /\ scan \in [pc: {"new", "wait", "cycle", "deliver", "gone"}, paused: BOOLEAN,
                     commits: 0..Watch, event: ScanEvents \cup {no}, next: {"wait", "cycle", "gone"}]
    BY <1>1, DesktopAssumption DEF no
  <2>4. audit \in [pc: {"idle", "busy", "deliver", "gone"}, number: 0..MaxClicks,
                   event: AuditEvents \cup {no}, next: {"idle"}]
    BY <1>1, DesktopAssumption DEF no
  <2>5. db \in [version: Nat, watched: BOOLEAN, reports: SUBSET Audits]
    BY <1>1
  <2>6. sql.pc = "idle" /\ scan.pc = "new" /\ audit.pc = "idle"
    BY <1>1
  <2>. QED BY <2>1, <2>2, <2>3, <2>4, <2>5, <2>6 DEF WorkersTyped, no
<1>6. WindowInv
  BY <1>1, <1>2 DEF WindowInv, WindowGood
<1>7. QueuesInv
  <2>1. out \in [sql: Seq(SqlCommands), scan: Seq(ScanCommands), audit: Seq(AuditCommands)]
    BY <1>1 DEF NoQueues
  <2>. QED BY <1>3, <2>1, DesktopAssumption DEF QueuesInv, Queues
<1>8. SqlInv
  <2>1. DOMAIN Line(out.sql) = {}
    <3>1. Held = 0 /\ Len(in.sql) = 0 /\ Len(out.sql) = 0
      BY <1>1, <1>3 DEF Held
    <3>2. DOMAIN Line(out.sql) = 1..(Len(in.sql) + Held + Len(out.sql))
      BY Zenon DEF Line, LineOf
    <3>3. 1..(0 + 0 + 0) = {}
      OBVIOUS
    <3>. QED BY <3>1, <3>2, <3>3
  <2>. DEFINE L == Line(out.sql)
  <2>2. DOMAIN L = {}
    BY <2>1
  <2>. HIDE DEF L
  <2>3. InOrder(L) /\ OncePerKind(L) /\ Awaited(w, L)
    BY <2>2 DEF InOrder, OncePerKind, Awaited
  <2>4. FlagsAreTrue(w, L, db)
    BY <1>2, <2>2 DEF FlagsAreTrue
  <2>5. RowsAreTrue(w, L, db, ScanRefreshes)
    BY <1>2, <2>2 DEF RowsAreTrue
  <2>6. SnapshotIsTrue(w, L, db, ScanRefreshes)
    BY <1>2 DEF SnapshotIsTrue
  <2>. QED BY <2>3, <2>4, <2>5, <2>6 DEF SqlInv, SqlGood, L
<1>9. ScanInv
  <2>1. ~PauseHeld /\ ~PauseTold /\ ~PauseAsked(out.scan) /\ DOMAIN in.scan = {} /\ DOMAIN out.scan = {}
    BY <1>1, <1>3 DEF PauseHeld, PauseTold, PauseAsked
  <2>2. OnePause(w, out.scan)
    BY <2>1 DEF OnePause
  <2>3. w.monitoring = ~scan.paused
    BY <1>1, <1>2, DesktopAssumption
  <2>4. PausesAgree(w)
    BY <2>1, <2>3 DEF PausesAgree
  <2>. QED BY <2>2, <2>4 DEF ScanInv, ScanGood
<1>10. AuditInv
  <2>1. Working = 0 /\ Len(in.audit) = 0 /\ Len(out.audit) = 0 /\ DOMAIN in.audit = {}
        /\ DOMAIN out.audit = {} /\ audit.pc = "idle"
    BY <1>1, <1>3 DEF Working
  <2>2. OneAnalysis(w, out.audit)
    BY <2>1 DEF OneAnalysis
  <2>3. CancelsAreAsked(w, out.audit)
    BY <1>2, <2>1 DEF CancelsAreAsked
  <2>4. ReportsAreKept(w)
    BY <1>1, <1>2 DEF ReportsAreKept, NoSave
  <2>. QED BY <2>2, <2>3, <2>4 DEF AuditInv, AuditGood
<1>. QED BY <1>1, <1>4, <1>5, <1>6, <1>7, <1>8, <1>9, <1>10 DEF IInv, Good

LEMMA NextKeeps ==
    ASSUME IInv, [Next]_vars
    PROVE  IInv'
<1>1. ASSUME Counters' /\ WorkersTyped' /\ stop' = FALSE /\ Good' PROVE IInv'
  BY <1>1 DEF IInv
<1>2. CASE Frame
  <2>1. CASE ReceiveSql
    BY <1>1, <2>1, ReceiveSqlKeeps
  <2>2. CASE ReceiveScan
    BY <1>1, <2>2, ReceiveScanKeeps
  <2>3. CASE ReceiveAudit
    BY <1>1, <2>3, ReceiveAuditKeeps
  <2>4. CASE SqlDrained \/ ScanDrained \/ Draw
    BY <1>1, <2>4, DrainedKeeps
  <2>5. CASE Flush
    BY <1>1, <2>5, FlushKeeps
  <2>. QED BY <1>2, <2>1, <2>2, <2>3, <2>4, <2>5 DEF Frame
<1>3. CASE Clicked
  <2>1. ASSUME NEW c \in user, DrawClicked(c) PROVE IInv'
    BY <1>1, <2>1, DrawClickedKeeps
  <2>2. CASE DrawCancelled
    BY <1>1, <2>2, DrawCancelledKeeps
  <2>. QED BY <1>3, <2>1, <2>2 DEF Clicked
<1>4. CASE Close
  BY <1>4, CloseKeeps DEF IInv
<1>5. CASE SqlStep
  BY <1>5, SqlTakeKeeps, SqlRunKeeps, SqlDeliverKeeps, SqlStopKeeps DEF SqlStep
<1>6. CASE ScanStep
  BY <1>6, ScanNewKeeps, ScanCommandKeeps, ScanDueKeeps, ScanQuarantineKeeps, ScanCycleKeeps,
     ScanDeliverKeeps, ScanStopKeeps DEF ScanStep
<1>7. CASE AuditStep
  BY <1>7, AuditTakeKeeps, AuditEndKeeps, AuditDeliverKeeps, AuditStopKeeps DEF AuditStep
<1>8. CASE UNCHANGED vars
  <2>1. /\ UNCHANGED <<w, turn, out, in, latest, cancels, stop, sql, scan, audit, db>>
        /\ UNCHANGED <<user, clicks, cycles, errors>>
    BY <1>8 DEF vars, channels
  <2>2. Counters' /\ WorkersTyped'
    BY <2>1 DEF IInv, Counters, WorkersTyped
  <2>3. CASE stop
    BY <2>1, <2>2, <2>3 DEF IInv, Closed
  <2>4. CASE ~stop
    <3>1. Good
      BY <2>4 DEF IInv
    <3>2. ScanInv' /\ (ScanRefreshing => ScanRefreshing')
      BY <2>1, <3>1, ScanFrame DEF Good
    <3>3. SqlInv'
      BY <2>1, <3>1, <3>2, SqlFrame DEF Good, SqlSame
    <3>4. AuditInv'
      BY <2>1, <3>1, AuditFrame DEF Good, AuditSame
    <3>5. WindowInv' /\ QueuesInv'
      BY <2>1, <3>1 DEF Good, WindowInv, WindowGood, QueuesInv
    <3>. QED BY <2>1, <2>2, <2>4, <3>2, <3>3, <3>4, <3>5 DEF IInv, Good
  <2>. QED BY <2>3, <2>4
<1>. QED BY <1>2, <1>3, <1>4, <1>5, <1>6, <1>7, <1>8 DEF Next

(***************************************************************************)
(* The theorems.                                                           *)
(***************************************************************************)
\* In an open window the rows, the watch flag and the snapshot are those of the database as
\* soon as nothing is under way.
LEMMA QuietIsFresh ==
    ASSUME IInv
    PROVE  QuietWindowIsFresh
<1>1. SUFFICES ASSUME Quiet
               PROVE  /\ w.rows # None => w.rows.data = Seen
                      /\ ~w.snapshot_error => w.snapshot.version = db.version
                                              /\ w.snapshot.reports = db.reports
                      /\ w.selected # None => w.selected = db.watched
  BY DEF QuietWindowIsFresh
<1>2. /\ ~stop /\ ~w.snapshot_requested /\ in.sql = <<>> /\ out.sql = <<>> /\ sql.pc = "idle"
      /\ in.scan = <<>> /\ scan.pc # "deliver" /\ ~(scan.commits > 0)
  BY <1>1 DEF Quiet, Open
<1>3. Good /\ WorkersTyped /\ w \in Window
  BY <1>2 DEF IInv, Good, WindowInv, WindowGood
<1>. DEFINE L == Line(out.sql)
<1>4. DOMAIN L = {}
  <2>1. Held = 0 /\ Len(in.sql) = 0 /\ Len(out.sql) = 0
    BY <1>2 DEF Held
  <2>2. DOMAIN L = 1..(Len(in.sql) + Held + Len(out.sql))
    BY Zenon DEF Line, LineOf
  <2>3. 1..(0 + 0 + 0) = {}
    OBVIOUS
  <2>. HIDE DEF L
  <2>. QED BY <2>1, <2>2, <2>3
<1>5. SqlGood(w, L, db, ScanRefreshes)
  BY <1>3 DEF Good, SqlInv
<1>. HIDE DEF L
<1>6. ScanRefreshes # 1 /\ ~RefreshComes(L, ScanRefreshes) /\ ~MutationAfter(L, 0)
  BY <1>2, <1>4 DEF ScanRefreshes, ScanRefreshing, RefreshComes, MutationAfter
<1>7. ASSUME w.rows # None PROVE w.rows.data = Seen
  <2>1. w.rows.data.version = db.version
    BY <1>5, <1>6, <1>7 DEF SqlGood, RowsAreTrue
  <2>2. w.rows.data.watched = db.watched
    BY <1>5, <1>6, <1>7 DEF SqlGood, FlagsAreTrue
  <2>3. w.rows.data \in [version: Nat, watched: BOOLEAN]
    BY <1>3, <1>7 DEF Window, Data
  <2>. QED BY <2>1, <2>2, <2>3 DEF Seen
<1>8. ~w.snapshot_error => w.snapshot.version = db.version /\ w.snapshot.reports = db.reports
  BY <1>2, <1>4, <1>5, <1>6 DEF SqlGood, SnapshotIsTrue
<1>9. w.selected # None => w.selected = db.watched
  BY <1>5, <1>6 DEF SqlGood, FlagsAreTrue
<1>. QED BY <1>7, <1>8, <1>9

LEMMA InvariantIsTruthful ==
    ASSUME IInv
    PROVE  WindowIsTruthful
<1>1. Counters /\ WorkersTyped
  BY DEF IInv
<1>2. TypeOK
  <2>1. /\ w \in Window /\ Len(out.sql) <= Commands /\ Len(out.scan) <= Commands
        /\ Len(out.audit) <= 1 /\ (~stop => latest = w.generation)
    <3>1. CASE stop
      <4>1. w = Blank /\ out = NoQueues
        BY <3>1 DEF IInv, Closed
      <4>2. Len(out.sql) = 0 /\ Len(out.scan) = 0 /\ Len(out.audit) = 0
        BY <4>1 DEF NoQueues
      <4>. QED BY <3>1, <4>1, <4>2, BlankFacts, DesktopAssumption
    <3>2. CASE ~stop
      BY <3>2 DEF IInv, Good, WindowInv, WindowGood, QueuesInv, Queues
    <3>. QED BY <3>1, <3>2
  <2>2. \A x \in DOMAIN in : Len(in[x]) <= Events
    BY <1>1 DEF WorkersTyped
  <2>3. cancels.seen <= cancels.value /\ cancels.value <= MaxClicks
    BY <1>1, DesktopAssumption DEF Counters
  <2>. QED BY <1>1, <2>1, <2>2, <2>3 DEF TypeOK, Counters, WorkersTyped
<1>3. ShownIsAsked
  <2>1. CASE stop
    BY <2>1, BlankFacts DEF IInv, Closed, ShownIsAsked
  <2>2. CASE ~stop
    BY <2>2 DEF IInv, Good, WindowInv, WindowGood, SqlInv, SqlGood, RowsAreTrue, ShownIsAsked
  <2>. QED BY <2>1, <2>2
<1>4. ControlsAgree
  <2>1. SUFFICES ASSUME ~stop, scan.pc # "gone", scan.next # "gone", ~w.pause_pending
                 PROVE  w.monitoring = ~scan.paused
    BY DEF ControlsAgree, Open
  <2>2. OnePause(w, out.scan) /\ PausesAgree(w)
    BY <2>1 DEF IInv, Good, ScanInv, ScanGood, Alive
  <2>3. ~PauseTold
    BY <2>1, <2>2 DEF OnePause
  <2>. QED BY <2>2, <2>3 DEF PausesAgree
<1>. QED BY <1>2, <1>3, <1>4, QuietIsFresh DEF WindowIsTruthful

LEMMA InvariantIsHonest ==
    ASSUME IInv
    PROVE  CancelIsHonest
<1>1. CASE stop
  BY <1>1, BlankFacts DEF IInv, Closed, CancelIsHonest
<1>2. CASE ~stop
  BY <1>2 DEF IInv, Good, AuditInv, AuditGood, CancelsAreAsked, ReportsAreKept, CancelIsHonest
<1>. QED BY <1>1, <1>2

\* A step of the window that receives, hands over or draws, or a click, does not replace a
\* report that waits or is being saved.
LEMMA ReportStays ==
    ASSUME IInv, [Next]_vars, SavePending(w.save), ~stop'
    PROVE  w'.save.report = w.save.report
<1>1. CASE ReceiveSql
  <2>1. ~stop /\ in.sql # <<>> /\ w' = OnSql(w, Head(in.sql))
    BY <1>1 DEF ReceiveSql, Receive
  <2>2. w \in Window /\ in.sql \in Seq(SqlEvents) /\ (w.changes # 0 => w.changes = w.detail)
    BY <2>1 DEF IInv, WorkersTyped, Good, WindowInv, WindowGood
  <2>3. Head(in.sql) \in SqlEvents
    BY <2>1, <2>2
  <2>4. Decided(w', w)
    BY <2>1, <2>2, <2>3, OnSqlWindow
  <2>. QED BY <2>4 DEF Decided
<1>2. CASE ReceiveScan
  <2>1. ~stop /\ in.scan # <<>> /\ w' = OnScan(w, Head(in.scan))
    BY <1>2 DEF ReceiveScan, Receive
  <2>2. w \in Window /\ in.scan \in Seq(ScanEvents)
    BY <2>1 DEF IInv, WorkersTyped, Good, WindowInv, WindowGood
  <2>3. Head(in.scan) \in ScanEvents
    BY <2>1, <2>2
  <2>. QED BY <2>1, <2>2, <2>3, OnScanWindow DEF DetailSame, AuditSame
<1>3. CASE ReceiveAudit
  <2>1. ~stop /\ in.audit # <<>>
    BY <1>3 DEF ReceiveAudit, Receive
  <2>2. Counters /\ WorkersTyped /\ Good /\ in.audit \in Seq(AuditEvents)
    BY <2>1 DEF IInv, WorkersTyped
  <2>3. Len(in.audit) # 0
    BY <2>1, <2>2
  <2>4. w.auditing
    BY <2>2, <2>3, NobodyAnalyzes
  <2>5. w.save = NoSave
    BY <2>2, <2>4 DEF Good, AuditInv, AuditGood, ReportsAreKept
  <2>. QED BY <2>5 DEF NoSave, SavePending
<1>4. CASE Flush
  BY <1>4, FlushKeeps
<1>5. CASE ScanDrained
  <2>1. ~stop /\ (w' = w \/ w' = [w EXCEPT !.ready = FALSE, !.scanning = FALSE, !.pause_pending = FALSE])
    BY <1>5 DEF ScanDrained
  <2>2. w \in Window
    BY <2>1 DEF IInv, Good, WindowInv, WindowGood
  <2>. QED BY <2>1, <2>2 DEF Window
<1>6. CASE Clicked
  <2>1. ASSUME NEW c \in user, DrawClicked(c) PROVE w'.save.report = w.save.report
    BY <2>1, DrawClickedKeeps DEF SaveKept
  <2>2. CASE DrawCancelled
    BY <2>2, DrawCancelledKeeps
  <2>. QED BY <1>6, <2>1, <2>2 DEF Clicked
<1>7. CASE SqlDrained \/ Draw
  BY <1>7 DEF SqlDrained, Draw
<1>8. CASE SqlStep \/ ScanStep \/ AuditStep
  BY <1>8 DEF SqlStep, SqlTake, SqlRun, SqlDeliver, SqlStop, ScanStep, ScanNew, ScanCommand, ScanDue,
              ScanQuarantine, ScanCycle, ScanDeliver, ScanStop, AuditStep, AuditTake, AuditEnd, AuditDeliver, AuditStop
<1>9. CASE UNCHANGED vars
  BY <1>9 DEF vars
<1>10. CASE Close
  BY <1>10 DEF Close
<1>. QED BY <1>1, <1>2, <1>3, <1>4, <1>5, <1>6, <1>7, <1>8, <1>9, <1>10 DEF Next, Frame

\* The line of the sql worker is in order and answers what the window waits for, at most one
\* pause and one analysis are under way, and what is or will be shown is so or is corrected:
\* by the line, by an event of the scan worker, or by the end of a cycle that has put a
\* repository in quarantine, be it an error (engine.rs 329, 387-394).
THEOREM DesktopInvariant == Spec => []IInv
<1>1. Init => IInv
  BY InitKeeps
<1>2. IInv /\ [Next]_vars => IInv'
  BY NextKeeps
<1>. QED BY <1>1, <1>2, PTL DEF Spec

\* The window shows what was asked, as the database has it once nothing is under way (a
\* cycle that has quarantined and goes on is), and the pause that the worker keeps, for
\* queues of any length, any number of clicks and of quarantines in a cycle.
THEOREM WindowIsAlwaysTruthful == Spec => []WindowIsTruthful
<1>1. IInv => WindowIsTruthful
  BY InvariantIsTruthful
<1>. QED BY <1>1, DesktopInvariant, PTL

\* Only an analysis that was cancelled is shown as cancelled, and it stored no report.
THEOREM CancelIsAlwaysHonest == Spec => []CancelIsHonest
<1>1. IInv => CancelIsHonest
  BY InvariantIsHonest
<1>. QED BY <1>1, DesktopInvariant, PTL

\* A report that is not saved yet is not replaced by that of a later analysis.
THEOREM NoReportIsEverDropped == Spec => NoReportIsDropped
<1>1. IInv /\ [Next]_vars =>
         [SavePending(w.save) /\ ~stop' => w'.save.report = w.save.report]_vars
  BY ReportStays
<1>. QED BY <1>1, DesktopInvariant, PTL DEF Spec, NoReportIsDropped

=============================================================================
