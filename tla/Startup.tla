------------------------------ MODULE Startup -------------------------------
(***************************************************************************)
(* From the start of a process to its first cycles: main takes the lock    *)
(* beside the database (src/src/main.rs), Database::new backs the file up  *)
(* and migrates it (src/src/db.rs), Engine::new loads the state or, before *)
(* one is stored, its old sidecar file (src/src/engine.rs, state.rs), and  *)
(* a cycle that commits stores the state.  Processes die and power fails   *)
(* at any step; another program may hold the database.                     *)
(*                                                                         *)
(* The state is one position, which a cycle moves on.  The repositories    *)
(* are one row, which may fail the checks of the migration, and whether it *)
(* was announced.  A transaction is durable when it commits (synchronous = *)
(* FULL), and so is a file, name included, when sync_all returns.          *)
(***************************************************************************)
EXTENDS Integers, Sequences, FiniteSets

CONSTANTS
    Procs,          \* processes
    None, Corrupt,
    MaxStarts,      \* bound: starts
    MaxCycles,      \* bound: cycles that commit
    MaxBusy         \* bound: times another program takes the database

ASSUME StartupAssumption ==
    /\ None \notin Procs \cup Nat /\ Corrupt \notin Nat /\ None # Corrupt
    /\ MaxStarts \in Nat /\ MaxCycles \in Nat /\ MaxBusy \in Nat

SCHEMA_VERSION == 2

VARIABLES
    file,       \* the database on disk
    origin,     \* what it held at first
    backups,    \* files of backups, in the order they were reserved
    sidecar,    \* the old state file: a position, Corrupt or None
    lock,       \* the process that holds the lock file's lock
    proc,       \* the processes
    reported,   \* backups a process has told of
    told,       \* the row was announced by a notification
    busy,       \* another program holds the database
    starts, cycles, takes

disk == <<file, backups>>
bounds == <<starts, cycles, takes>>
startupVars == <<disk, origin, sidecar, lock, proc, reported, told, busy, bounds>>

Positions == 0..(MaxCycles + 1)
Files == [version: 0..(SCHEMA_VERSION + 1), parts: SUBSET (1..SCHEMA_VERSION),
          row: {"none", "good", "bad"}, announced: BOOLEAN, state: Positions \cup {None}]
ASSUME NoneIsNoFile == None \notin Files

Empty == [version |-> 0, parts |-> {}, row |-> "none", announced |-> FALSE, state |-> None]
Off == [pc |-> "off", action |-> "none", version |-> 0, backup |-> 0, work |-> Empty,
        position |-> 0]

Opened == {"open", "reserve", "copy", "seal", "begin", "columns", "validate", "index", "commit",
           "ready", "engine", "run"}

StartupTypeOK ==
    /\ file \in Files /\ origin \in Files /\ sidecar \in Positions \cup {Corrupt, None}
    /\ backups \in Seq([holds: Files \cup {None}, synced: BOOLEAN])
    /\ Len(backups) <= 2 * MaxStarts
    /\ lock \in Procs \cup {None}
    /\ proc \in [Procs -> [pc: {"off", "lock"} \cup Opened,
                           action: {"none", "stats", "backup", "run"},
                           version: 0..SCHEMA_VERSION, backup: 0..Len(backups), work: Files,
                           position: Positions]]
    /\ \A p \in Procs : proc[p].pc \in Opened => lock = p
    /\ reported \subseteq 1..Len(backups)
    /\ told \in BOOLEAN /\ busy \in BOOLEAN
    /\ starts \in 0..MaxStarts /\ cycles \in 0..MaxCycles /\ takes \in 0..MaxBusy

\* No database, an empty file, or one that some version of the program left.
Shipped == {f \in Files :
              /\ f.version = 0 => f.parts = {} /\ ~f.announced /\ f.state = None
              /\ f.version > 0 => f.parts = 1..f.version \cap 1..SCHEMA_VERSION /\ f.row # "bad"
              /\ f.row = "none" => ~f.announced
              /\ f.state \in {None, 0}}
\* What load_checked may find: no file, one that it refuses (unreadable, too large, not a
\* state, of another schema), or the state of an installation of the first version.
Sidecars == {None, Corrupt, 1}
StartupInit ==
    /\ file \in Shipped /\ origin = file
    /\ backups = <<>> /\ sidecar \in Sidecars
    /\ lock = None /\ proc = [p \in Procs |-> Off]
    /\ reported = {} /\ told = FALSE /\ busy = FALSE
    /\ starts = 0 /\ cycles = 0 /\ takes = 0

Free(p) == IF lock = p THEN None ELSE lock
Goes(p, pc) == proc' = [proc EXCEPT ![p].pc = pc]

\* The end of a process, by itself, by an error or by a kill: the lock and an open
\* transaction go with it.
End(p) ==
    /\ proc' = [proc EXCEPT ![p] = Off] /\ lock' = Free(p)
    /\ UNCHANGED <<disk, origin, sidecar, told, busy, bounds>>
Fail(p) == End(p) /\ UNCHANGED reported

-----------------------------------------------------------------------------
\* main.  One action that only reads, one that backs the database up, one that runs cycles.
Start(p) ==
    /\ proc[p].pc = "off" /\ starts < MaxStarts /\ starts' = starts + 1
    /\ \E a \in {"stats", "backup", "run"} :
          proc' = [proc EXCEPT ![p].pc = "lock", ![p].action = a]
    /\ UNCHANGED <<disk, origin, sidecar, lock, reported, told, busy, cycles, takes>>

\* lock_database.
Lock(p) ==
    /\ proc[p].pc = "lock"
    /\ IF lock # None THEN Fail(p)
       ELSE /\ Goes(p, "open") /\ lock' = p
            /\ UNCHANGED <<disk, origin, sidecar, reported, told, busy, bounds>>

\* Database::new up to the backup.  A file of a newer program is refused, an empty one has
\* nothing to back up.
Open(p) ==
    /\ proc[p].pc = "open"
    /\ IF file.version > SCHEMA_VERSION THEN Fail(p)
       ELSE /\ proc' = [proc EXCEPT
                 ![p].pc = IF file.version = SCHEMA_VERSION THEN "ready"
                           ELSE IF file # Empty THEN "reserve" ELSE "begin",
                 ![p].version = file.version]
            /\ UNCHANGED <<disk, origin, sidecar, lock, reported, told, busy, bounds>>

-----------------------------------------------------------------------------
\* backup_connection, for a migration and for the user: a new file, the copy, and a
\* checkpoint, a close and a sync that make it a file that stands alone.
Reserve(p) ==
    /\ proc[p].pc = "reserve"
    /\ backups' = Append(backups, [holds |-> None, synced |-> FALSE])
    /\ proc' = [proc EXCEPT ![p].pc = "copy", ![p].backup = Len(backups) + 1]
    /\ UNCHANGED <<file, origin, sidecar, lock, reported, told, busy, bounds>>

Copy(p) ==
    /\ proc[p].pc = "copy" /\ ~busy
    /\ backups' = [backups EXCEPT ![proc[p].backup].holds = file]
    /\ Goes(p, "seal")
    /\ UNCHANGED <<file, origin, sidecar, lock, reported, told, busy, bounds>>

\* The copy is out of time, or the database was busy for too long when a transaction began.
\* The part of a backup that was written stays behind.
TimesOut(p) == proc[p].pc \in {"copy", "begin"} /\ busy /\ Fail(p)

Seal(p) ==
    /\ proc[p].pc = "seal"
    /\ backups' = [backups EXCEPT ![proc[p].backup].synced = TRUE]
    /\ IF proc[p].action = "backup" /\ file.version = SCHEMA_VERSION
       THEN /\ proc' = [proc EXCEPT ![p] = Off] /\ lock' = Free(p)
            /\ reported' = reported \cup {proc[p].backup}
       ELSE Goes(p, "begin") /\ UNCHANGED <<lock, reported>>
    /\ UNCHANGED <<file, origin, sidecar, told, busy, bounds>>

-----------------------------------------------------------------------------
\* migrate: one immediate transaction, which sees its own changes only.
Begin(p) ==
    /\ proc[p].pc = "begin" /\ ~busy
    /\ proc' = [proc EXCEPT ![p].pc = IF file.version < 1 THEN "columns" ELSE "index",
                            ![p].work = file]
    /\ UNCHANGED <<disk, origin, sidecar, lock, reported, told, busy, bounds>>

\* Version 1: columns and tables; what is accepted counts as announced.
\* Mutant: old rows are left as new ones.
Columns_New(p) ==
    /\ proc[p].pc = "columns"
    /\ proc' = [proc EXCEPT ![p].pc = "validate", ![p].work.parts = {1}]
    /\ UNCHANGED <<disk, origin, sidecar, lock, reported, told, busy, bounds>>
\* Mutant: the columns are added before the transaction begins.
Columns_InPlace(p) ==
    /\ proc[p].pc = "columns"
    /\ proc' = [proc EXCEPT ![p].pc = "validate",
                   ![p].work = [@ EXCEPT !.parts = {1}, !.announced = proc[p].work.row # "none"]]
    /\ file' = [file EXCEPT !.parts = {1}]
    /\ UNCHANGED <<backups, origin, sidecar, lock, reported, told, busy, bounds>>
Columns(p) ==
    /\ proc[p].pc = "columns"
    /\ proc' = [proc EXCEPT ![p].pc = "validate",
                   ![p].work = [@ EXCEPT !.parts = {1}, !.announced = proc[p].work.row # "none"]]
    /\ UNCHANGED <<disk, origin, sidecar, lock, reported, told, busy, bounds>>

\* Every row must have an id and a name of the right form, or nothing is migrated.
Validate(p) ==
    /\ proc[p].pc = "validate"
    /\ IF proc[p].work.row = "bad" THEN Fail(p)
       ELSE /\ proc' = [proc EXCEPT ![p].pc = "index", ![p].work.version = 1]
            /\ UNCHANGED <<disk, origin, sidecar, lock, reported, told, busy, bounds>>

\* Version 2: the search index, rebuilt, and its triggers.
Index(p) ==
    /\ proc[p].pc = "index"
    /\ proc' = [proc EXCEPT ![p].pc = "commit",
                   ![p].work = [@ EXCEPT !.parts = proc[p].work.parts \cup {2}, !.version = 2]]
    /\ UNCHANGED <<disk, origin, sidecar, lock, reported, told, busy, bounds>>

Commit(p) ==
    /\ proc[p].pc = "commit"
    /\ file' = proc[p].work
    /\ proc' = [proc EXCEPT ![p].pc = "ready", ![p].work = Empty, ![p].backup = 0]
    /\ UNCHANGED <<backups, origin, sidecar, lock, reported, told, busy, bounds>>

-----------------------------------------------------------------------------
\* The database is open: the action of the command line.
Act(p) ==
    /\ proc[p].pc = "ready"
    /\ \/ proc[p].action = "stats" /\ Fail(p)
       \/ /\ \/ proc[p].action = "backup" /\ Goes(p, "reserve")
             \/ proc[p].action = "run" /\ Goes(p, "engine")
          /\ UNCHANGED <<disk, origin, sidecar, lock, reported, told, busy, bounds>>

\* Engine::new: the state that is stored, else the sidecar, else a new installation, which
\* starts behind the repositories that are there.
\* Mutant: the sidecar comes first.
Load_Sidecar(p) ==
    /\ proc[p].pc = "engine"
    /\ IF sidecar = Corrupt THEN Fail(p)
       ELSE /\ proc' = [proc EXCEPT ![p].pc = "run",
                 ![p].position = IF sidecar # None THEN sidecar
                                 ELSE IF file.state # None THEN file.state
                                 ELSE IF file.row = "none" THEN 0 ELSE 1]
            /\ UNCHANGED <<disk, origin, sidecar, lock, reported, told, busy, bounds>>
Load(p) ==
    /\ proc[p].pc = "engine"
    /\ IF file.state = None /\ sidecar = Corrupt THEN Fail(p)
       ELSE /\ proc' = [proc EXCEPT ![p].pc = "run",
                 ![p].position = IF file.state # None THEN file.state
                                 ELSE IF sidecar # None THEN sidecar
                                 ELSE IF file.row = "none" THEN 0 ELSE 1]
            /\ UNCHANGED <<disk, origin, sidecar, lock, reported, told, busy, bounds>>

\* The transaction of a cycle stores the state with the data, and enqueues a notification
\* for the row it sees again if that was never announced.
Stores(position) ==
    /\ file' = [file EXCEPT !.state = position, !.announced = file.row # "none"]
    /\ told' = (told \/ (file.row # "none" /\ ~file.announced))

\* The loop of run_async_action; a cycle that fails leaves everything as it was.
Cycle(p) ==
    /\ proc[p].pc = "run" /\ ~busy
    /\ cycles < MaxCycles /\ cycles' = cycles + 1
    /\ proc' = [proc EXCEPT ![p].position = @ + 1]
    /\ Stores(proc[p].position + 1)
    /\ UNCHANGED <<backups, origin, sidecar, lock, reported, busy, starts, takes>>

Die(p) == proc[p].pc # "off" /\ Fail(p)

-----------------------------------------------------------------------------
\* The power fails: every process ends, and what was not synced is lost.
PowerLoss ==
    /\ \E p \in Procs : proc[p].pc # "off"
    /\ proc' = [p \in Procs |-> Off] /\ lock' = None /\ busy' = FALSE
    /\ backups' = [i \in DOMAIN backups |->
                     IF backups[i].synced THEN backups[i] ELSE [backups[i] EXCEPT !.holds = None]]
    /\ UNCHANGED <<file, origin, sidecar, reported, told, bounds>>

\* Another program, a shell or a copy, takes the database, and may keep it.
Take == ~busy /\ takes < MaxBusy /\ takes' = takes + 1 /\ busy' = TRUE
        /\ UNCHANGED <<disk, origin, sidecar, lock, proc, reported, told, starts, cycles>>
Release == busy /\ busy' = FALSE
           /\ UNCHANGED <<disk, origin, sidecar, lock, proc, reported, told, bounds>>

Step(p) == \/ Lock(p) \/ Open(p) \/ Reserve(p) \/ Copy(p) \/ TimesOut(p) \/ Seal(p)
           \/ Begin(p) \/ Columns(p) \/ Validate(p) \/ Index(p) \/ Commit(p)
           \/ Act(p) \/ Load(p)
StartupNext ==
    \/ \E p \in Procs : Start(p) \/ Step(p) \/ Cycle(p) \/ Die(p)
    \/ PowerLoss \/ Take \/ Release

StartupSpec == StartupInit /\ [][StartupNext]_startupVars

-----------------------------------------------------------------------------
\* A database that held anything is never found migrated without a backup of it as it was,
\* complete and durable, whatever happened in between and however often it was tried; and
\* a backup the user was told of is one (db.rs 121-135, 1478-1519).
Whole(i) == backups[i].synced /\ backups[i].holds # None
BackupsAreWhole ==
    /\ file.version # origin.version /\ origin # Empty =>
          \E i \in DOMAIN backups : Whole(i) /\ backups[i].holds = origin
    /\ \A i \in reported : Whole(i)

\* The database is as it was or migrated as a whole: no crash, failed check or full stop in
\* a migration leaves columns, rows and version of different schemas (db.rs 799-941).
MigrationIsAtomic ==
    /\ file.parts = 1..file.version \cap 1..SCHEMA_VERSION
    /\ file.version \in {origin.version, SCHEMA_VERSION}
    /\ file.version # SCHEMA_VERSION => file = origin

\* At every moment of a start, whatever interrupts it, the user's data are safe: in the file
\* or, once that was changed, in a backup too (db.rs 85-149, 799-941, 1436-1519).
MigrationIsSafe == StartupTypeOK /\ BackupsAreWhole /\ MigrationIsAtomic

\* A repository that was known before there were notifications is never announced as new
\* (db.rs 858).
OldRowsAreNotAnnounced == origin.version = 0 /\ origin.row # "none" => ~told

\* Once a state is stored no start goes back behind it: not to an older sidecar, not to a
\* new installation, and not to what another process had loaded (engine.rs 68-82,
\* SECURITY.md 70-74).
CheckpointSurvives ==
    [][file.state # None => file'.state # None /\ file'.state >= file.state]_startupVars

=============================================================================
