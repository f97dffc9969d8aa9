------------------------------ MODULE Analyzer ------------------------------
(***************************************************************************)
(* The local analyzer of src/src/analysis.rs: analyze_directory runs       *)
(* scan_local on a blocking thread, waits for it with a time limit, and    *)
(* may then ask OSV about the dependencies.  The scan walks a directory    *)
(* depth first within budgets of entries, files, bytes, depth and time,    *)
(* and notes a coverage gap where it leaves something out.                 *)
(*                                                                         *)
(* A tree is a set of nodes.  A file has a length by its metadata and one  *)
(* when it is read, chunks of 256 lines with the number of lines that      *)
(* match a rule, and, by its name, the format and the packages of a        *)
(* manifest.  The gaps that every report starts with are left out.  Time   *)
(* moves in steps; a call to the file system may take any time, or never   *)
(* return.                                                                 *)
(***************************************************************************)
EXTENDS Integers, Sequences, SequencesExt, FiniteSets, FiniteSetsExt

CONSTANTS
    MAX_FILES, MAX_ENTRIES, MAX_DEPTH, MAX_FILE_BYTES, MAX_TOTAL_BYTES,
    MAX_DEPENDENCIES, MAX_FINDINGS, MAX_OSV_QUERIES,
    LOCAL_TIMEOUT, OSV_TIMEOUT,
    Tree,           \* the nodes: what each one is
    Packages,       \* the entries of manifests: what each one says
    Roots,          \* directories that are analyzed
    None,
    Valid,          \* dependencies with an identifier and version that may be sent
    Vulnerable,     \* dependencies OSV has an advisory for
    MaxErrors       \* bound: calls that fail

Nodes == DOMAIN Tree
Kinds(k) == {n \in Nodes : Tree[n].kind = k}
\* A manifest that has no list of packages the parser knows is "malformed"; one of a format
\* that is not parsed, such as Cargo.toml, is "unresolved".
Formats == {"none", "malformed", "unresolved", "cargo", "uv", "npm", "npm nested",
            "requirements", "pyproject", "CycloneDX", "SPDX"}
\* Where a package comes from: the public registry, something else (another registry, Git,
\* a path, a link, a version that contradicts the package URL), or it does not say.
Origins == {"public", "other", "absent"}

ASSUME AnalyzerAssumption ==
    /\ {MAX_FILES, MAX_ENTRIES, MAX_FILE_BYTES, MAX_TOTAL_BYTES, MAX_DEPENDENCIES,
        MAX_FINDINGS, MAX_OSV_QUERIES, LOCAL_TIMEOUT, OSV_TIMEOUT} \subseteq Nat \ {0}
    /\ MAX_DEPTH \in Nat /\ MaxErrors \in Nat
    /\ \A n \in Nodes : Tree[n].kind \in {"dir", "file", "excluded", "link", "other"}
    /\ \A n \in Kinds("dir") : Tree[n].entries \subseteq Nodes
    /\ \A n \in Kinds("file") : /\ Tree[n].length \in Nat /\ Tree[n].actual \in Nat
                                /\ Tree[n].hits \in Seq(Nat)
                                /\ Tree[n].format \in Formats
                                /\ Tree[n].entries \in Seq(DOMAIN Packages)
    /\ \A e \in DOMAIN Packages : /\ Packages[e].origin \in Origins
                                  /\ Packages[e].nested \in Seq(DOMAIN Packages)
    /\ None \notin Valid
    /\ Roots \subseteq Kinds("dir")
    /\ Vulnerable \subseteq Valid

VARIABLES
    root, osv,  \* what was asked: the directory, and whether OSV may be asked
    worker,     \* the blocking thread: where it is, the directories it is in, its file
    visited, bytes, files,
    findings, deps, gaps,   \* the report
    cancelled,  \* the flag the worker polls
    task,       \* analyze_directory
    todo, deadline,         \* the OSV requests to make, and when they end
    time,
    read, late, \* history: bytes read from files; entries visited after the flag was set
    errors

budgets == <<visited, bytes, files>>
report == <<findings, deps, gaps>>
request == <<root, osv>>
history == <<read, late>>
vars == <<request, worker, budgets, report, cancelled, task, todo, deadline, time, history, errors>>

End == LOCAL_TIMEOUT + 1 + OSV_TIMEOUT

TypeOK ==
    /\ root \in Roots /\ osv \in BOOLEAN
    /\ worker.pc \in {"enter", "check", "take", "read", "match", "inventory", "ended"}
    /\ Len(worker.stack) <= MAX_DEPTH + 1
    /\ worker.stack = <<>> <=> worker.pc = "ended"
    /\ worker.work # <<>> => worker.pc = "inventory"
    /\ visited \in 0..MAX_ENTRIES /\ files \in 0..MAX_FILES /\ bytes \in Nat
    /\ deps \subseteq Valid /\ Cardinality(deps) <= MAX_DEPENDENCIES
    /\ Cardinality(findings) <= MAX_FINDINGS
    /\ cancelled \in BOOLEAN
    /\ task \in {"scan", "osv", "done", "error", "dropped"}
    /\ todo \subseteq deps /\ Cardinality(todo) <= MAX_OSV_QUERIES
    /\ deadline \in 0..End /\ time \in 0..End
    /\ read \in Nat /\ late \in Nat /\ errors \in 0..MaxErrors

Init ==
    /\ root \in Roots /\ osv \in BOOLEAN
    /\ worker = [pc |-> "enter", stack |-> <<[left |-> Tree[root].entries]>>,
                 file |-> root, chunk |-> 0, work |-> <<>>, seen |-> 0]
    /\ visited = 0 /\ bytes = 0 /\ files = 0
    /\ findings = {} /\ deps = {} /\ gaps = {}
    /\ cancelled = FALSE /\ task = "scan" /\ todo = {} /\ deadline = 0 /\ time = 0
    /\ read = 0 /\ late = 0 /\ errors = 0

-----------------------------------------------------------------------------
\* stopped: the gap it records, or none.
OutOfTime == cancelled \/ time >= LOCAL_TIMEOUT
\* Mutant: only the time ends the walk, not the flag.
Stopped_Deaf == IF time >= LOCAL_TIMEOUT THEN {"time"}
                ELSE IF \/ visited >= MAX_ENTRIES \/ files >= MAX_FILES
                        \/ bytes >= MAX_TOTAL_BYTES THEN {"limit"} ELSE {}
Stopped == IF OutOfTime THEN {"time"}
           ELSE IF \/ visited >= MAX_ENTRIES \/ files >= MAX_FILES
                   \/ bytes >= MAX_TOTAL_BYTES THEN {"limit"} ELSE {}

Gap(g) == gaps' = gaps \cup g
Depth == Len(worker.stack) - 1
Top == worker.stack[Len(worker.stack)]

\* The walk of a directory returns: to the directory it is in, or from scan_local.
Return(g) ==
    LET up == SubSeq(worker.stack, 1, Depth)
        none == IF up = <<>> /\ deps = {} THEN {"no dependencies"} ELSE {}
    IN /\ worker' = [worker EXCEPT !.stack = up, !.pc = IF up = <<>> THEN "ended" ELSE "check"]
       /\ Gap(g \cup none)
Goes(pc) == worker' = [worker EXCEPT !.pc = pc]
Skip(g) == Goes("check") /\ Gap({g})
Fails == errors < MaxErrors /\ errors' = errors + 1

\* walk: the first check, and the start of the enumeration, which may fail.
Enter ==
    /\ worker.pc = "enter"
    /\ \/ Stopped # {} /\ Return(Stopped) /\ UNCHANGED errors
       \/ Stopped = {} /\ Goes("check") /\ UNCHANGED <<gaps, errors>>
       \/ Stopped = {} /\ Return({"directory"}) /\ Fails
    /\ UNCHANGED <<request, budgets, findings, deps, cancelled, task, todo, deadline, time, history>>

\* The check before each entry.
Check ==
    /\ worker.pc = "check"
    /\ IF Stopped # {} THEN Return(Stopped) ELSE Goes("take") /\ UNCHANGED gaps
    /\ UNCHANGED <<request, budgets, findings, deps, cancelled, task, todo, deadline, time, history, errors>>

\* The next entry, in the order of the file system, or the end of the directory.
LastEntry ==
    /\ worker.pc = "take"
    /\ \/ Top.left = {} /\ Return({}) /\ UNCHANGED errors
       \/ Return({"enumeration"}) /\ Fails
    /\ UNCHANGED <<request, budgets, findings, deps, cancelled, task, todo, deadline, time, history>>

\* What becomes of entry n, taken from its directory.
\* Mutant: a directory that is too deep is left out without a word.
Entry_Silent(n, w) ==
    CASE Tree[n].kind = "dir" /\ Depth < MAX_DEPTH ->
            /\ worker' = [w EXCEPT !.pc = "enter",
                                   !.stack = Append(@, [left |-> Tree[n].entries])]
            /\ UNCHANGED gaps
      [] Tree[n].kind = "dir" /\ Depth >= MAX_DEPTH -> worker' = [w EXCEPT !.pc = "check"] /\ UNCHANGED gaps
      [] Tree[n].kind = "file" ->
            IF Tree[n].length > MAX_FILE_BYTES \/ Tree[n].length > MAX_TOTAL_BYTES - bytes
            THEN worker' = [w EXCEPT !.pc = "check"] /\ Gap({"size"})
            ELSE worker' = [w EXCEPT !.pc = "read", !.file = n] /\ UNCHANGED gaps
      [] OTHER -> worker' = [w EXCEPT !.pc = "check"] /\ Gap({Tree[n].kind})
Entry(n, w) ==
    CASE Tree[n].kind = "dir" /\ Depth < MAX_DEPTH ->
            /\ worker' = [w EXCEPT !.pc = "enter",
                                   !.stack = Append(@, [left |-> Tree[n].entries])]
            /\ UNCHANGED gaps
      [] Tree[n].kind = "dir" /\ Depth >= MAX_DEPTH ->
            worker' = [w EXCEPT !.pc = "check"] /\ Gap({"depth"})
      [] Tree[n].kind = "file" ->
            IF Tree[n].length > MAX_FILE_BYTES \/ Tree[n].length > MAX_TOTAL_BYTES - bytes
            THEN worker' = [w EXCEPT !.pc = "check"] /\ Gap({"size"})
            ELSE worker' = [w EXCEPT !.pc = "read", !.file = n] /\ UNCHANGED gaps
      [] OTHER -> worker' = [w EXCEPT !.pc = "check"] /\ Gap({Tree[n].kind})

Take ==
    /\ worker.pc = "take"
    /\ \E n \in Top.left :
          LET w == [worker EXCEPT !.stack[Depth + 1].left = @ \ {n}]
          IN \/ Entry(n, w) /\ UNCHANGED errors
             \/ worker' = [w EXCEPT !.pc = "check"] /\ Gap({"link"}) /\ Fails
    /\ visited' = visited + 1
    /\ late' = IF cancelled THEN late + 1 ELSE late
    /\ UNCHANGED <<request, bytes, files, findings, deps, cancelled, task, todo, deadline, time, read>>

\* scan_file: one byte more than the budget is asked for, so that a file that has grown
\* shows.  What was read counts, whether it is used or not.
Budget == Min({MAX_FILE_BYTES, MAX_TOTAL_BYTES - bytes})
Counted(n) == n
Read ==
    LET got == Min({Tree[worker.file].actual, Budget + 1})
    IN /\ worker.pc = "read"
       /\ bytes' = bytes + Counted(got) /\ read' = read + got
       /\ \/ /\ got > Budget /\ Skip("growing") /\ UNCHANGED <<files, errors>>
          \/ /\ Skip("unreadable") /\ Fails /\ UNCHANGED files
          \/ /\ got <= Budget
             /\ files' = files + 1 /\ UNCHANGED errors
             /\ LET full == IF files' >= MAX_FILES \/ bytes' >= MAX_TOTAL_BYTES
                            THEN {"limit"} ELSE {}
                    seen == IF OutOfTime THEN {"time"} ELSE full
                IN IF time >= LOCAL_TIMEOUT THEN Goes("check") /\ Gap(seen)
                   ELSE IF ~Tree[worker.file].text THEN Goes("check") /\ Gap(seen \cup {"binary"})
                   ELSE /\ worker' = [worker EXCEPT !.pc = "match", !.chunk = 1]
                        /\ Gap(seen)
       /\ UNCHANGED <<request, visited, findings, deps, cancelled, task, todo, deadline, time, late>>

\* finding, for a set of new ones: the first that fit, and a gap for the rest.
Find(new, g) ==
    \E some \in SUBSET new :
       /\ Cardinality(some) = Min({Cardinality(new), MAX_FINDINGS - Cardinality(findings)})
       /\ findings' = findings \cup some
       /\ Gap(IF some # new THEN g ELSE {})

\* What a parser says of the document: uv_lock and pyproject never claim to be complete.
Reservations(format) ==
    CASE format \in {"malformed", "unresolved"} -> {format}
      [] format = "uv" -> {"markers"}
      [] format = "pyproject" -> {"dynamic"}
      [] OTHER -> {}

\* Lists of packages that are still to be read, those that nested ones hold among them.
Levels(work) == SelectSeq(work, LAMBDA level : level.left # <<>>)

\* The rules, on 256 lines between two looks at the clock.
Match ==
    LET hits == Tree[worker.file].hits
    IN /\ worker.pc = "match"
       /\ \/ /\ worker.chunk > Len(hits) /\ UNCHANGED findings
             /\ worker' = [worker EXCEPT !.pc = "inventory", !.seen = 0,
                   !.work = Levels(<<[left |-> Tree[worker.file].entries, depth |-> 0]>>)]
             /\ Gap(Reservations(Tree[worker.file].format))
          \/ /\ worker.chunk <= Len(hits) /\ OutOfTime
             /\ Skip("content") /\ UNCHANGED findings
          \/ /\ worker.chunk <= Len(hits) /\ ~OutOfTime
             /\ worker' = [worker EXCEPT !.chunk = @ + 1]
             /\ Find({<<worker.file, worker.chunk, k>> : k \in 1..hits[worker.chunk]}, {"findings"})
       /\ UNCHANGED <<request, budgets, deps, cancelled, task, todo, deadline, time, history, errors>>

\* dependency.
Declared(d) == IF d \notin Valid THEN <<deps, {"identifier"}>>
               ELSE IF Cardinality(deps) >= MAX_DEPENDENCIES /\ d \notin deps THEN <<deps, {"inventory"}>>
               ELSE <<deps \cup {d}, {}>>

\* The parsers: the dependencies that are declared for an entry, none or one, and the gaps.
\* cargo_lock and uv_lock want a public source, a name and a version.
LockPackage(e) == IF e.origin # "public" THEN <<{}, {"origin"}>>
                  ELSE IF e.id = None THEN <<{}, {"unnamed"}>> ELSE <<{e.id}, {}>>
\* npm_package believes an entry that does not say where it comes from, and says so.
NpmPackage(e) ==
    LET unsaid == IF e.origin = "absent" THEN {"provenance"} ELSE {}
    IN IF e.origin = "other" THEN <<{}, {"origin"}>>
       ELSE IF e.id = None THEN <<{}, unsaid \cup {"unnamed"}>> ELSE <<{e.id}, unsaid>>
\* requirements takes a pinned version, whatever the environment marker ("other") says.
Requirement(e) ==
    LET marker == IF e.origin = "other" THEN {"marker"} ELSE {}
    IN IF e.id = None THEN <<{}, marker \cup {"unpinned"}>> ELSE <<{e.id}, marker>>
\* sbom_purl wants an exact package URL and no other version beside it.
SbomPackage(e) == IF e.id = None THEN <<{}, {"identity"}>>
                  ELSE IF e.origin = "other" THEN <<{}, {"conflict"}>> ELSE <<{e.id}, {}>>
Parsed(format, e) ==
    CASE format \in {"cargo", "uv"} -> LockPackage(e)
      [] format \in {"npm", "npm nested"} -> NpmPackage(e)
      [] format \in {"requirements", "pyproject"} -> Requirement(e)
      [] format \in {"CycloneDX", "SPDX"} -> SbomPackage(e)

\* Nested packages, which are walked from a stack of levels within a depth and a number of
\* entries; a list that is not nested is cut at the same number, but for lock files.
Nested(format, level, e) ==
    IF format \notin {"npm nested", "CycloneDX"} \/ e.nested = <<>> THEN <<<<>>, {}>>
    ELSE IF level.depth < MAX_DEPTH THEN <<<<[left |-> e.nested, depth |-> level.depth + 1]>>, {}>>
    ELSE <<<<>>, {"nesting"}>>
Cut(format) == format \in {"npm nested", "CycloneDX", "SPDX"} /\ worker.seen >= MAX_ENTRIES

Inventory ==
    LET format == Tree[worker.file].format
        level == Head(worker.work)
        e == Packages[Head(level.left)]
        inner == Nested(format, level, e)
        rest == <<[level EXCEPT !.left = Tail(@)]>> \o inner[1] \o Tail(worker.work)
    IN /\ worker.pc = "inventory"
       /\ \/ worker.work = <<>> /\ Goes("check") /\ UNCHANGED <<deps, gaps>>
          \/ /\ worker.work # <<>> /\ Cut(format)
             /\ worker' = [worker EXCEPT !.work = <<>>] /\ Gap({"entries"}) /\ UNCHANGED deps
          \/ /\ worker.work # <<>> /\ ~Cut(format)
             /\ worker' = [worker EXCEPT !.work = Levels(rest), !.seen = @ + 1]
             /\ \E found \in {Parsed(format, e)} :
                   IF found[1] = {} THEN Gap(found[2] \cup inner[2]) /\ UNCHANGED deps
                   ELSE \E d \in found[1] : /\ deps' = Declared(d)[1]
                                            /\ Gap(found[2] \cup inner[2] \cup Declared(d)[2])
    /\ UNCHANGED <<request, budgets, findings, cancelled, task, todo, deadline, time, history, errors>>

-----------------------------------------------------------------------------
\* analyze_directory.  The report comes, and the dependencies to ask for are chosen.
Receive ==
    /\ task = "scan" /\ worker.pc = "ended"
    /\ cancelled' = TRUE
    /\ IF osv
       THEN /\ task' = "osv" /\ deadline' = Min({time + OSV_TIMEOUT, End})
            /\ \E some \in SUBSET deps :
                  /\ Cardinality(some) = Min({Cardinality(deps), MAX_OSV_QUERIES})
                  /\ todo' = some
                  /\ Gap(IF some # deps THEN {"queries"} ELSE {})
       ELSE task' = "done" /\ Gap({"offline"}) /\ UNCHANGED <<todo, deadline>>
    /\ UNCHANGED <<request, worker, budgets, findings, deps, time, history, errors>>

\* The worker is given two seconds more than it gives itself.
\* Mutant: it is told to stop, and its end is awaited.
TimesOut_Awaits ==
    /\ task = "scan" /\ worker.pc # "ended" /\ time > LOCAL_TIMEOUT
    /\ cancelled' = TRUE
    /\ UNCHANGED <<request, worker, budgets, report, task, todo, deadline, time, history, errors>>
TimesOut ==
    /\ task = "scan" /\ worker.pc # "ended" /\ time > LOCAL_TIMEOUT
    /\ task' = "error" /\ cancelled' = TRUE
    /\ UNCHANGED <<request, worker, budgets, report, todo, deadline, time, history, errors>>

\* The request is cancelled: the future is dropped, and its guard sets the flag.
Drop ==
    /\ task \in {"scan", "osv"}
    /\ task' = "dropped" /\ cancelled' = TRUE
    /\ UNCHANGED <<request, worker, budgets, report, todo, deadline, time, history, errors>>

\* apply_osv_response: one finding stands for the advisories of a dependency.
Answered(d) == Find({<<d>>} \cap {<<v>> : v \in Vulnerable}, {"findings"})

\* query_vulnerabilities: one request, its answer or its failure.
Query ==
    /\ task = "osv" /\ time < deadline
    /\ \E d \in todo :
          /\ todo' = todo \ {d}
          /\ \/ Answered(d) /\ UNCHANGED errors
             \/ Gap({"request"}) /\ Fails /\ UNCHANGED findings
    /\ UNCHANGED <<request, worker, budgets, deps, cancelled, task, deadline, time, history>>

\* The request that runs into the deadline fails, and no other is made.
QueryLate ==
    /\ task = "osv" /\ todo # {} /\ time >= deadline
    /\ todo' = {} /\ Gap({"OSV time"})
    /\ UNCHANGED <<request, worker, budgets, findings, deps, cancelled, task, deadline, time, history, errors>>

Finish ==
    /\ task = "osv" /\ todo = {}
    /\ task' = "done"
    /\ UNCHANGED <<request, worker, budgets, report, cancelled, todo, deadline, time, history, errors>>

Tick ==
    /\ time < End /\ task \in {"scan", "osv"}
    /\ time' = time + 1
    /\ UNCHANGED <<request, worker, budgets, report, cancelled, task, todo, deadline, history, errors>>

Scan == Enter \/ Check \/ LastEntry \/ Take \/ Read \/ Match \/ Inventory
Async == Receive \/ TimesOut \/ Query \/ QueryLate \/ Finish
Next == Scan \/ Async \/ Drop \/ Tick

Spec == Init /\ [][Next]_vars

\* Time passes and the task runs, requests to OSV among its steps.  Nothing is assumed of
\* the worker, whose calls may never return, or of anybody who might drop the task.
FairSpec == Spec /\ WF_vars(Async) /\ WF_vars(Tick)

-----------------------------------------------------------------------------
\* What is below a directory, to any depth.
Below[i \in Nat] ==
    [n \in Nodes |-> IF Tree[n].kind # "dir" THEN {n}
                     ELSE IF i = 0 THEN {}
                     ELSE UNION {Below[i - 1][m] : m \in Tree[n].entries}]
Content == {n \in Below[Cardinality(Nodes)][root] : Tree[n].kind = "file"}
LocalMatches ==
    UNION {{<<x[1], x[2], k>> : k \in 1..Tree[x[1]].hits[x[2]]} :
              x \in {y \in Content \X (1..3) : y[2] <= Len(Tree[y[1]].hits)}}

\* The packages an entry names, to any depth.
Named[i \in Nat] ==
    [e \in DOMAIN Packages |-> {Packages[e].id} \cup
        (IF i = 0 THEN {} ELSE UNION {Named[i - 1][f] : f \in ToSet(Packages[e].nested)})]
Ids(n) == UNION {Named[Cardinality(DOMAIN Packages)][e] : e \in ToSet(Tree[n].entries)}

\* A report without a gap leaves nothing out: every match in every file below the
\* directory, every dependency, and every advisory if OSV was asked, is in it, whatever
\* budget was used up, call failed, limit reached or entry not understood on the way
\* (analysis.rs 273-437, 462-489, 491-765, 1123-1208).
HonestReport ==
    task = "done" /\ gaps \subseteq {"offline", "no dependencies"} =>
       /\ LocalMatches \subseteq findings
       /\ deps = UNION {Ids(n) : n \in Content}
       /\ "offline" \notin gaps => \A d \in deps \cap Vulnerable : <<d>> \in findings

\* The worker's work is bounded: what it visits, stacks, keeps and finds by its limits; all
\* that it reads, used or not, by the total budget but for the byte that shows that a file
\* has grown (analysis.rs 359-371); and once nobody waits for it any more it visits at most
\* the entry it had begun (analysis.rs 151-161, 273-287).
WorkIsBounded ==
    /\ TypeOK
    /\ read <= MAX_TOTAL_BYTES + 1
    /\ late <= 1

\* Whoever asked for the analysis gets an answer: a thread that hangs in the file system is
\* left behind by the time limit, and the requests to OSV by theirs (analysis.rs 162-171,
\* 1147-1175).
CallerReturns == <>(task \in {"done", "error", "dropped"})

=============================================================================
