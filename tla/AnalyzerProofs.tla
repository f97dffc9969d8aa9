--------------------------- MODULE AnalyzerProofs ---------------------------
(***************************************************************************)
(* Theorems about Analyzer, for every tree, every manifest and every value *)
(* of the limits.                                                          *)
(***************************************************************************)
EXTENDS Analyzer, TLAPS, FiniteSetTheorems, SequenceTheorems

Levelled == [left: SUBSET Nodes]
Places == {"enter", "check", "take", "read", "match", "inventory", "ended"}

\* The worker has its fields and no others; what the parser has left to read may be anything.
Worker(pc, stack, f, chunk, work, seen) ==
    [pc |-> pc, stack |-> stack, file |-> f, chunk |-> chunk, work |-> work, seen |-> seen]
Shaped == worker = Worker(worker.pc, worker.stack, worker.file, worker.chunk, worker.work, worker.seen)

\* Where the walk is: on a stack of directories, with a file in hand only while it reads one.
OnTheWalk ==
    /\ Shaped /\ worker.pc \in Places
    /\ worker.stack \in Seq(Levelled) /\ Len(worker.stack) <= MAX_DEPTH + 1
    /\ worker.stack = <<>> <=> worker.pc = "ended"
    /\ worker.work # <<>> => worker.pc = "inventory"
    /\ worker.pc \in {"read", "match", "inventory"} => worker.file \in Kinds("file")
    /\ worker.pc = "match" => worker.chunk \in Nat \ {0}

\* The budgets, which are looked at before an entry is taken and again before it is read.
WithinBudget ==
    /\ visited \in 0..MAX_ENTRIES /\ files \in 0..MAX_FILES
    /\ bytes \in 0..(MAX_TOTAL_BYTES + 1) /\ read = bytes
    /\ worker.pc \in {"take", "read"} => files < MAX_FILES /\ bytes <= MAX_TOTAL_BYTES
    /\ worker.pc = "take" => visited < MAX_ENTRIES

\* After the flag is set the worker may take the entry it had checked for, and no more.
Obeys == late \in 0..1 /\ (late = 1 => cancelled /\ worker.pc # "take")

Reported ==
    /\ IsFiniteSet(findings) /\ Cardinality(findings) <= MAX_FINDINGS
    /\ IsFiniteSet(deps) /\ deps \subseteq Valid /\ Cardinality(deps) <= MAX_DEPENDENCIES
    /\ todo \subseteq deps /\ Cardinality(todo) <= MAX_OSV_QUERIES

Asked ==
    /\ root \in Roots /\ osv \in BOOLEAN /\ cancelled \in BOOLEAN
    /\ task \in {"scan", "osv", "done", "error", "dropped"}
    /\ deadline \in 0..End /\ time \in 0..End /\ errors \in 0..MaxErrors

IInv == OnTheWalk /\ WithinBudget /\ Obeys /\ Reported /\ Asked

LEMMA InvariantIsEnough == IInv => WorkIsBounded
<1>1. ASSUME NEW n \in Nat, NEW b \in 0..(n + 1) PROVE b \in Nat /\ b <= n + 1
  OBVIOUS
<1>2. \A l \in 0..1 : l \in Nat /\ l <= 1
  OBVIOUS
<1>3. MAX_TOTAL_BYTES \in Nat
  BY AnalyzerAssumption
<1> QED
  BY <1>1, <1>2, <1>3 DEF IInv, OnTheWalk, WithinBudget, Obeys, Reported, Asked, WorkIsBounded, TypeOK,
      Places

(***************************************************************************)
(* The worker.                                                             *)
(***************************************************************************)

\* Numbers of the model.
LEMMA LimitsAreNumbers ==
    /\ MAX_FILES \in Nat \ {0} /\ MAX_ENTRIES \in Nat \ {0} /\ MAX_FILE_BYTES \in Nat \ {0}
    /\ MAX_TOTAL_BYTES \in Nat \ {0} /\ MAX_DEPENDENCIES \in Nat \ {0} /\ MAX_FINDINGS \in Nat \ {0}
    /\ MAX_OSV_QUERIES \in Nat \ {0} /\ LOCAL_TIMEOUT \in Nat \ {0} /\ OSV_TIMEOUT \in Nat \ {0}
    /\ MAX_DEPTH \in Nat /\ MaxErrors \in Nat /\ End \in Nat
BY AnalyzerAssumption DEF End

\* The least of two numbers.
LEMMA MinOfTwo ==
    ASSUME NEW a \in Nat, NEW b \in Nat
    PROVE  Min({a, b}) \in Nat /\ Min({a, b}) <= a /\ Min({a, b}) <= b
<1>1. \E x \in {a, b} : \A y \in {a, b} : x <= y
  <2>1. a <= b \/ b <= a
    OBVIOUS
  <2> QED
    BY <2>1
<1>2. Min({a, b}) \in {a, b} /\ \A y \in {a, b} : Min({a, b}) <= y
  BY <1>1 DEF Min
<1> QED
  BY <1>2

\* The fields of a worker, one by one.
LEMMA WorkerHas ==
    ASSUME NEW pc, NEW stack, NEW f, NEW chunk, NEW work, NEW seen,
           worker' = Worker(pc, stack, f, chunk, work, seen)
    PROVE  /\ worker'.pc = pc /\ worker'.stack = stack /\ worker'.file = f
           /\ worker'.chunk = chunk /\ worker'.work = work /\ worker'.seen = seen
           /\ Shaped'
<1>1. /\ worker'.pc = pc /\ worker'.stack = stack /\ worker'.file = f
      /\ worker'.chunk = chunk /\ worker'.work = work /\ worker'.seen = seen
  BY DEF Worker
<1> QED
  BY <1>1 DEF Shaped

\* The worker goes to another place and keeps all it has.
LEMMA GoesTo ==
    ASSUME Shaped, NEW pc, Goes(pc)
    PROVE  /\ worker'.pc = pc /\ worker'.stack = worker.stack /\ worker'.file = worker.file
           /\ worker'.chunk = worker.chunk /\ worker'.work = worker.work /\ Shaped'
<1>1. worker' = Worker(pc, worker.stack, worker.file, worker.chunk, worker.work, worker.seen)
  BY DEF Goes, Shaped, Worker
<1> QED
  BY <1>1, WorkerHas

\* It goes on in the directory it is in.
LEMMA GoesOnTheWalk ==
    ASSUME OnTheWalk, NEW pc \in {"check", "take"}, Goes(pc),
           worker.pc # "ended", worker.work = <<>>
    PROVE  OnTheWalk' /\ worker'.pc = pc
<1>1. /\ worker'.pc = pc /\ worker'.stack = worker.stack /\ worker'.file = worker.file
      /\ worker'.chunk = worker.chunk /\ worker'.work = worker.work /\ Shaped'
  BY GoesTo DEF OnTheWalk
<1> QED
  BY <1>1 DEF OnTheWalk, Places

\* The stack while the walk goes on, and when it leaves the innermost directory.
LEMMA StackIsThere ==
    ASSUME OnTheWalk, worker.pc # "ended"
    PROVE  /\ Len(worker.stack) \in Nat \ {0} /\ Depth \in 0..MAX_DEPTH /\ Top \in Levelled
           /\ SubSeq(worker.stack, 1, Depth) \in Seq(Levelled)
           /\ Len(SubSeq(worker.stack, 1, Depth)) = Depth
<1>1. worker.stack \in Seq(Levelled) /\ worker.stack # <<>> /\ Len(worker.stack) <= MAX_DEPTH + 1
  BY DEF OnTheWalk
<1>2. Len(worker.stack) \in Nat \ {0}
  BY <1>1, EmptySeq, LenProperties
<1>3. Depth \in 0..MAX_DEPTH
  BY <1>1, <1>2, LimitsAreNumbers DEF Depth
<1>4. Top \in Levelled
  BY <1>1, <1>2, ElementOfSeq DEF Top
<1>5. SubSeq(worker.stack, 1, Depth) \in Seq(Levelled) /\ Len(SubSeq(worker.stack, 1, Depth)) = Depth
  <2>1. 1 \in 1..(Len(worker.stack) + 1) /\ Depth \in 0..Len(worker.stack)
    BY <1>2 DEF Depth
  <2>2. \A i \in 1..Depth : i \in 1..Len(worker.stack)
    BY <1>2, <1>3 DEF Depth
  <2> QED
    BY <1>1, <1>2, <1>3, <2>1, <2>2 DEF Depth
<1> QED
  BY <1>2, <1>3, <1>4, <1>5

LEMMA ReturnsOnTheWalk ==
    ASSUME OnTheWalk, NEW g, Return(g), worker.pc # "ended", worker.work = <<>>
    PROVE  OnTheWalk' /\ worker'.pc \in {"check", "ended"}
<1> DEFINE up == SubSeq(worker.stack, 1, Depth)
           pc == IF up = <<>> THEN "ended" ELSE "check"
<1>1. worker' = Worker(pc, up, worker.file, worker.chunk, worker.work, worker.seen)
  BY DEF Return, OnTheWalk, Shaped, Worker
<1>2. up \in Seq(Levelled) /\ Len(up) <= MAX_DEPTH + 1
  BY StackIsThere, LimitsAreNumbers
<1> HIDE DEF up
<1>3. pc \in {"check", "ended"} /\ (up = <<>> <=> pc = "ended")
  OBVIOUS
<1> HIDE DEF pc
<1>4. /\ worker'.pc = pc /\ worker'.stack = up /\ worker'.work = <<>> /\ Shaped'
  BY <1>1, WorkerHas
<1> QED
  BY <1>2, <1>3, <1>4 DEF OnTheWalk, Places

\* The innermost directory after an entry was taken from it.
LEMMA TakenFrom ==
    ASSUME OnTheWalk, worker.pc = "take", NEW n \in Top.left
    PROVE  LET w == [worker EXCEPT !.stack[Depth + 1].left = @ \ {n}]
           IN \E stack \in Seq(Levelled) :
                 /\ stack # <<>> /\ Len(stack) <= MAX_DEPTH + 1 /\ Len(stack) = Depth + 1
                 /\ w = Worker("take", stack, worker.file, worker.chunk, <<>>, worker.seen)
<1> DEFINE last == Len(worker.stack)
           level == [worker.stack[last] EXCEPT !.left = @ \ {n}]
           stack == [worker.stack EXCEPT ![last] = level]
<1>1. worker.stack \in Seq(Levelled) /\ last \in Nat \ {0} /\ last <= MAX_DEPTH + 1
  BY StackIsThere DEF OnTheWalk
<1>2. Depth + 1 = last
  BY <1>1 DEF Depth
<1>3. level \in Levelled
  BY <1>1, StackIsThere DEF Top, Levelled
<1>4. stack \in Seq(Levelled) /\ Len(stack) = last
  BY <1>1, <1>3, ExceptSeq
<1>5. stack # <<>>
  BY <1>1, <1>4, EmptySeq
<1>6. worker = Worker("take", worker.stack, worker.file, worker.chunk, <<>>, worker.seen)
  BY DEF OnTheWalk, Shaped
<1>7. [worker EXCEPT !.stack[last].left = @ \ {n}]
         = Worker("take", stack, worker.file, worker.chunk, <<>>, worker.seen)
  <2>1. \A x : [worker EXCEPT !.stack = x]
                  = Worker("take", x, worker.file, worker.chunk, <<>>, worker.seen)
    BY <1>6 DEF Worker
  <2>2. [worker EXCEPT !.stack[last].left = @ \ {n}] = [worker EXCEPT !.stack = stack]
    OBVIOUS
  <2> QED
    BY <2>1, <2>2, Zenon
<1> HIDE DEF stack
<1>8. [worker EXCEPT !.stack[Depth + 1].left = @ \ {n}]
         = Worker("take", stack, worker.file, worker.chunk, <<>>, worker.seen)
  BY <1>2, <1>7
<1>9. Len(stack) <= MAX_DEPTH + 1 /\ Len(stack) = Depth + 1
  BY <1>1, <1>2, <1>4
<1> QED
  BY <1>4, <1>5, <1>8, <1>9, Zenon

\* What a directory still has are nodes of the tree.
LEMMA EntriesAreNodes ==
    ASSUME OnTheWalk, worker.pc = "take", NEW n \in Top.left
    PROVE  /\ n \in Nodes
           /\ Tree[n].kind = "dir" => [left |-> Tree[n].entries] \in Levelled
           /\ Tree[n].kind = "file" => n \in Kinds("file")
<1>1. n \in Nodes
  BY StackIsThere DEF Levelled
<1>2. Tree[n].kind = "dir" => Tree[n].entries \subseteq Nodes
  BY <1>1, AnalyzerAssumption DEF Kinds
<1> QED
  BY <1>1, <1>2 DEF Levelled, Kinds

\* An entry leads into a directory, to the reading of a file, or back.
LEMMA EntryOnTheWalk ==
    ASSUME OnTheWalk, worker.pc = "take", NEW n \in Top.left, NEW w, Entry(n, w),
           NEW stack \in Seq(Levelled), stack # <<>>, Len(stack) <= MAX_DEPTH + 1, Len(stack) = Depth + 1,
           w = Worker("take", stack, worker.file, worker.chunk, <<>>, worker.seen)
    PROVE  OnTheWalk' /\ worker'.pc \in {"enter", "check", "read"}
<1>1. CASE Tree[n].kind = "dir" /\ Depth < MAX_DEPTH
  <2> DEFINE deeper == Append(stack, [left |-> Tree[n].entries])
  <2>1. worker' = Worker("enter", deeper, worker.file, worker.chunk, <<>>, worker.seen)
    <3>1. worker' = [w EXCEPT !.pc = "enter", !.stack = Append(@, [left |-> Tree[n].entries])]
      <4>1. Tree[n].kind # "file" /\ ~(Depth >= MAX_DEPTH)
        BY <1>1, StackIsThere, LimitsAreNumbers
      <4> QED
        BY <1>1, <4>1 DEF Entry
    <3>2. w.stack = stack
      BY DEF Worker
    <3> QED
      BY <3>1, <3>2 DEF Worker
  <2>2. deeper \in Seq(Levelled) /\ Len(deeper) = Len(stack) + 1
    BY <1>1, EntriesAreNodes, AppendProperties
  <2>3. Len(deeper) <= MAX_DEPTH + 1 /\ deeper # <<>>
    <3>1. Depth \in Nat /\ Depth < MAX_DEPTH
      BY <1>1, StackIsThere
    <3>2. Len(deeper) = Depth + 2
      BY <2>2, <3>1
    <3> QED
      BY <2>2, <3>1, <3>2, LimitsAreNumbers, EmptySeq
  <2> HIDE DEF deeper
  <2>4. /\ worker'.pc = "enter" /\ worker'.stack = deeper /\ worker'.work = <<>> /\ Shaped'
    BY <2>1, WorkerHas
  <2> QED
    BY <2>2, <2>3, <2>4 DEF OnTheWalk, Places
<1>2. CASE Tree[n].kind = "file" /\ ~(Tree[n].length > MAX_FILE_BYTES \/ Tree[n].length > MAX_TOTAL_BYTES - bytes)
  <2>1. worker' = Worker("read", stack, n, worker.chunk, <<>>, worker.seen)
    BY <1>2 DEF Entry, Worker
  <2>2. /\ worker'.pc = "read" /\ worker'.stack = stack /\ worker'.file = n /\ worker'.work = <<>> /\ Shaped'
    BY <2>1, WorkerHas
  <2> QED
    BY <1>2, <2>2, EntriesAreNodes DEF OnTheWalk, Places
<1>3. CASE worker' = [w EXCEPT !.pc = "check"]
  <2>1. worker' = Worker("check", stack, worker.file, worker.chunk, <<>>, worker.seen)
    BY <1>3 DEF Worker
  <2>2. /\ worker'.pc = "check" /\ worker'.stack = stack /\ worker'.work = <<>> /\ Shaped'
    BY <2>1, WorkerHas
  <2> QED
    BY <2>2 DEF OnTheWalk, Places
<1> QED
  BY <1>1, <1>2, <1>3 DEF Entry

\* Why a walk goes on.
LEMMA NotStopped ==
    ASSUME WithinBudget, Stopped = {}
    PROVE  ~cancelled /\ visited < MAX_ENTRIES /\ files < MAX_FILES /\ bytes < MAX_TOTAL_BYTES
<1>1. ~cancelled /\ ~(visited >= MAX_ENTRIES) /\ ~(files >= MAX_FILES) /\ ~(bytes >= MAX_TOTAL_BYTES)
  BY DEF Stopped, OutOfTime
<1>2. visited \in Nat /\ files \in Nat /\ bytes \in Nat
  BY LimitsAreNumbers DEF WithinBudget
<1> QED
  BY <1>1, <1>2, LimitsAreNumbers

\* A flag that is set is never heard by a walk that has yet to look at it.
LEMMA SetFlagStops ==
    ASSUME cancelled
    PROVE  Stopped # {}
BY DEF Stopped, OutOfTime

LEMMA WalkingHoldsNoManifest ==
    ASSUME OnTheWalk, worker.pc # "inventory"
    PROVE  worker.work = <<>>
BY DEF OnTheWalk

LEMMA EnterKeepsInvariant == IInv /\ Enter => IInv'
<1> SUFFICES ASSUME IInv, Enter PROVE IInv'
  OBVIOUS
<1>1. OnTheWalk /\ worker.pc = "enter" /\ worker.work = <<>>
  BY WalkingHoldsNoManifest DEF IInv, Enter
<1>2. OnTheWalk' /\ worker'.pc \in {"check", "ended"} /\ errors' \in 0..MaxErrors
  <2>1. CASE Return(Stopped) /\ UNCHANGED errors
    BY <1>1, <2>1, ReturnsOnTheWalk DEF IInv, Asked
  <2>2. CASE Goes("check") /\ UNCHANGED <<gaps, errors>>
    BY <1>1, <2>2, GoesOnTheWalk DEF IInv, Asked
  <2>3. CASE Return({"directory"}) /\ Fails
    BY <1>1, <2>3, ReturnsOnTheWalk, LimitsAreNumbers DEF IInv, Asked, Fails
  <2> QED
    BY <2>1, <2>2, <2>3 DEF Enter
<1>3. UNCHANGED <<request, budgets, findings, deps, cancelled, task, todo, deadline, time, history>>
  BY DEF Enter
<1> QED
  BY <1>1, <1>2, <1>3 DEF IInv, WithinBudget, Obeys, Reported, Asked, request, budgets, history

LEMMA CheckKeepsInvariant == IInv /\ Check => IInv'
<1> SUFFICES ASSUME IInv, Check PROVE IInv'
  OBVIOUS
<1>1. OnTheWalk /\ worker.pc = "check" /\ worker.work = <<>>
  BY WalkingHoldsNoManifest DEF IInv, Check
<1>2. UNCHANGED <<request, budgets, findings, deps, cancelled, task, todo, deadline, time, history, errors>>
  BY DEF Check
<1>3. CASE Stopped # {} /\ Return(Stopped)
  <2>1. OnTheWalk' /\ worker'.pc \in {"check", "ended"}
    BY <1>1, <1>3, ReturnsOnTheWalk
  <2> QED
    BY <1>1, <1>2, <2>1 DEF IInv, WithinBudget, Obeys, Reported, Asked, request, budgets, history
<1>4. CASE Stopped = {} /\ Goes("take")
  <2>1. OnTheWalk' /\ worker'.pc = "take"
    BY <1>1, <1>4, GoesOnTheWalk
  <2>2. ~cancelled /\ visited < MAX_ENTRIES /\ files < MAX_FILES /\ bytes < MAX_TOTAL_BYTES
    BY <1>4, NotStopped DEF IInv
  <2>3. WithinBudget'
    BY <1>2, <2>2, LimitsAreNumbers DEF IInv, WithinBudget, budgets, history
  <2> QED
    BY <1>2, <2>1, <2>2, <2>3 DEF IInv, Obeys, Reported, Asked, request, history
<1> QED
  BY <1>3, <1>4 DEF Check

LEMMA LastEntryKeepsInvariant == IInv /\ LastEntry => IInv'
<1> SUFFICES ASSUME IInv, LastEntry PROVE IInv'
  OBVIOUS
<1>1. OnTheWalk /\ worker.pc = "take" /\ worker.work = <<>>
  BY WalkingHoldsNoManifest DEF IInv, LastEntry
<1>2. OnTheWalk' /\ worker'.pc \in {"check", "ended"} /\ errors' \in 0..MaxErrors
  <2>1. CASE Return({}) /\ UNCHANGED errors
    BY <1>1, <2>1, ReturnsOnTheWalk DEF IInv, Asked
  <2>2. CASE Return({"enumeration"}) /\ Fails
    BY <1>1, <2>2, ReturnsOnTheWalk, LimitsAreNumbers DEF IInv, Asked, Fails
  <2> QED
    BY <2>1, <2>2 DEF LastEntry
<1>3. UNCHANGED <<request, budgets, findings, deps, cancelled, task, todo, deadline, time, history>>
  BY DEF LastEntry
<1> QED
  BY <1>1, <1>2, <1>3 DEF IInv, WithinBudget, Obeys, Reported, Asked, request, budgets, history

LEMMA TakeKeepsInvariant == IInv /\ Take => IInv'
<1> SUFFICES ASSUME IInv, Take PROVE IInv'
  OBVIOUS
<1>1. OnTheWalk /\ worker.pc = "take" /\ worker.work = <<>>
  BY WalkingHoldsNoManifest DEF IInv, Take
<1> DEFINE w(n) == [worker EXCEPT !.stack[Depth + 1].left = @ \ {n}]
<1>2. PICK n \in Top.left : \/ Entry(n, w(n)) /\ UNCHANGED errors
                            \/ worker' = [w(n) EXCEPT !.pc = "check"] /\ Gap({"link"}) /\ Fails
  BY Zenon DEF Take
<1>3. PICK stack \in Seq(Levelled) :
         /\ stack # <<>> /\ Len(stack) <= MAX_DEPTH + 1 /\ Len(stack) = Depth + 1
         /\ w(n) = Worker("take", stack, worker.file, worker.chunk, <<>>, worker.seen)
  BY <1>1, <1>2, TakenFrom, Zenon
<1> HIDE DEF w
<1>4. OnTheWalk' /\ worker'.pc \in {"enter", "check", "read"} /\ errors' \in 0..MaxErrors
  <2>1. CASE Entry(n, w(n)) /\ UNCHANGED errors
    BY <1>1, <1>2, <1>3, <2>1, EntryOnTheWalk DEF IInv, Asked
  <2>2. CASE worker' = [w(n) EXCEPT !.pc = "check"] /\ Fails
    <3>1. worker' = Worker("check", stack, worker.file, worker.chunk, <<>>, worker.seen)
      BY <1>3, <2>2 DEF Worker
    <3>2. /\ worker'.pc = "check" /\ worker'.stack = stack /\ worker'.work = <<>> /\ Shaped'
      BY <3>1, WorkerHas
    <3>3. errors' \in 0..MaxErrors
      BY <2>2, LimitsAreNumbers DEF IInv, Asked, Fails
    <3> QED
      BY <1>3, <3>2, <3>3 DEF OnTheWalk, Places
  <2> QED
    BY <1>2, <2>1, <2>2
<1>5. /\ visited' = visited + 1 /\ late' = IF cancelled THEN late + 1 ELSE late
      /\ UNCHANGED <<request, bytes, files, findings, deps, cancelled, task, todo, deadline, time, read>>
  BY DEF Take
<1>6. WithinBudget'
  BY <1>1, <1>4, <1>5, LimitsAreNumbers DEF IInv, WithinBudget
<1>7. Obeys'
  <2>1. late \in 0..1 /\ late # 1
    BY <1>1 DEF IInv, Obeys
  <2>2. late = 0
    BY <2>1
  <2> QED
    BY <1>4, <1>5, <2>2 DEF Obeys
<1> QED
  BY <1>4, <1>5, <1>6, <1>7 DEF IInv, Reported, Asked, request

\* A file is read to the end of the budget and one byte on.
LEMMA GotIsBounded ==
    ASSUME IInv, worker.pc = "read"
    PROVE  LET got == Min({Tree[worker.file].actual, Budget + 1})
           IN got \in Nat /\ bytes + got <= MAX_TOTAL_BYTES + 1
<1>1. Tree[worker.file].actual \in Nat
  BY AnalyzerAssumption DEF IInv, OnTheWalk
<1>2. bytes \in Nat /\ bytes <= MAX_TOTAL_BYTES
  BY LimitsAreNumbers DEF IInv, WithinBudget
<1>3. MAX_TOTAL_BYTES - bytes \in Nat /\ MAX_FILE_BYTES \in Nat
  BY <1>2, LimitsAreNumbers
<1>4. Budget \in Nat /\ Budget <= MAX_TOTAL_BYTES - bytes
  BY <1>3, MinOfTwo DEF Budget
<1>5. Budget + 1 \in Nat
  BY <1>4
<1>6. Min({Tree[worker.file].actual, Budget + 1}) \in Nat
      /\ Min({Tree[worker.file].actual, Budget + 1}) <= Budget + 1
  BY <1>1, <1>5, MinOfTwo
<1>7. \A b, t, u, g \in Nat : u <= t - b /\ g <= u + 1 => b + g <= t + 1
  OBVIOUS
<1> QED
  BY <1>2, <1>4, <1>6, <1>7, LimitsAreNumbers

LEMMA ReadKeepsInvariant == IInv /\ Read => IInv'
<1> SUFFICES ASSUME IInv, Read PROVE IInv'
  OBVIOUS
<1> DEFINE got == Min({Tree[worker.file].actual, Budget + 1})
<1>1. OnTheWalk /\ worker.pc = "read" /\ worker.work = <<>>
  BY WalkingHoldsNoManifest DEF IInv, Read
<1>2. got \in Nat /\ bytes + got <= MAX_TOTAL_BYTES + 1
  BY <1>1, GotIsBounded
<1>3. bytes' = bytes + got /\ read' = read + got
  BY DEF Read, Counted
<1>4. UNCHANGED <<request, visited, findings, deps, cancelled, task, todo, deadline, time, late>>
  BY DEF Read
<1>5. /\ files' = files \/ files' = files + 1
      /\ errors' = errors \/ Fails
      /\ Goes("check") \/ worker' = [worker EXCEPT !.pc = "match", !.chunk = 1]
  BY DEF Read, Skip
<1>6. OnTheWalk' /\ worker'.pc \in {"check", "match"}
  <2>1. CASE Goes("check")
    BY <1>1, <2>1, GoesOnTheWalk
  <2>2. CASE worker' = [worker EXCEPT !.pc = "match", !.chunk = 1]
    <3>1. worker' = Worker("match", worker.stack, worker.file, 1, worker.work, worker.seen)
      BY <1>1, <2>2 DEF OnTheWalk, Shaped, Worker
    <3>2. /\ worker'.pc = "match" /\ worker'.stack = worker.stack /\ worker'.file = worker.file
          /\ worker'.chunk = 1 /\ worker'.work = worker.work /\ Shaped'
      BY <3>1, WorkerHas
    <3> QED
      BY <1>1, <3>2 DEF OnTheWalk, Places
  <2> QED
    BY <1>5, <2>1, <2>2
<1>7. WithinBudget'
  <2>1. files \in Nat /\ files < MAX_FILES /\ bytes \in Nat /\ read = bytes
    BY <1>1, LimitsAreNumbers DEF IInv, WithinBudget
  <2>2. files' \in 0..MAX_FILES
    BY <1>5, <2>1, LimitsAreNumbers
  <2>3. bytes' \in 0..(MAX_TOTAL_BYTES + 1) /\ read' = bytes'
    BY <1>2, <1>3, <2>1, LimitsAreNumbers
  <2> QED
    BY <1>4, <1>6, <2>2, <2>3 DEF IInv, WithinBudget
<1>8. errors' \in 0..MaxErrors
  BY <1>5, LimitsAreNumbers DEF IInv, Asked, Fails
<1> QED
  BY <1>4, <1>6, <1>7, <1>8 DEF IInv, Obeys, Reported, Asked, request

\* New findings are taken as long as there is room.
LEMMA FindKeepsRoom ==
    ASSUME IsFiniteSet(findings), Cardinality(findings) <= MAX_FINDINGS,
           NEW new, IsFiniteSet(new), NEW g, Find(new, g)
    PROVE  IsFiniteSet(findings') /\ Cardinality(findings') <= MAX_FINDINGS
<1>1. PICK some \in SUBSET new :
         /\ Cardinality(some) = Min({Cardinality(new), MAX_FINDINGS - Cardinality(findings)})
         /\ findings' = findings \cup some
  BY DEF Find
<1>2. IsFiniteSet(some)
  BY FS_Subset
<1>3. Cardinality(findings) \in Nat /\ Cardinality(new) \in Nat
  BY FS_CardinalityType
<1>4. MAX_FINDINGS - Cardinality(findings) \in Nat
  BY <1>3, LimitsAreNumbers
<1>5. Cardinality(some) <= MAX_FINDINGS - Cardinality(findings)
  BY <1>1, <1>3, <1>4, MinOfTwo
<1>6. IsFiniteSet(findings \cup some) /\ IsFiniteSet(findings \cap some)
      /\ Cardinality(findings \cup some)
            = Cardinality(findings) + Cardinality(some) - Cardinality(findings \cap some)
  BY <1>2, FS_Union, FS_Intersection
<1>7. Cardinality(some) \in Nat /\ Cardinality(findings \cap some) \in Nat
  BY <1>2, <1>6, FS_CardinalityType
<1>8. \A f, s, c, m \in Nat : s <= m - f => f + s - c <= m
  OBVIOUS
<1>9. Cardinality(findings \cup some) <= MAX_FINDINGS
  BY <1>3, <1>5, <1>6, <1>7, <1>8, LimitsAreNumbers
<1> QED
  BY <1>1, <1>6, <1>9

\* The matches of a chunk of lines.
LEMMA HitsAreFinite ==
    ASSUME NEW n \in Kinds("file"), NEW c \in 1..Len(Tree[n].hits)
    PROVE  IsFiniteSet({<<n, c, k>> : k \in 1..Tree[n].hits[c]})
<1>1. Tree[n].hits \in Seq(Nat)
  BY AnalyzerAssumption
<1>2. Tree[n].hits[c] \in Nat
  BY <1>1, ElementOfSeq
<1>3. IsFiniteSet(1..Tree[n].hits[c])
  BY <1>2, FS_Interval
<1> DEFINE ks == 1..Tree[n].hits[c]
           T == {<<n, c, k>> : k \in ks}
           h == [k \in ks |-> <<n, c, k>>]
<1> HIDE DEF ks
<1>4. h \in Surjection(ks, T)
  BY DEF Surjection
<1> HIDE DEF T, h
<1>5. IsFiniteSet(T)
  BY <1>3, <1>4, FS_Surjection DEF ks
<1> QED
  BY <1>5 DEF T, ks

LEMMA MatchKeepsInvariant == IInv /\ Match => IInv'
<1> SUFFICES ASSUME IInv, Match PROVE IInv'
  OBVIOUS
<1> DEFINE hits == Tree[worker.file].hits
<1>1. /\ OnTheWalk /\ worker.pc = "match" /\ worker.work = <<>>
      /\ worker.file \in Kinds("file") /\ worker.chunk \in Nat \ {0} /\ hits \in Seq(Nat)
  <2>1. OnTheWalk /\ worker.pc = "match" /\ worker.work = <<>>
    BY WalkingHoldsNoManifest DEF IInv, Match
  <2>2. worker.file \in Kinds("file") /\ worker.chunk \in Nat \ {0}
    BY <2>1 DEF OnTheWalk
  <2> QED
    BY <2>1, <2>2, AnalyzerAssumption
<1>2. UNCHANGED <<request, budgets, deps, cancelled, task, todo, deadline, time, history, errors>>
  BY DEF Match
<1>3. CASE /\ UNCHANGED findings
           /\ worker' = [worker EXCEPT !.pc = "inventory", !.seen = 0,
                  !.work = Levels(<<[left |-> Tree[worker.file].entries, depth |-> 0]>>)]
  <2> DEFINE work == Levels(<<[left |-> Tree[worker.file].entries, depth |-> 0]>>)
  <2> HIDE DEF work
  <2>1. worker' = Worker("inventory", worker.stack, worker.file, worker.chunk, work, 0)
    BY <1>1, <1>3 DEF OnTheWalk, Shaped, Worker, work
  <2>2. /\ worker'.pc = "inventory" /\ worker'.stack = worker.stack /\ worker'.file = worker.file
        /\ worker'.work = work /\ Shaped'
    BY <2>1, WorkerHas
  <2>3. OnTheWalk'
    BY <1>1, <2>2 DEF OnTheWalk, Places
  <2> QED
    BY <1>2, <1>3, <2>2, <2>3 DEF IInv, WithinBudget, Obeys, Reported, Asked, request, budgets, history
<1>4. CASE Skip("content") /\ UNCHANGED findings
  <2>1. OnTheWalk' /\ worker'.pc = "check"
    BY <1>1, <1>4, GoesOnTheWalk DEF Skip
  <2> QED
    BY <1>2, <1>4, <2>1 DEF IInv, WithinBudget, Obeys, Reported, Asked, request, budgets, history
<1>5. CASE /\ worker.chunk <= Len(hits)
           /\ worker' = [worker EXCEPT !.chunk = @ + 1]
           /\ Find({<<worker.file, worker.chunk, k>> : k \in 1..hits[worker.chunk]}, {"findings"})
  <2>1. worker' = Worker("match", worker.stack, worker.file, worker.chunk + 1, worker.work, worker.seen)
    BY <1>1, <1>5 DEF OnTheWalk, Shaped, Worker
  <2>2. /\ worker'.pc = "match" /\ worker'.stack = worker.stack /\ worker'.file = worker.file
        /\ worker'.chunk = worker.chunk + 1 /\ worker'.work = worker.work /\ Shaped'
    BY <2>1, WorkerHas
  <2>3. OnTheWalk'
    BY <1>1, <2>2 DEF OnTheWalk, Places
  <2>4. worker.chunk \in 1..Len(hits)
    BY <1>1, <1>5, LenProperties
  <2>5. IsFiniteSet({<<worker.file, worker.chunk, k>> : k \in 1..hits[worker.chunk]})
    BY <1>1, <2>4, HitsAreFinite
  <2>6. IsFiniteSet(findings') /\ Cardinality(findings') <= MAX_FINDINGS
    BY <1>5, <2>5, FindKeepsRoom DEF IInv, Reported
  <2> QED
    BY <1>2, <2>2, <2>3, <2>6 DEF IInv, WithinBudget, Obeys, Reported, Asked, request, budgets, history
<1> QED
  BY <1>3, <1>4, <1>5 DEF Match

\* A dependency that is declared is kept when it is valid and there is room.
LEMMA DeclaredFits ==
    ASSUME IsFiniteSet(deps), deps \subseteq Valid, Cardinality(deps) <= MAX_DEPENDENCIES, NEW d
    PROVE  LET kept == Declared(d)[1]
           IN /\ IsFiniteSet(kept) /\ kept \subseteq Valid /\ deps \subseteq kept
              /\ Cardinality(kept) <= MAX_DEPENDENCIES
<1>1. CASE Declared(d)[1] = deps
  BY <1>1
<1>2. CASE /\ Declared(d)[1] = deps \cup {d} /\ d \in Valid
           /\ ~(Cardinality(deps) >= MAX_DEPENDENCIES /\ d \notin deps)
  <2>1. IsFiniteSet(deps \cup {d})
        /\ Cardinality(deps \cup {d}) = IF d \in deps THEN Cardinality(deps) ELSE Cardinality(deps) + 1
    BY FS_AddElement
  <2>2. Cardinality(deps) \in Nat
    BY FS_CardinalityType
  <2>3. Cardinality(deps \cup {d}) <= MAX_DEPENDENCIES
    BY <1>2, <2>1, <2>2, LimitsAreNumbers
  <2> QED
    BY <1>2, <2>1, <2>3
<1> QED
  BY <1>1, <1>2 DEF Declared

LEMMA InventoryKeepsInvariant == IInv /\ Inventory => IInv'
<1> SUFFICES ASSUME IInv, Inventory PROVE IInv'
  OBVIOUS
<1>1. OnTheWalk /\ worker.pc = "inventory"
  BY DEF IInv, Inventory
<1>2. UNCHANGED <<request, budgets, findings, cancelled, task, todo, deadline, time, history, errors>>
  BY DEF Inventory
<1>3. OnTheWalk' /\ worker'.pc \in {"check", "inventory"}
  <2>1. CASE worker.work = <<>> /\ Goes("check")
    BY <1>1, <2>1, GoesOnTheWalk
  <2>2. ASSUME NEW work, NEW seen, worker' = [worker EXCEPT !.work = work, !.seen = seen]
        PROVE  OnTheWalk' /\ worker'.pc = "inventory"
    <3>1. worker' = Worker("inventory", worker.stack, worker.file, worker.chunk, work, seen)
      BY <1>1, <2>2 DEF OnTheWalk, Shaped, Worker
    <3>2. /\ worker'.pc = "inventory" /\ worker'.stack = worker.stack /\ worker'.file = worker.file
          /\ worker'.work = work /\ Shaped'
      BY <3>1, WorkerHas
    <3> QED
      BY <1>1, <3>2 DEF OnTheWalk, Places
  <2>3. CASE worker' = [worker EXCEPT !.work = <<>>]
    <3>1. worker' = Worker("inventory", worker.stack, worker.file, worker.chunk, <<>>, worker.seen)
      BY <1>1, <2>3 DEF OnTheWalk, Shaped, Worker
    <3>2. /\ worker'.pc = "inventory" /\ worker'.stack = worker.stack /\ worker'.file = worker.file
          /\ worker'.work = <<>> /\ Shaped'
      BY <3>1, WorkerHas
    <3> QED
      BY <1>1, <3>2 DEF OnTheWalk, Places
  <2>4. \/ worker.work = <<>> /\ Goes("check")
        \/ worker' = [worker EXCEPT !.work = <<>>]
        \/ \E work, seen : worker' = [worker EXCEPT !.work = work, !.seen = seen]
    BY Zenon DEF Inventory
  <2> QED
    BY <2>1, <2>2, <2>3, <2>4
<1>4. /\ IsFiniteSet(deps') /\ deps' \subseteq Valid /\ deps \subseteq deps'
      /\ Cardinality(deps') <= MAX_DEPENDENCIES
  <2>1. deps' = deps \/ \E d : deps' = Declared(d)[1]
    BY Zenon DEF Inventory
  <2> QED
    BY <2>1, DeclaredFits DEF IInv, Reported
<1> QED
  BY <1>2, <1>3, <1>4 DEF IInv, WithinBudget, Obeys, Reported, Asked, request, budgets, history

LEMMA ScanKeepsInvariant == IInv /\ Scan => IInv'
BY EnterKeepsInvariant, CheckKeepsInvariant, LastEntryKeepsInvariant, TakeKeepsInvariant,
   ReadKeepsInvariant, MatchKeepsInvariant, InventoryKeepsInvariant DEF Scan

(***************************************************************************)
(* analyze_directory, and time.                                            *)
(***************************************************************************)

\* The dependencies that are asked for are some of those that were found, as many as allowed.
LEMMA ReceiveKeepsInvariant == IInv /\ Receive => IInv'
<1> SUFFICES ASSUME IInv, Receive PROVE IInv'
  OBVIOUS
<1>1. UNCHANGED <<request, worker, budgets, findings, deps, time, history, errors>>
  BY DEF Receive
<1>2. worker.pc = "ended" /\ cancelled' = TRUE
  BY DEF Receive
<1>3. OnTheWalk' /\ WithinBudget' /\ Obeys'
  BY <1>1, <1>2 DEF IInv, OnTheWalk, Shaped, WithinBudget, Obeys, budgets, history
<1>4. CASE osv
  <2>1. task' = "osv" /\ deadline' = Min({time + OSV_TIMEOUT, End})
    BY <1>4 DEF Receive
  <2>2. PICK some \in SUBSET deps :
           Cardinality(some) = Min({Cardinality(deps), MAX_OSV_QUERIES}) /\ todo' = some
    BY <1>4 DEF Receive
  <2>3. deadline' \in 0..End
    <3>1. time + OSV_TIMEOUT \in Nat /\ End \in Nat
      BY LimitsAreNumbers DEF IInv, Asked
    <3>2. Min({time + OSV_TIMEOUT, End}) \in Nat /\ Min({time + OSV_TIMEOUT, End}) <= End
      BY <3>1, MinOfTwo
    <3> QED
      BY <2>1, <3>1, <3>2
  <2>4. Cardinality(todo') <= MAX_OSV_QUERIES
    <3>1. Cardinality(deps) \in Nat
      BY FS_CardinalityType DEF IInv, Reported
    <3> QED
      BY <2>2, <3>1, MinOfTwo, LimitsAreNumbers
  <2> QED
    BY <1>1, <1>2, <1>3, <2>1, <2>2, <2>3, <2>4 DEF IInv, Reported, Asked, request
<1>5. CASE ~osv
  BY <1>1, <1>2, <1>3, <1>5 DEF IInv, Reported, Asked, request, Receive
<1> QED
  BY <1>4, <1>5

LEMMA EndsKeepInvariant == IInv /\ (TimesOut \/ Drop \/ Finish) => IInv'
<1> SUFFICES ASSUME IInv, TimesOut \/ Drop \/ Finish PROVE IInv'
  OBVIOUS
<1>1. UNCHANGED <<request, worker, budgets, report, todo, deadline, time, errors, read>>
  BY DEF TimesOut, Drop, Finish, history
<1>2. /\ task' \in {"error", "dropped", "done"}
      /\ cancelled' \in BOOLEAN /\ (cancelled => cancelled') /\ late' = late
  BY DEF TimesOut, Drop, Finish, history, IInv, Asked
<1> QED
  BY <1>1, <1>2 DEF IInv, OnTheWalk, Shaped, WithinBudget, Obeys, Reported, Asked, request, budgets, report

\* A dependency is asked for once: it leaves the ones that are to be asked for.
LEMMA QueryKeepsInvariant == IInv /\ (Query \/ QueryLate) => IInv'
<1> SUFFICES ASSUME IInv, Query \/ QueryLate PROVE IInv'
  OBVIOUS
<1>1. UNCHANGED <<request, worker, budgets, deps, cancelled, task, deadline, time, history>>
  BY DEF Query, QueryLate
<1>2. errors' \in 0..MaxErrors
  <2>1. errors' = errors \/ Fails
    BY DEF Query, QueryLate
  <2> QED
    BY <2>1, LimitsAreNumbers DEF IInv, Asked, Fails
<1>3. IsFiniteSet(findings') /\ Cardinality(findings') <= MAX_FINDINGS
  <2>1. CASE findings' = findings
    BY <2>1 DEF IInv, Reported
  <2>2. ASSUME NEW d, Answered(d)
        PROVE  IsFiniteSet(findings') /\ Cardinality(findings') <= MAX_FINDINGS
    <3>1. IsFiniteSet({<<d>>} \cap {<<v>> : v \in Vulnerable})
      BY FS_Singleton, FS_Intersection
    <3> QED
      BY <2>2, <3>1, FindKeepsRoom DEF IInv, Reported, Answered
  <2> QED
    BY <2>1, <2>2 DEF Query, QueryLate
<1>4. todo' \subseteq todo
  BY DEF Query, QueryLate
<1>5. Cardinality(todo') <= MAX_OSV_QUERIES
  <2>1. IsFiniteSet(todo)
    BY FS_Subset DEF IInv, Reported
  <2>2. Cardinality(todo') <= Cardinality(todo) /\ Cardinality(todo) \in Nat /\ Cardinality(todo') \in Nat
    BY <1>4, <2>1, FS_Subset, FS_CardinalityType
  <2> QED
    BY <2>2, LimitsAreNumbers DEF IInv, Reported
<1> QED
  BY <1>1, <1>2, <1>3, <1>4, <1>5
     DEF IInv, OnTheWalk, Shaped, WithinBudget, Obeys, Reported, Asked, request, budgets, history

LEMMA TickKeepsInvariant == IInv /\ Tick => IInv'
<1> SUFFICES ASSUME IInv, Tick PROVE IInv'
  OBVIOUS
<1>1. UNCHANGED <<request, worker, budgets, report, cancelled, task, todo, deadline, history, errors>>
  BY DEF Tick
<1>2. time' \in 0..End
  BY LimitsAreNumbers DEF Tick, IInv, Asked
<1> QED
  BY <1>1, <1>2
     DEF IInv, OnTheWalk, Shaped, WithinBudget, Obeys, Reported, Asked, request, budgets, history, report

(***************************************************************************)
(* The theorem.                                                            *)
(***************************************************************************)

LEMMA InvariantHoldsFirst == Init => IInv
<1> SUFFICES ASSUME Init PROVE IInv
  OBVIOUS
<1> DEFINE level == [left |-> Tree[root].entries]
<1>1. worker = Worker("enter", <<level>>, root, 0, <<>>, 0)
  BY DEF Init, Worker
<1>2. level \in Levelled
  BY AnalyzerAssumption DEF Init, Levelled
<1> HIDE DEF level
<1>3. <<level>> \in Seq(Levelled) /\ Len(<<level>>) = 1 /\ <<level>> # <<>>
  BY <1>2
<1>4. /\ worker.pc = "enter" /\ worker.stack = <<level>> /\ worker.work = <<>> /\ Shaped
  BY <1>1 DEF Worker, Shaped
<1>5. OnTheWalk
  BY <1>3, <1>4, LimitsAreNumbers DEF OnTheWalk, Places
<1>6. WithinBudget /\ Obeys
  BY <1>4, LimitsAreNumbers DEF Init, WithinBudget, Obeys
<1>7. Reported
  <2>1. IsFiniteSet({}) /\ Cardinality({}) = 0
    BY FS_EmptySet
  <2> QED
    BY <2>1, LimitsAreNumbers DEF Init, Reported
<1>8. Asked
  <2>1. 0 \in 0..End /\ 0 \in 0..MaxErrors
    BY LimitsAreNumbers
  <2>2. deadline = 0 /\ time = 0 /\ errors = 0 /\ task = "scan" /\ cancelled = FALSE
    BY DEF Init
  <2>3. root \in Roots /\ osv \in BOOLEAN
    BY DEF Init
  <2> QED
    BY <2>1, <2>2, <2>3 DEF Asked
<1> QED
  BY <1>5, <1>6, <1>7, <1>8 DEF IInv

LEMMA NextKeepsInvariant == IInv /\ [Next]_vars => IInv'
<1>1. IInv /\ UNCHANGED vars => IInv'
  BY DEF vars, IInv, OnTheWalk, Shaped, WithinBudget, Obeys, Reported, Asked, request, budgets, history, report
<1> QED
  BY <1>1, ScanKeepsInvariant, ReceiveKeepsInvariant, EndsKeepInvariant, QueryKeepsInvariant,
     TickKeepsInvariant DEF Next, Async

\* The inductive invariant: where the walk is on its stack, that its budgets were looked at
\* before an entry was taken, and that a set flag leaves it one entry at most.
THEOREM AnalyzerInvariant == Spec => []IInv
BY InvariantHoldsFirst, NextKeepsInvariant, PTL DEF Spec

\* Whatever the tree holds, whatever its manifests say and whichever calls fail, a scan stays
\* within its budgets of entries, files, bytes, depth, dependencies and findings, reads one
\* byte more than its budget at most, and takes at most one entry after nobody waits for it.
THEOREM WorkIsAlwaysBounded == Spec => []WorkIsBounded
BY AnalyzerInvariant, InvariantIsEnough, PTL

=============================================================================
