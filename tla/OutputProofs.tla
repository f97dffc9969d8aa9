---------------------------- MODULE OutputProofs ----------------------------
(***************************************************************************)
(* Theorems about Output, for any events, process ids and limits.          *)
(***************************************************************************)
EXTENDS Output, TLAPS, FiniteSetTheorems

(***************************************************************************)
(* The inductive invariant.                                                *)
(***************************************************************************)
\* A live writer has an event and an attempt of it.
WritersHold ==
    \A p \in Pids : Alive(p) => writer[p].event \in Events /\ writer[p].attempt \in Attempts

\* What a writer is about to publish is on disk, and what it reports as written is there.
WritersTell ==
    \A p \in Pids :
        /\ writer[p].pc = "link" => Mine(p) = "synced"
        /\ writer[p].pc \in {"remove_ok", "ok"} => file[writer[p].event] = "synced"

FilesAreWhole ==
    /\ \A e \in Events : file[e] \in {"none", "synced", "foreign"}
    /\ \A e \in Events : row[e].status = "delivered" => power > 0 \/ file[e] = "synced"

\* A writer that lost its process to a closed window will leave a trace when it ends, and
\* the end of its process has already been counted.
Detached == {p \in Pids \ {proc} : Alive(p)}
Leftovers == Temporaries \ Owned
LeftoversAreCounted ==
    /\ IsFiniteSet(Temporaries)
    /\ Cardinality(Leftovers) + Cardinality(Detached) <= errors + exits

\* Before the first retry a row's attempts only grow, so no temporary name has an attempt
\* the row has not come to, and a writer that has created nothing yet finds its name free.
NamesAreNew ==
    retries = 0 =>
        /\ \A t \in Temporaries : t[3] <= row[t[1]].attempts
        /\ \A p \in Pids : Alive(p) => writer[p].attempt <= row[writer[p].event].attempts
        /\ \A p \in Pids : writer[p].pc \in {"start", "verify", "create"} => Mine(p) = "none"

IInv ==
    /\ TypeOK /\ WritersHold /\ WritersTell /\ FilesAreWhole
    /\ LeftoversAreCounted /\ NamesAreNew

(***************************************************************************)
(* Counting.                                                               *)
(***************************************************************************)

\* A set that gains at most one element gains at most one in size.
LEMMA AtMostOneMore ==
    ASSUME NEW S, IsFiniteSet(S), NEW T, NEW x, T \subseteq S \cup {x}
    PROVE  /\ IsFiniteSet(T) /\ Cardinality(T) \in Nat /\ Cardinality(S) \in Nat
           /\ Cardinality(T) <= Cardinality(S) + 1
<1>1. IsFiniteSet(S \cup {x}) /\ Cardinality(S \cup {x}) \in {Cardinality(S), Cardinality(S) + 1}
  BY FS_AddElement
<1>2. IsFiniteSet(T) /\ Cardinality(T) <= Cardinality(S \cup {x})
  BY <1>1, FS_Subset
<1> QED
  BY <1>1, <1>2, FS_CardinalityType

LEMMA NotMore ==
    ASSUME NEW S, IsFiniteSet(S), NEW T, T \subseteq S
    PROVE  /\ IsFiniteSet(T) /\ Cardinality(T) \in Nat /\ Cardinality(S) \in Nat
           /\ Cardinality(T) <= Cardinality(S)
BY FS_Subset, FS_CardinalityType

\* A proper part is smaller by one at least.
LEMMA OneLess ==
    ASSUME NEW S, IsFiniteSet(S), NEW T, NEW x \in S, T \subseteq S \ {x}
    PROVE  /\ IsFiniteSet(T) /\ Cardinality(T) \in Nat /\ Cardinality(S) \in Nat
           /\ Cardinality(T) + 1 <= Cardinality(S)
<1>1. IsFiniteSet(S \ {x}) /\ Cardinality(S \ {x}) = Cardinality(S) - 1
  BY FS_RemoveElement
<1>2. IsFiniteSet(T) /\ Cardinality(T) <= Cardinality(S \ {x})
  BY <1>1, FS_Subset
<1> QED
  BY <1>1, <1>2, FS_CardinalityType

(***************************************************************************)
(* Temporary names.                                                        *)
(***************************************************************************)
Name(p) == <<writer[p].event, p, writer[p].attempt>>
OwnPlaces == {"write", "sync", "link", "remove_ok", "remove_error"}
Owns(t) == /\ writer[t[2]].pc \in OwnPlaces
           /\ writer[t[2]].event = t[1] /\ writer[t[2]].attempt = t[3]
Names == Events \X Pids \X Attempts

\* Only the writer of the process in its name owns a temporary file.
LEMMA LeftoverIff ==
    /\ \A t : t \in Temporaries <=> t \in Names /\ temp[t[1]][t[2]][t[3]] # "none"
    /\ \A t : t \in Leftovers <=> t \in Names /\ temp[t[1]][t[2]][t[3]] # "none" /\ ~Owns(t)
BY DEF Leftovers, Temporaries, Owned, Owns, OwnPlaces, Names

LEMMA LeftoverIffNext ==
    /\ \A t : t \in Temporaries' <=> t \in Names /\ temp'[t[1]][t[2]][t[3]] # "none"
    /\ \A t : t \in Leftovers' <=> t \in Names /\ temp'[t[1]][t[2]][t[3]] # "none" /\ ~Owns(t)'
BY DEF Leftovers, Temporaries, Owned, Owns, OwnPlaces, Names

\* A writer's update of its temporary file leaves every other name alone.
LEMMA SetMineFacts ==
    ASSUME TypeOK, WritersHold, NEW p \in Pids, Alive(p),
           NEW c \in {"none", "part", "written", "synced"}, SetMine(p, c)
    PROVE  /\ temp' \in [Events -> [Pids -> [Attempts -> {"none", "part", "written", "synced"}]]]
           /\ temp'[writer[p].event][p][writer[p].attempt] = c
           /\ \A e \in Events, q \in Pids, k \in Attempts :
                <<e, q, k>> # Name(p) => temp'[e][q][k] = temp[e][q][k]
BY DEF TypeOK, WritersHold, SetMine, Name

(***************************************************************************)
(* The steps of a writer.                                                  *)
(***************************************************************************)

\* What every step of a writer keeps: its row and its name, everyone else's, and the
\* count of what it leaves behind.
WriterStep(p) ==
    /\ Alive(p)
    /\ \E pc \in Places \ {"none"} : Go(p, pc)
    /\ UNCHANGED temp \/ \E c \in {"none", "part", "written", "synced"} : SetMine(p, c)
    /\ UNCHANGED <<row, proc, exits, power, retries>>
    /\ UNCHANGED errors \/ Fault
    /\ errors' = errors => (Name(p) \in Leftovers' => Name(p) \in Leftovers)
    /\ writer'[p].pc \in {"start", "verify", "create"} =>
            writer[p].pc \in {"start", "verify", "create"} /\ UNCHANGED temp

LEMMA GoFacts ==
    ASSUME TypeOK, NEW p \in Pids, NEW pc \in Places, Go(p, pc)
    PROVE  /\ writer' \in [Pids -> [event: Events \cup {None}, attempt: 0..MAX_ATTEMPTS, pc: Places]]
           /\ writer'[p].pc = pc
           /\ writer'[p].event = writer[p].event /\ writer'[p].attempt = writer[p].attempt
           /\ \A q \in Pids : q # p => writer'[q] = writer[q]
BY DEF TypeOK, Go

LEMMA WriterStepFacts ==
    ASSUME IInv, NEW p \in Pids, WriterStep(p)
    PROVE  /\ writer' \in [Pids -> [event: Events \cup {None}, attempt: 0..MAX_ATTEMPTS, pc: Places]]
           /\ temp' \in [Events -> [Pids -> [Attempts -> {"none", "part", "written", "synced"}]]]
           /\ errors \in Nat /\ errors' \in {errors, errors + 1} /\ errors' \in 0..MaxErrors
           /\ writer[p].event \in Events /\ writer[p].attempt \in Attempts
           /\ \A q \in Pids : Alive(q)' <=> Alive(q)
           /\ \A q \in Pids : q # p => writer'[q] = writer[q]
           /\ \A q \in Pids : /\ writer'[q].event = writer[q].event
                              /\ writer'[q].attempt = writer[q].attempt
           /\ \A e \in Events, q \in Pids, k \in Attempts :
                <<e, q, k>> # Name(p) => temp'[e][q][k] = temp[e][q][k]
<1>1. TypeOK /\ WritersHold /\ Alive(p)
  BY DEF IInv, WriterStep
<1>2. PICK pc \in Places \ {"none"} : Go(p, pc)
  BY DEF WriterStep
<1>3. /\ temp' \in [Events -> [Pids -> [Attempts -> {"none", "part", "written", "synced"}]]]
      /\ \A e \in Events, q \in Pids, k \in Attempts :
           <<e, q, k>> # Name(p) => temp'[e][q][k] = temp[e][q][k]
  <2>1. CASE UNCHANGED temp
    BY <1>1, <2>1 DEF TypeOK
  <2>2. CASE \E c \in {"none", "part", "written", "synced"} : SetMine(p, c)
    BY <1>1, <2>2, SetMineFacts
  <2> QED
    BY <2>1, <2>2 DEF WriterStep
<1>4. errors \in Nat /\ errors' \in {errors, errors + 1} /\ errors' \in 0..MaxErrors
  BY <1>1, OutputAssumption DEF TypeOK, WriterStep, Fault
<1>5. \A q \in Pids : /\ Alive(q)' <=> Alive(q)
                      /\ writer'[q].event = writer[q].event
                      /\ writer'[q].attempt = writer[q].attempt
  BY <1>1, <1>2, GoFacts DEF Alive
<1> QED
  BY <1>1, <1>2, <1>3, <1>4, <1>5, GoFacts DEF WritersHold

LEMMA WriterStepCounts ==
    ASSUME IInv, NEW p \in Pids, WriterStep(p)
    PROVE  LeftoversAreCounted'
<1>1. \A t \in Names : t # Name(p) =>
        /\ temp'[t[1]][t[2]][t[3]] = temp[t[1]][t[2]][t[3]]
        /\ Owns(t)' <=> Owns(t)
  <2> SUFFICES ASSUME NEW e \in Events, NEW q \in Pids, NEW k \in Attempts, <<e, q, k>> # Name(p)
               PROVE  /\ temp'[e][q][k] = temp[e][q][k]
                      /\ Owns(<<e, q, k>>)' <=> Owns(<<e, q, k>>)
    BY DEF Names
  <2>1. temp'[e][q][k] = temp[e][q][k]
    BY WriterStepFacts
  <2>2. CASE q # p
    BY <2>1, <2>2, WriterStepFacts DEF Owns
  <2>3. CASE q = p
    BY <2>1, <2>3, WriterStepFacts DEF Owns, Name
  <2> QED
    BY <2>1, <2>2, <2>3
<1>2. Temporaries' \subseteq Temporaries \cup {Name(p)} /\ Leftovers' \subseteq Leftovers \cup {Name(p)}
  BY <1>1, LeftoverIff, LeftoverIffNext
<1>3. IsFiniteSet(Temporaries) /\ IsFiniteSet(Leftovers)
  BY FS_Subset DEF IInv, LeftoversAreCounted, Leftovers
<1>4. IsFiniteSet(Temporaries')
  BY <1>2, <1>3, AtMostOneMore
<1>5. Detached' = Detached /\ exits' = exits
  BY WriterStepFacts DEF Detached, WriterStep
<1>6. Cardinality(Detached) \in Nat /\ exits \in Nat
  <2>1. IsFiniteSet(Detached)
    BY OutputAssumption, FS_Subset DEF Detached
  <2> QED
    BY <2>1, FS_CardinalityType, OutputAssumption DEF IInv, TypeOK
<1>7. CASE errors' = errors
  <2>1. Leftovers' \subseteq Leftovers
    BY <1>2, <1>7 DEF WriterStep
  <2>2. /\ Cardinality(Leftovers') \in Nat /\ Cardinality(Leftovers) \in Nat
        /\ Cardinality(Leftovers') <= Cardinality(Leftovers)
    BY <1>3, <2>1, NotMore
  <2> QED
    BY <1>4, <1>5, <1>6, <1>7, <2>2, WriterStepFacts DEF IInv, LeftoversAreCounted
<1>8. CASE errors' = errors + 1
  <2>1. /\ Cardinality(Leftovers') \in Nat /\ Cardinality(Leftovers) \in Nat
        /\ Cardinality(Leftovers') <= Cardinality(Leftovers) + 1
    BY <1>2, <1>3, AtMostOneMore
  <2> QED
    BY <1>4, <1>5, <1>6, <1>8, <2>1, WriterStepFacts DEF IInv, LeftoversAreCounted
<1> QED
  BY <1>7, <1>8, WriterStepFacts

LEMMA WriterStepKeeps ==
    ASSUME IInv, NEW p \in Pids, WriterStep(p),
           file' \in [Events -> {"none", "part", "written", "synced", "foreign"}]
    PROVE  TypeOK' /\ WritersHold' /\ LeftoversAreCounted' /\ NamesAreNew'
<1>1. TypeOK'
  <2>1. proc' = proc /\ row' = row /\ proc \in Pids
    BY DEF WriterStep, IInv, TypeOK
  <2>2. Alive(proc)' => LET w == writer'[proc]
                        IN w.event # None /\ row[w.event] = [status |-> "held", attempts |-> w.attempt]
    BY <2>1, WriterStepFacts DEF IInv, TypeOK
  <2> QED
    BY <2>1, <2>2, WriterStepFacts DEF IInv, TypeOK, WriterStep
<1>2. WritersHold'
  BY WriterStepFacts DEF IInv, WritersHold
<1>3. ASSUME retries' = 0
      PROVE  /\ \A t \in Temporaries' : t[3] <= row'[t[1]].attempts
             /\ \A q \in Pids : Alive(q)' => writer'[q].attempt <= row'[writer'[q].event].attempts
             /\ \A q \in Pids : writer'[q].pc \in {"start", "verify", "create"} => Mine(q)' = "none"
  <2>1. retries = 0 /\ row' = row /\ Alive(p)
    BY <1>3 DEF WriterStep
  <2>2. \A q \in Pids : Alive(q)' => writer'[q].attempt <= row'[writer'[q].event].attempts
    BY <2>1, WriterStepFacts DEF IInv, NamesAreNew
  <2>3. ASSUME NEW t \in Temporaries' PROVE t[3] <= row'[t[1]].attempts
    <3>0. PICK e \in Events, q \in Pids, k \in Attempts : t = <<e, q, k>>
      BY LeftoverIffNext DEF Names
    <3>1. CASE t = Name(p)
      BY <2>1, <3>1, WriterStepFacts DEF IInv, NamesAreNew, Name
    <3>2. CASE t # Name(p)
      <4>1. t \in Temporaries
        <5>1. t \in Names /\ temp'[e][q][k] # "none"
          BY <2>3, <3>0, LeftoverIffNext
        <5>2. temp'[e][q][k] = temp[e][q][k]
          BY <3>0, <3>2, WriterStepFacts
        <5> QED
          BY <3>0, <5>1, <5>2, LeftoverIff
      <4> QED
        BY <2>1, <4>1 DEF IInv, NamesAreNew
    <3> QED
      BY <3>1, <3>2
  <2>4. ASSUME NEW q \in Pids, writer'[q].pc \in {"start", "verify", "create"}
        PROVE  Mine(q)' = "none"
    <3>1. CASE q = p
      <4>1. writer[p].pc \in {"start", "verify", "create"} /\ temp' = temp
        BY <2>4, <3>1 DEF WriterStep
      <4> QED
        BY <2>1, <3>1, <4>1, WriterStepFacts DEF IInv, NamesAreNew, Mine
    <3>2. CASE q # p
      <4>1. writer'[q] = writer[q] /\ Mine(q) = "none" /\ Alive(q)
        BY <2>1, <2>4, <3>2, WriterStepFacts DEF IInv, NamesAreNew, Alive
      <4>2. writer[q].event \in Events /\ writer[q].attempt \in Attempts
        BY <4>1 DEF IInv, WritersHold
      <4>3. <<writer[q].event, q, writer[q].attempt>> # Name(p)
        BY <3>2 DEF Name
      <4> QED
        BY <4>1, <4>2, <4>3, WriterStepFacts DEF Mine
    <3> QED
      BY <3>1, <3>2
  <2> QED
    BY <2>2, <2>3, <2>4
<1>4. NamesAreNew'
  BY <1>3 DEF NamesAreNew
<1> QED
  BY <1>1, <1>2, <1>4, WriterStepCounts

\* A writer's own name is left over once it is done with it and the file is still there.
LEMMA MyLeftover ==
    ASSUME IInv, NEW p \in Pids, Alive(p), NEW pc \in Places, Go(p, pc)
    PROVE  /\ Name(p) \in Leftovers' =>
                pc \notin OwnPlaces /\ temp'[writer[p].event][p][writer[p].attempt] # "none"
           /\ writer[p].pc \notin OwnPlaces /\ Mine(p) # "none" => Name(p) \in Leftovers
<1>1. /\ writer'[p].pc = pc
      /\ writer'[p].event = writer[p].event /\ writer'[p].attempt = writer[p].attempt
  BY GoFacts DEF IInv
<1>2. Name(p) \in Names
  BY DEF IInv, WritersHold, Name, Names
<1> QED
  BY <1>1, <1>2, LeftoverIff, LeftoverIffNext DEF Name, Owns, Mine

\* What is left to show of a writer's step: that nothing published changes, and that the
\* writer itself may say what it says.
LEMMA TruthfulStep ==
    ASSUME IInv, NEW p \in Pids, WriterStep(p),
           file' \in [Events -> {"none", "part", "written", "synced", "foreign"}],
           \A e \in Events : file'[e] = file[e] \/ (file[e] = "none" /\ file'[e] = "synced"),
           writer'[p].pc = "link" => Mine(p)' = "synced",
           writer'[p].pc \in {"remove_ok", "ok"} => file'[writer[p].event] = "synced"
    PROVE  IInv'
<1>1. FilesAreWhole'
  BY DEF IInv, FilesAreWhole, WriterStep
<1>2. ASSUME NEW q \in Pids
      PROVE  /\ writer'[q].pc = "link" => Mine(q)' = "synced"
             /\ writer'[q].pc \in {"remove_ok", "ok"} => file'[writer'[q].event] = "synced"
  <2>1. CASE q = p
    BY <2>1, WriterStepFacts
  <2>2. CASE q # p
    <3>1. writer'[q] = writer[q]
      BY <2>2, WriterStepFacts
    <3>2. CASE Alive(q)
      <4>1. writer[q].event \in Events /\ writer[q].attempt \in Attempts
        BY <3>2 DEF IInv, WritersHold
      <4>2. <<writer[q].event, q, writer[q].attempt>> # Name(p)
        BY <2>2 DEF Name
      <4>3. Mine(q)' = Mine(q)
        BY <3>1, <4>1, <4>2, WriterStepFacts DEF Mine
      <4> QED
        BY <3>1, <4>1, <4>3 DEF IInv, WritersTell
    <3> QED
      BY <3>1, <3>2 DEF Alive
  <2> QED
    BY <2>1, <2>2
<1>3. WritersTell'
  BY <1>2 DEF WritersTell
<1> QED
  BY <1>1, <1>3, WriterStepKeeps DEF IInv

\* Looking at the path: nothing is written yet.
LEMMA LookingKeepsInvariant ==
    ASSUME IInv, NEW p \in Pids, Start(p) \/ Verify(p)
    PROVE  IInv'
<1>1. TypeOK /\ Alive(p) /\ writer[p].pc \in {"start", "verify"} /\ writer[p].event \in Events
  BY DEF IInv, WritersHold, Start, Verify, Alive
<1>2. PICK pc \in {"create", "verify", "ok", "error"} :
        /\ Go(p, pc)
        /\ pc \in {"create", "verify"} => Start(p)
        /\ pc = "ok" => Path(p) \in {"written", "synced"}
        /\ UNCHANGED disk /\ Rest /\ (Fault \/ NoFault)
  BY DEF Start, Verify, Unprepared
<1>3. pc \in Places /\ writer'[p].pc = pc
  BY <1>1, <1>2, GoFacts DEF Places
<1>4. temp' = temp /\ file' = file
  BY <1>2 DEF disk
<1>5. Name(p) \in Leftovers' => Name(p) \in Leftovers
  BY <1>1, <1>2, <1>3, <1>4, MyLeftover DEF OwnPlaces, Mine
<1>6. WriterStep(p)
  <2>1. pc \in Places \ {"none"}
    BY <1>2, <1>3
  <2> QED
    BY <1>1, <1>2, <1>3, <1>4, <1>5, <2>1 DEF WriterStep, Rest, Fault, NoFault
<1>7. pc = "ok" => file[writer[p].event] = "synced"
  BY <1>1, <1>2 DEF IInv, FilesAreWhole, Path
<1> QED
  BY <1>1, <1>2, <1>3, <1>4, <1>6, <1>7, TruthfulStep DEF TypeOK

\* Creating and filling the temporary file.
LEMMA FillingKeepsInvariant ==
    ASSUME IInv, NEW p \in Pids, Create(p) \/ Write(p) \/ Sync(p)
    PROVE  IInv'
<1>1. /\ TypeOK /\ WritersHold /\ Alive(p) /\ writer[p].pc \in {"create", "write", "sync"}
      /\ file' = file
  BY DEF IInv, Create, Write, Sync, Alive, disk
<1>2. PICK pc \in {"error", "write", "sync", "link", "remove_error"} :
        /\ Go(p, pc)
        /\ \/ UNCHANGED temp /\ pc \in {"error", "remove_error"}
           \/ \E c \in {"part", "written", "synced"} :
                SetMine(p, c) /\ pc \in OwnPlaces /\ (pc = "link" => c = "synced")
        /\ pc \notin OwnPlaces => UNCHANGED temp /\ writer[p].pc = "create"
        /\ Rest /\ (Fault \/ NoFault)
  BY DEF Create, Write, Sync, OwnPlaces, disk
<1>3. pc \in Places /\ writer'[p].pc = pc
  BY <1>1, <1>2, GoFacts DEF Places
<1>4. Name(p) \in Leftovers' => Name(p) \in Leftovers
  BY <1>1, <1>2, <1>3, MyLeftover DEF OwnPlaces, Mine
<1>5. WriterStep(p)
  <2>1. pc \in Places \ {"none"}
    BY <1>2, <1>3
  <2> QED
    BY <1>1, <1>2, <1>3, <1>4, <2>1 DEF WriterStep, Rest, Fault, NoFault
<1>6. pc = "link" => Mine(p)' = "synced"
  BY <1>1, <1>2, <1>3, <1>5, SetMineFacts, WriterStepFacts DEF Mine
<1> QED
  BY <1>1, <1>2, <1>3, <1>5, <1>6, TruthfulStep DEF TypeOK

\* Publishing: a link goes only to a free name, and only of a synced file.
LEMMA LinkKeepsInvariant ==
    ASSUME IInv, NEW p \in Pids, Link(p)
    PROVE  IInv'
<1>1. /\ TypeOK /\ Alive(p) /\ writer[p].pc = "link" /\ writer[p].event \in Events
      /\ Mine(p) = "synced" /\ temp' = temp
  BY DEF IInv, WritersHold, WritersTell, Link, Alive
<1>2. PICK pc \in {"remove_ok", "remove_error"} :
        /\ Go(p, pc)
        /\ \/ Path(p) = "none" /\ file' = [file EXCEPT ![writer[p].event] = "synced"]
           \/ file' = file /\ (pc = "remove_ok" => Path(p) \in {"written", "synced"})
        /\ Rest /\ (Fault \/ NoFault)
  BY <1>1 DEF Link
<1>3. pc \in Places /\ writer'[p].pc = pc
  BY <1>1, <1>2, GoFacts DEF Places
<1>4. WriterStep(p)
  <2>1. Name(p) \notin Leftovers'
    BY <1>1, <1>2, <1>3, MyLeftover DEF OwnPlaces
  <2>2. pc \in Places \ {"none"}
    BY <1>2, <1>3
  <2> QED
    BY <1>1, <1>2, <1>3, <2>1, <2>2 DEF WriterStep, Rest, Fault, NoFault
<1>5. /\ file' \in [Events -> {"none", "part", "written", "synced", "foreign"}]
      /\ \A e \in Events : file'[e] = file[e] \/ (file[e] = "none" /\ file'[e] = "synced")
      /\ pc = "remove_ok" => file'[writer[p].event] = "synced"
  BY <1>1, <1>2 DEF TypeOK, IInv, FilesAreWhole, Path
<1> QED
  BY <1>2, <1>3, <1>4, <1>5, TruthfulStep

\* Removing the temporary name: what cannot be removed has cost an error.
LEMMA RemoveKeepsInvariant ==
    ASSUME IInv, NEW p \in Pids, Remove(p)
    PROVE  IInv'
<1>1. /\ TypeOK /\ WritersHold /\ Alive(p) /\ writer[p].pc \in {"remove_ok", "remove_error"}
      /\ file' = file /\ writer[p].event \in Events
  BY DEF IInv, WritersHold, Remove, Alive
<1>2. PICK pc \in {"ok", "error"} :
        /\ Go(p, pc)
        /\ pc = "ok" => writer[p].pc = "remove_ok"
        /\ (SetMine(p, "none") /\ NoFault) \/ (UNCHANGED temp /\ Fault)
        /\ Rest
  BY DEF Remove
<1>3. pc \in Places /\ writer'[p].pc = pc
  BY <1>1, <1>2, GoFacts DEF Places
<1>4. WriterStep(p)
  <2>1. CASE SetMine(p, "none") /\ NoFault
    <3>1. Name(p) \notin Leftovers'
      BY <1>1, <1>2, <1>3, <2>1, MyLeftover, SetMineFacts
    <3>2. pc \in Places \ {"none"}
      BY <1>2, <1>3
    <3> QED
      BY <1>1, <1>2, <1>3, <2>1, <3>1, <3>2 DEF WriterStep, Rest, NoFault
  <2>2. CASE UNCHANGED temp /\ Fault
    <3>1. errors' # errors
      BY <1>1, <2>2, OutputAssumption DEF Fault, TypeOK
    <3>2. pc \in Places \ {"none"}
      BY <1>2, <1>3
    <3> QED
      BY <1>1, <1>2, <1>3, <2>2, <3>1, <3>2 DEF WriterStep, Rest
  <2> QED
    BY <1>2, <2>1, <2>2
<1>5. pc = "ok" => file[writer[p].event] = "synced"
  BY <1>2 DEF IInv, WritersTell
<1> QED
  BY <1>1, <1>2, <1>3, <1>4, <1>5, TruthfulStep DEF TypeOK

(***************************************************************************)
(* The dispatcher.                                                         *)
(***************************************************************************)

LEMMA InitInvariant == Init => IInv
<1> SUFFICES ASSUME Init PROVE IInv
  OBVIOUS
<1>1. TypeOK
  BY OutputAssumption DEF Init, TypeOK, Alive, NoWriter, Places
<1>2. \A p \in Pids : writer[p].pc = "none"
  BY DEF Init, NoWriter
<1>3. Temporaries = {} /\ Leftovers = {} /\ Detached = {}
  BY <1>2, LeftoverIff DEF Init, Names, Detached, Alive
<1>4. LeftoversAreCounted
  <2>1. errors = 0 /\ exits = 0
    BY DEF Init
  <2> QED
    BY <1>3, <2>1, FS_EmptySet DEF LeftoversAreCounted
<1> QED
  BY <1>1, <1>2, <1>3, <1>4
     DEF Init, IInv, WritersHold, WritersTell, FilesAreWhole, NamesAreNew, Alive

\* When no temporary file changes and every writer keeps the name it owns, nothing is left
\* over that was not before.
LEMMA SameLeftovers ==
    ASSUME IInv, UNCHANGED temp, UNCHANGED <<errors, exits, proc>>,
           \A q \in Pids : writer[q].pc \in OwnPlaces => writer'[q] = writer[q],
           \A q \in Pids \ {proc} : Alive(q)' => Alive(q)
    PROVE  LeftoversAreCounted'
<1>1. Temporaries' = Temporaries
  BY LeftoverIff, LeftoverIffNext
<1>2. Leftovers' \subseteq Leftovers
  BY LeftoverIff, LeftoverIffNext DEF Owns, Names
<1>3. Detached' \subseteq Detached /\ Detached \subseteq Pids
  BY DEF Detached
<1>4. IsFiniteSet(Leftovers) /\ IsFiniteSet(Detached)
  BY <1>3, OutputAssumption, FS_Subset DEF IInv, LeftoversAreCounted, Leftovers
<1>5. /\ Cardinality(Leftovers') \in Nat /\ Cardinality(Leftovers) \in Nat
      /\ Cardinality(Leftovers') <= Cardinality(Leftovers)
  BY <1>2, <1>4, NotMore
<1>6. /\ Cardinality(Detached') \in Nat /\ Cardinality(Detached) \in Nat
      /\ Cardinality(Detached') <= Cardinality(Detached)
  BY <1>3, <1>4, NotMore
<1> QED
  BY <1>1, <1>5, <1>6, OutputAssumption DEF IInv, TypeOK, LeftoversAreCounted

\* While attempts only grow and no temporary file changes, the names of a writer that goes
\* on stay new.
LEMMA GrowingAttempts ==
    ASSUME IInv, TypeOK', retries = 0, UNCHANGED temp,
           \A e \in Events : row[e].attempts <= row'[e].attempts
    PROVE  /\ \A t \in Temporaries' : t[3] <= row'[t[1]].attempts
           /\ \A q \in Pids : writer'[q] = writer[q] =>
                /\ Alive(q)' => writer'[q].attempt <= row'[writer'[q].event].attempts
                /\ writer'[q].pc \in {"start", "verify", "create"} => Mine(q)' = "none"
<1>1. \A e \in Events : row[e].attempts \in Nat /\ row'[e].attempts \in Nat
  BY OutputAssumption DEF IInv, TypeOK
<1>2. ASSUME NEW t \in Temporaries' PROVE t[3] <= row'[t[1]].attempts
  <2>1. t \in Temporaries /\ t \in Names
    BY <1>2, LeftoverIff, LeftoverIffNext
  <2>2. t[3] <= row[t[1]].attempts /\ t[1] \in Events /\ t[3] \in Nat
    BY <2>1, OutputAssumption DEF IInv, NamesAreNew, Names, Attempts
  <2> QED
    BY <1>1, <2>2
<1>3. ASSUME NEW q \in Pids, writer'[q] = writer[q], Alive(q)'
      PROVE  writer'[q].attempt <= row'[writer'[q].event].attempts
  <2>1. /\ writer[q].event \in Events /\ writer[q].attempt \in Nat
        /\ writer[q].attempt <= row[writer[q].event].attempts
    BY <1>3, OutputAssumption DEF IInv, WritersHold, NamesAreNew, Alive, Attempts
  <2> QED
    BY <1>1, <1>3, <2>1
<1>4. \A q \in Pids : writer'[q] = writer[q] /\ writer'[q].pc \in {"start", "verify", "create"} =>
        Mine(q)' = "none"
  BY DEF IInv, NamesAreNew, Mine
<1> QED
  BY <1>2, <1>3, <1>4

\* A claim pays for an attempt before the first byte is written, so the attempt's name is
\* new as long as no retry has set the attempts back.
LEMMA ClaimKeepsInvariant ==
    ASSUME IInv, NEW e \in Events, Claim(e)
    PROVE  IInv'
<1>1. /\ TypeOK /\ proc \in Pids /\ ~Alive(proc)
      /\ row[e].attempts \in 0..MAX_ATTEMPTS /\ row[e].attempts < MAX_ATTEMPTS
      /\ UNCHANGED <<file, temp, proc, errors, exits, power, retries>>
  BY DEF IInv, TypeOK, Claim, disk, bounds
<1> DEFINE k == row[e].attempts + 1
<1>2. k \in Attempts /\ k \in 0..MAX_ATTEMPTS
  BY <1>1, OutputAssumption DEF Attempts
<1>3. /\ row' = [row EXCEPT ![e] = [status |-> "held", attempts |-> k]]
      /\ writer' = [writer EXCEPT ![proc] = [event |-> e, attempt |-> k, pc |-> "start"]]
  BY DEF Claim
<1> HIDE DEF k
<1>4. /\ row'[e] = [status |-> "held", attempts |-> k]
      /\ writer'[proc] = [event |-> e, attempt |-> k, pc |-> "start"]
      /\ \A f \in Events : f # e => row'[f] = row[f]
      /\ \A q \in Pids : q # proc => writer'[q] = writer[q]
  BY <1>1, <1>3 DEF TypeOK
<1>5. TypeOK'
  <2>1. /\ row' \in [Events -> [status: {"pending", "held", "delivered", "failed"},
                                attempts: 0..MAX_ATTEMPTS]]
        /\ writer' \in [Pids -> [event: Events \cup {None}, attempt: 0..MAX_ATTEMPTS, pc: Places]]
    BY <1>1, <1>2, <1>3 DEF TypeOK, Places
  <2> QED
    BY <1>1, <1>4, <2>1, OutputAssumption DEF TypeOK
<1>6. WritersHold'
  BY <1>2, <1>4 DEF IInv, WritersHold, Alive
<1>7. WritersTell'
  BY <1>1, <1>4 DEF IInv, WritersTell, Mine
<1>8. FilesAreWhole'
  BY <1>1, <1>4 DEF IInv, FilesAreWhole
<1>9. LeftoversAreCounted'
  <2>1. \A q \in Pids : writer[q].pc \in OwnPlaces => writer'[q] = writer[q]
    BY <1>1, <1>4 DEF Alive, OwnPlaces
  <2> QED
    BY <1>1, <1>4, <2>1, SameLeftovers DEF Alive
<1>10. ASSUME retries' = 0
       PROVE  /\ \A t \in Temporaries' : t[3] <= row'[t[1]].attempts
              /\ \A q \in Pids : Alive(q)' => writer'[q].attempt <= row'[writer'[q].event].attempts
              /\ \A q \in Pids : writer'[q].pc \in {"start", "verify", "create"} => Mine(q)' = "none"
  <2>1. retries = 0
    BY <1>1, <1>10
  <2>2. \A f \in Events : /\ row[f].attempts \in Nat /\ row'[f].attempts \in Nat
                          /\ row[f].attempts <= row'[f].attempts
    <3>1. \A f \in Events : row[f].attempts \in Nat
      BY <1>1, OutputAssumption DEF TypeOK
    <3>2. row'[e].attempts = k /\ k \in Nat /\ row[e].attempts <= k
      BY <1>2, <1>4, <3>1, OutputAssumption DEF k
    <3> QED
      BY <1>4, <3>1, <3>2
  <2>3. \A q \in Pids : q # proc => writer'[q] = writer[q]
    BY <1>4
  <2>4. temp[e][proc][k] = "none"
    <3> SUFFICES ASSUME temp[e][proc][k] # "none" PROVE FALSE
      OBVIOUS
    <3>1. <<e, proc, k>> \in Temporaries
      BY <1>1, <1>2, LeftoverIff DEF Names
    <3>2. k <= row[e].attempts
      BY <2>1, <3>1 DEF IInv, NamesAreNew
    <3> QED
      BY <1>1, <3>2 DEF k
  <2>5. Mine(proc)' = "none" /\ writer'[proc].attempt <= row'[writer'[proc].event].attempts
    BY <1>1, <1>2, <1>4, <2>4, OutputAssumption DEF Mine, Attempts
  <2> QED
    BY <1>1, <1>5, <2>1, <2>2, <2>3, <2>5, GrowingAttempts
<1>11. NamesAreNew'
  BY <1>10 DEF NamesAreNew
<1> QED
  BY <1>5, <1>6, <1>7, <1>8, <1>9, <1>11 DEF IInv

\* A step that only settles rows, and lets go of a writer that is done.
LEMMA SettlingKeepsInvariant ==
    ASSUME IInv, TypeOK', UNCHANGED <<file, temp, proc, errors, exits, power>>,
           \A e \in Events : row'[e].status = "delivered" =>
                row[e].status = "delivered" \/ file[e] = "synced",
           retries' = retries \/ retries' = retries + 1,
           retries' = retries => \A e \in Events : row'[e].attempts = row[e].attempts,
           \A q \in Pids : \/ writer'[q] = writer[q]
                           \/ /\ writer'[q] = NoWriter
                              /\ writer[q].pc \in {"ok", "error"}
    PROVE  IInv'
<1>1. WritersHold'
  BY DEF IInv, WritersHold, Alive, NoWriter
<1>2. WritersTell'
  BY DEF IInv, WritersTell, NoWriter, Mine
<1>3. FilesAreWhole'
  BY DEF IInv, FilesAreWhole
<1>4. LeftoversAreCounted'
  BY SameLeftovers DEF OwnPlaces, Alive, NoWriter
<1>5. NamesAreNew'
  <2> SUFFICES ASSUME retries' = 0 PROVE NamesAreNew'
    BY DEF NamesAreNew
  <2>1. retries = 0 /\ retries' = retries
    BY DEF IInv, TypeOK
  <2>2. \A e \in Events : row[e].attempts <= row'[e].attempts
    BY <2>1, OutputAssumption DEF IInv, TypeOK
  <2> QED
    BY <2>1, <2>2, GrowingAttempts DEF NamesAreNew, Alive, NoWriter
<1> QED
  BY <1>1, <1>2, <1>3, <1>4, <1>5 DEF IInv

LEMMA DispatcherKeepsInvariant ==
    ASSUME IInv, (\E e \in Events : GiveUp(e)) \/ Finish \/ Retry
    PROVE  IInv'
<1>1. TypeOK /\ WritersHold /\ UNCHANGED <<file, temp, proc, errors, exits, power>>
  BY DEF IInv, GiveUp, Finish, Retry, disk, bounds
<1>2. ASSUME NEW e \in Events, GiveUp(e) PROVE IInv'
  <2>1. row' = [row EXCEPT ![e].status = "failed"] /\ writer' = writer /\ retries' = retries
    BY <1>2 DEF GiveUp, bounds
  <2>2. /\ row' \in [Events -> [status: {"pending", "held", "delivered", "failed"},
                                attempts: 0..MAX_ATTEMPTS]]
        /\ row'[e].status = "failed"
        /\ \A f \in Events : row'[f].attempts = row[f].attempts /\ (f # e => row'[f] = row[f])
    BY <1>1, <2>1 DEF TypeOK
  <2>3. TypeOK'
    BY <1>1, <1>2, <2>1, <2>2 DEF TypeOK, GiveUp, Alive
  <2> QED
    BY <1>1, <2>1, <2>2, <2>3, SettlingKeepsInvariant
<1>3. ASSUME Finish PROVE IInv'
  <2> DEFINE w == writer[proc]
             s == IF w.pc = "ok" THEN "delivered"
                  ELSE IF w.attempt = MAX_ATTEMPTS THEN "failed" ELSE "pending"
  <2>1. /\ w.pc \in {"ok", "error"} /\ row' = [row EXCEPT ![w.event].status = s]
        /\ writer' = [writer EXCEPT ![proc] = NoWriter] /\ retries' = retries
    BY <1>3 DEF Finish, bounds
  <2>2. proc \in Pids /\ w.event \in Events /\ (w.pc = "ok" => file[w.event] = "synced")
    BY <1>1, <2>1 DEF IInv, TypeOK, WritersHold, WritersTell, Alive
  <2>3. /\ row' \in [Events -> [status: {"pending", "held", "delivered", "failed"},
                                attempts: 0..MAX_ATTEMPTS]]
        /\ row'[w.event].status = s
        /\ \A f \in Events : row'[f].attempts = row[f].attempts /\ (f # w.event => row'[f] = row[f])
    <3>1. ASSUME NEW e \in Events, NEW c \in {"delivered", "failed", "pending"},
                 row' = [row EXCEPT ![e].status = c]
          PROVE  /\ row' \in [Events -> [status: {"pending", "held", "delivered", "failed"},
                                         attempts: 0..MAX_ATTEMPTS]]
                 /\ row'[e].status = c
                 /\ \A f \in Events : row'[f].attempts = row[f].attempts /\ (f # e => row'[f] = row[f])
      BY <1>1, <3>1 DEF TypeOK
    <3>2. s \in {"delivered", "failed", "pending"}
      OBVIOUS
    <3> HIDE DEF s, w
    <3> QED
      BY <2>1, <2>2, <3>1, <3>2
  <2>4. /\ writer' \in [Pids -> [event: Events \cup {None}, attempt: 0..MAX_ATTEMPTS, pc: Places]]
        /\ writer'[proc] = NoWriter /\ \A q \in Pids : q # proc => writer'[q] = writer[q]
    BY <1>1, <2>1, <2>2, OutputAssumption DEF TypeOK, NoWriter, Places
  <2>5. TypeOK'
    BY <1>1, <2>1, <2>3, <2>4 DEF TypeOK, Alive, NoWriter
  <2> QED
    BY <1>1, <2>1, <2>2, <2>3, <2>4, <2>5, SettlingKeepsInvariant
<1>4. ASSUME Retry PROVE IInv'
  <2>1. /\ writer' = writer /\ retries' = retries + 1 /\ retries < MaxRetries
        /\ row' = [e \in Events |-> IF row[e].status = "failed"
                                    THEN [status |-> "pending", attempts |-> 0] ELSE row[e]]
    BY <1>4 DEF Retry
  <2>2. /\ row' \in [Events -> [status: {"pending", "held", "delivered", "failed"},
                                attempts: 0..MAX_ATTEMPTS]]
        /\ \A e \in Events : row[e].status # "failed" => row'[e] = row[e]
        /\ \A e \in Events : row[e].status = "failed" => row'[e].status = "pending"
    BY <1>1, <2>1, OutputAssumption DEF TypeOK
  <2>3. retries \in Nat /\ retries' \in 0..MaxRetries /\ retries' # retries
    BY <1>1, <2>1, OutputAssumption DEF TypeOK
  <2>4. TypeOK'
    BY <1>1, <2>1, <2>2, <2>3 DEF TypeOK, Alive, WritersHold
  <2> QED
    BY <1>1, <2>1, <2>2, <2>3, <2>4, SettlingKeepsInvariant
<1> QED
  BY <1>2, <1>3, <1>4

(***************************************************************************)
(* The environment.                                                        *)
(***************************************************************************)

\* Something else takes a free name.
LEMMA OccupyKeepsInvariant ==
    ASSUME IInv, NEW e \in Events, Occupy(e)
    PROVE  IInv'
<1>1. /\ TypeOK /\ file[e] = "none" /\ file' = [file EXCEPT ![e] = "foreign"]
      /\ UNCHANGED <<writer, temp, row, proc, exits, power, retries>>
      /\ errors' = errors + 1 /\ errors < MaxErrors
  BY DEF IInv, Occupy, Rest, Fault
<1>2. errors \in Nat /\ exits \in Nat /\ errors' \in 0..MaxErrors
  BY <1>1, OutputAssumption DEF TypeOK
<1>3. TypeOK' /\ WritersHold' /\ FilesAreWhole'
  BY <1>1, <1>2 DEF IInv, TypeOK, WritersHold, FilesAreWhole, Alive
<1>4. WritersTell'
  BY <1>1 DEF IInv, TypeOK, WritersHold, WritersTell, Alive, Mine
<1>5. LeftoversAreCounted'
  <2>1. Temporaries' = Temporaries /\ Leftovers' = Leftovers /\ Detached' = Detached
    BY <1>1 DEF Temporaries, Leftovers, Owned, Detached, Alive
  <2>2. IsFiniteSet(Leftovers) /\ IsFiniteSet(Detached)
    BY OutputAssumption, FS_Subset DEF IInv, LeftoversAreCounted, Leftovers, Detached
  <2>3. Cardinality(Leftovers) \in Nat /\ Cardinality(Detached) \in Nat
    BY <2>2, FS_CardinalityType
  <2> QED
    BY <1>1, <1>2, <2>1, <2>3 DEF IInv, LeftoversAreCounted
<1>6. NamesAreNew'
  BY <1>1 DEF IInv, NamesAreNew, Temporaries, Mine, Alive
<1> QED
  BY <1>3, <1>4, <1>5, <1>6 DEF IInv

\* Writers disappear, which the next process or the end of a worker brings about: what the
\* invariant says of those that remain still holds.
LEMMA FewerWriters ==
    ASSUME IInv, UNCHANGED <<row, file, temp, errors, power, retries>>,
           \A q \in Pids : writer'[q] = writer[q] \/ writer'[q] = NoWriter
    PROVE  WritersHold' /\ WritersTell' /\ FilesAreWhole' /\ NamesAreNew'
<1>1. WritersHold' /\ WritersTell'
  BY DEF IInv, WritersHold, WritersTell, Alive, NoWriter, Mine
<1>2. FilesAreWhole'
  BY DEF IInv, FilesAreWhole
<1>3. NamesAreNew'
  <2>1. Temporaries' = Temporaries
    BY DEF Temporaries
  <2> QED
    BY <2>1 DEF IInv, NamesAreNew, Alive, NoWriter, Mine
<1> QED
  BY <1>1, <1>2, <1>3

\* What one writer owned is the most that its end leaves behind.
LEMMA OneWriterLess ==
    ASSUME IInv, UNCHANGED temp, NEW p \in Pids,
           writer' = [writer EXCEPT ![p] = NoWriter]
    PROVE  /\ Leftovers' \subseteq Leftovers \cup {Name(p)}
           /\ ~Alive(p) => Leftovers' \subseteq Leftovers
           /\ \A q \in Pids : Alive(q)' <=> q # p /\ Alive(q)
<1>1. /\ writer'[p] = NoWriter /\ \A q \in Pids : q # p => writer'[q] = writer[q]
  BY DEF IInv, TypeOK
<1>2. ASSUME NEW t \in Leftovers', t \notin Leftovers PROVE t = Name(p) /\ Alive(p)
  <2>1. PICK e \in Events, q \in Pids, k \in Attempts : t = <<e, q, k>>
    BY LeftoverIffNext DEF Names
  <2>2. Owns(t) /\ ~Owns(t)'
    BY <1>2, LeftoverIff, LeftoverIffNext
  <2>3. q = p
    BY <1>1, <2>1, <2>2 DEF Owns
  <2> QED
    BY <2>1, <2>2, <2>3 DEF Owns, Name, Alive, OwnPlaces
<1>3. \A q \in Pids : Alive(q)' <=> q # p /\ Alive(q)
  BY <1>1 DEF Alive, NoWriter
<1> QED
  BY <1>2, <1>3

LEMMA CountsAreNumbers ==
    ASSUME IInv
    PROVE  /\ IsFiniteSet(Temporaries) /\ IsFiniteSet(Leftovers) /\ IsFiniteSet(Detached)
           /\ Cardinality(Leftovers) \in Nat /\ Cardinality(Detached) \in Nat
           /\ errors \in Nat /\ exits \in Nat
<1>1. IsFiniteSet(Temporaries) /\ IsFiniteSet(Leftovers) /\ IsFiniteSet(Detached)
  BY OutputAssumption, FS_Subset DEF IInv, LeftoversAreCounted, Leftovers, Detached
<1> QED
  BY <1>1, FS_CardinalityType, OutputAssumption DEF IInv, TypeOK

\* The end of a detached worker turns what it owned into a trace, and it was counted when
\* its process lost the lock.
LEMMA DieKeepsInvariant ==
    ASSUME IInv, NEW p \in Pids, Die(p)
    PROVE  IInv'
<1>1. /\ TypeOK /\ p # proc /\ Alive(p) /\ writer' = [writer EXCEPT ![p] = NoWriter]
      /\ UNCHANGED <<row, file, temp, proc, errors, exits, power, retries>>
  BY DEF IInv, Die, disk, bounds
<1>2. TypeOK'
  <2>1. writer' \in [Pids -> [event: Events \cup {None}, attempt: 0..MAX_ATTEMPTS, pc: Places]]
    BY <1>1, OutputAssumption DEF TypeOK, NoWriter, Places
  <2>2. writer'[proc] = writer[proc]
    BY <1>1 DEF TypeOK
  <2> QED
    BY <1>1, <2>1, <2>2 DEF TypeOK, Alive
<1>3. WritersHold' /\ WritersTell' /\ FilesAreWhole' /\ NamesAreNew'
  <2>1. \A q \in Pids : writer'[q] = writer[q] \/ writer'[q] = NoWriter
    BY <1>1 DEF TypeOK
  <2> QED
    BY <1>1, <2>1, FewerWriters
<1>4. LeftoversAreCounted'
  <2>1. /\ Cardinality(Leftovers') \in Nat
        /\ Cardinality(Leftovers') <= Cardinality(Leftovers) + 1
    BY <1>1, OneWriterLess, CountsAreNumbers, AtMostOneMore
  <2>2. p \in Detached /\ Detached' \subseteq Detached \ {p}
    BY <1>1, OneWriterLess DEF Detached
  <2>3. /\ Cardinality(Detached') \in Nat
        /\ Cardinality(Detached') + 1 <= Cardinality(Detached)
    BY <2>2, CountsAreNumbers, OneLess
  <2>4. Temporaries' = Temporaries
    BY <1>1 DEF Temporaries
  <2>5. Cardinality(Leftovers) + Cardinality(Detached) <= errors + exits
    BY DEF IInv, LeftoversAreCounted
  <2>6. Cardinality(Leftovers') + Cardinality(Detached') <= errors' + exits'
    BY <1>1, <2>1, <2>3, <2>5, CountsAreNumbers
  <2> QED
    BY <2>4, <2>6, CountsAreNumbers DEF LeftoversAreCounted
<1> QED
  BY <1>2, <1>3, <1>4 DEF IInv

\* The end of a process frees the lock; its worker ends with it or is counted as detached.
LEMMA ExitKeepsInvariant == IInv /\ Exit => IInv'
<1> SUFFICES ASSUME IInv, Exit PROVE IInv'
  OBVIOUS
<1>1. PICK p \in Pids, detached \in BOOLEAN :
        /\ ~Alive(p) \/ (p = proc /\ ~detached)
        /\ proc' = p
        /\ writer' = IF detached THEN writer ELSE [writer EXCEPT ![proc] = NoWriter]
  BY DEF Exit
<1>2. /\ TypeOK /\ proc \in Pids
      /\ UNCHANGED <<row, file, temp, errors, power, retries>>
      /\ exits' = exits + 1 /\ exits' \in 0..MaxExits
  BY OutputAssumption DEF IInv, TypeOK, Exit, disk
<1>3. /\ writer' \in [Pids -> [event: Events \cup {None}, attempt: 0..MAX_ATTEMPTS, pc: Places]]
      /\ \A q \in Pids : writer'[q] = writer[q] \/ writer'[q] = NoWriter
      /\ \A q \in Pids : Alive(q)' => Alive(q)
      /\ ~Alive(p)'
  BY <1>1, <1>2, OutputAssumption DEF TypeOK, NoWriter, Places, Alive
<1>4. TypeOK'
  BY <1>1, <1>2, <1>3 DEF TypeOK, Alive
<1>5. WritersHold' /\ WritersTell' /\ FilesAreWhole' /\ NamesAreNew'
  BY <1>2, <1>3, FewerWriters
<1>6. LeftoversAreCounted'
  <2>1. Temporaries' = Temporaries
    BY <1>2 DEF Temporaries
  <2>2. Cardinality(Leftovers) + Cardinality(Detached) <= errors + exits
    BY DEF IInv, LeftoversAreCounted
  <2>3. CASE detached
    <3>1. Leftovers' = Leftovers
      BY <1>1, <1>2, <2>3 DEF Leftovers, Temporaries, Owned
    <3>2. Detached' \subseteq Detached \cup {proc}
      BY <1>1, <1>3 DEF Detached
    <3>3. /\ Cardinality(Detached') \in Nat
          /\ Cardinality(Detached') <= Cardinality(Detached) + 1
      BY <3>2, CountsAreNumbers, AtMostOneMore
    <3>4. Cardinality(Leftovers') + Cardinality(Detached') <= errors' + exits'
      BY <1>2, <2>2, <3>1, <3>3, CountsAreNumbers
    <3> QED
      BY <2>1, <3>4, CountsAreNumbers DEF LeftoversAreCounted
  <2>4. CASE ~detached
    <3>1. writer' = [writer EXCEPT ![proc] = NoWriter]
      BY <1>1, <2>4
    <3>2. Leftovers' \subseteq Leftovers \cup {Name(proc)}
      BY <1>2, <3>1, OneWriterLess
    <3>3. /\ Cardinality(Leftovers') \in Nat
          /\ Cardinality(Leftovers') <= Cardinality(Leftovers) + 1
      BY <3>2, CountsAreNumbers, AtMostOneMore
    <3>4. Detached' \subseteq Detached
      BY <1>1, <1>2, <3>1, OneWriterLess DEF Detached
    <3>5. /\ Cardinality(Detached') \in Nat
          /\ Cardinality(Detached') <= Cardinality(Detached)
      BY <3>4, CountsAreNumbers, NotMore
    <3>6. Cardinality(Leftovers') + Cardinality(Detached') <= errors' + exits'
      BY <1>2, <2>2, <3>3, <3>5, CountsAreNumbers
    <3> QED
      BY <2>1, <3>6, CountsAreNumbers DEF LeftoversAreCounted
  <2> QED
    BY <2>3, <2>4
<1> QED
  BY <1>4, <1>5, <1>6 DEF IInv

\* There are no more owned names than writers.
LEMMA OwnedIsSmall ==
    ASSUME IInv
    PROVE  /\ IsFiniteSet(Owned) /\ Cardinality(Owned) \in Nat
           /\ Cardinality(Owned) <= Cardinality(Detached) + 1
<1> DEFINE Owners == {q \in Pids : writer[q].pc \in OwnPlaces}
           f == [q \in Owners |-> Name(q)]
<1>1. Owners \subseteq Detached \cup {proc}
  BY DEF Detached, Alive, OwnPlaces
<1>2. /\ IsFiniteSet(Owners) /\ Cardinality(Owners) \in Nat
      /\ Cardinality(Owners) <= Cardinality(Detached) + 1
  BY <1>1, CountsAreNumbers, AtMostOneMore
<1>3. f \in Surjection(Owners, Owned)
  BY DEF Surjection, Owned, OwnPlaces, Name
<1>4. IsFiniteSet(Owned) /\ Cardinality(Owned) <= Cardinality(Owners)
  BY <1>2, <1>3, FS_Surjection
<1> QED
  BY <1>2, <1>4, CountsAreNumbers, FS_CardinalityType

\* A loss of power ends every writer at once and takes away at most what was not synced.
LEMMA PowerLossKeepsInvariant == IInv /\ PowerLoss => IInv'
<1> SUFFICES ASSUME IInv, PowerLoss PROVE IInv'
  OBVIOUS
<1>1. /\ TypeOK /\ writer' = [p \in Pids |-> NoWriter] /\ proc' \in Pids
      /\ exits < MaxExits /\ power < MaxPower /\ exits' = exits + 1 /\ power' = power + 1
      /\ UNCHANGED <<row, errors, retries>>
  BY DEF IInv, PowerLoss
<1>2. exits' \in 0..MaxExits /\ power' \in 0..MaxPower /\ power' > 0
  BY <1>1, OutputAssumption DEF TypeOK
<1>3. file' \in [Events -> {"none", "synced", "foreign"}]
  <2>1. PICK f \in [Events -> UNION {After(file[e]) : e \in Events}] :
          (\A e \in Events : f[e] \in After(file[e])) /\ file' = f
    BY DEF PowerLoss
  <2>2. ASSUME NEW e \in Events PROVE After(file[e]) \subseteq {"none", "synced", "foreign"}
    <3>1. file[e] \in {"none", "synced", "foreign"}
      BY DEF IInv, FilesAreWhole
    <3> QED
      BY <3>1 DEF After
  <2> QED
    BY <2>1, <2>2
<1>4. PICK lost \in SUBSET Temporaries :
        temp' = [e \in Events |-> [p \in Pids |-> [k \in Attempts |->
                    IF <<e, p, k>> \in lost THEN "none"
                    ELSE IF temp[e][p][k] = "written" THEN "part" ELSE temp[e][p][k]]]]
  BY DEF PowerLoss
<1>5. /\ temp' \in [Events -> [Pids -> [Attempts -> {"none", "part", "written", "synced"}]]]
      /\ \A e \in Events, p \in Pids, k \in Attempts :
            temp'[e][p][k] # "none" => temp[e][p][k] # "none"
  BY <1>1, <1>4 DEF TypeOK
<1>6. Temporaries' \subseteq Temporaries
  BY <1>5, LeftoverIff, LeftoverIffNext DEF Names
<1>7. \A p \in Pids : writer'[p] = NoWriter
  BY <1>1
<1>8. TypeOK'
  BY <1>1, <1>2, <1>3, <1>5, <1>7, OutputAssumption DEF TypeOK, Alive, NoWriter, Places
<1>9. WritersHold' /\ WritersTell' /\ FilesAreWhole'
  BY <1>2, <1>3, <1>7 DEF WritersHold, WritersTell, FilesAreWhole, Alive, NoWriter
<1>10. NamesAreNew'
  BY <1>1, <1>6, <1>7 DEF IInv, NamesAreNew, Alive, NoWriter
<1>11. LeftoversAreCounted'
  <2>1. Leftovers' \subseteq Leftovers \cup Owned
    BY <1>6 DEF Leftovers
  <2>2. /\ IsFiniteSet(Leftovers \cup Owned)
        /\ Cardinality(Leftovers \cup Owned) =
              Cardinality(Leftovers) + Cardinality(Owned) - Cardinality(Leftovers \cap Owned)
        /\ Cardinality(Leftovers \cap Owned) \in Nat
    BY CountsAreNumbers, OwnedIsSmall, FS_Union, FS_Intersection, FS_CardinalityType
  <2>3. /\ Cardinality(Leftovers') \in Nat
        /\ Cardinality(Leftovers') <= Cardinality(Leftovers \cup Owned)
    BY <2>1, <2>2, NotMore
  <2>4. Cardinality(Detached') = 0
    <3>1. Detached' = {}
      BY <1>7 DEF Detached, Alive, NoWriter
    <3> QED
      BY <3>1, FS_EmptySet
  <2>5. Cardinality(Leftovers) + Cardinality(Detached) <= errors + exits
    BY DEF IInv, LeftoversAreCounted
  <2>6. Cardinality(Leftovers') + Cardinality(Detached') <= errors' + exits'
    BY <1>1, <2>2, <2>3, <2>4, <2>5, CountsAreNumbers, OwnedIsSmall
  <2>7. IsFiniteSet(Temporaries')
    BY <1>6, CountsAreNumbers, FS_Subset
  <2> QED
    BY <2>6, <2>7 DEF LeftoversAreCounted
<1> QED
  BY <1>8, <1>9, <1>10, <1>11 DEF IInv

LEMMA NextKeepsInvariant == IInv /\ [Next]_vars => IInv'
<1>1. IInv /\ UNCHANGED vars => IInv'
  <2> SUFFICES ASSUME IInv, UNCHANGED vars PROVE IInv'
    OBVIOUS
  <2>1. UNCHANGED <<row, writer, file, temp, proc, errors, exits, power, retries>>
    BY DEF vars, disk, bounds
  <2>2. Temporaries' = Temporaries /\ Leftovers' = Leftovers /\ Detached' = Detached
    BY <2>1 DEF Temporaries, Leftovers, Owned, Detached, Alive
  <2>3. TypeOK' /\ WritersHold'
    BY <2>1 DEF IInv, TypeOK, WritersHold, Alive
  <2>4. WritersTell' /\ FilesAreWhole'
    BY <2>1 DEF IInv, WritersTell, FilesAreWhole, Mine
  <2>5. LeftoversAreCounted'
    BY <2>1, <2>2 DEF IInv, LeftoversAreCounted
  <2>6. NamesAreNew'
    BY <2>1, <2>2 DEF IInv, NamesAreNew, Alive, Mine
  <2> QED
    BY <2>3, <2>4, <2>5, <2>6 DEF IInv
<1> QED
  BY <1>1, ClaimKeepsInvariant, DispatcherKeepsInvariant, OccupyKeepsInvariant,
     LookingKeepsInvariant, FillingKeepsInvariant, LinkKeepsInvariant, RemoveKeepsInvariant,
     DieKeepsInvariant, ExitKeepsInvariant, PowerLossKeepsInvariant DEF Next

\* Whatever calls fail and whichever processes end, the inductive invariant holds.
THEOREM OutputInvariant == Spec => []IInv
BY InitInvariant, NextKeepsInvariant, PTL DEF Spec

(***************************************************************************)
(* The properties.                                                         *)
(***************************************************************************)

\* No reader of the directory ever finds a partial file at an event's path, and no row is
\* delivered for what another program put there.
THEOREM PublishedIsAlwaysWhole == Spec => []PublishedIsWhole
<1>1. IInv => PublishedIsWhole
  BY DEF IInv, TypeOK, WritersTell, FilesAreWhole, PublishedIsWhole
<1> QED
  BY <1>1, OutputInvariant, PTL

\* Every reachable state is well typed; leftovers are as few as the failures that made
\* them; and an attempt fails at its own name only after a retry, at one of them.
THEOREM LeftoversAreAlwaysHarmless == Spec => []LeftoversAreHarmless
<1>1. IInv => LeftoversAreHarmless
  <2> SUFFICES ASSUME IInv PROVE LeftoversAreHarmless
    OBVIOUS
  <2>1. Cardinality(Leftovers) + Cardinality(Detached) <= errors + exits
    BY DEF IInv, LeftoversAreCounted
  <2>2. ASSUME NEW p \in Pids, writer[p].pc = "create", Mine(p) # "none"
        PROVE  retries > 0 /\ errors + exits > 0
    <3>1. retries > 0
      BY <2>2, OutputAssumption DEF IInv, NamesAreNew, TypeOK
    <3>2. Name(p) \in Leftovers
      <4>1. Name(p) \in Names
        BY <2>2 DEF IInv, WritersHold, Alive, Name, Names
      <4>2. ~Owns(Name(p)) /\ temp[writer[p].event][p][writer[p].attempt] # "none"
        BY <2>2 DEF Name, Mine, Owns, OwnPlaces
      <4> QED
        BY <4>1, <4>2, LeftoverIff DEF Name
    <3>3. Cardinality(Leftovers) # 0
      BY <3>2, CountsAreNumbers, FS_EmptySet
    <3>4. errors + exits > 0
      <4> DEFINE l == Cardinality(Leftovers)
                 d == Cardinality(Detached)
      <4>1. l \in Nat /\ d \in Nat /\ errors \in Nat /\ exits \in Nat
        BY CountsAreNumbers
      <4>2. l + d <= errors + exits /\ l # 0
        BY <2>1, <3>3
      <4> HIDE DEF l, d
      <4> QED
        BY <4>1, <4>2
    <3> QED
      BY <3>1, <3>4
  <2>3. Cardinality(Leftovers) <= errors + exits
    BY <2>1, CountsAreNumbers
  <2>4. TypeOK
    BY DEF IInv
  <2> QED
    BY <2>2, <2>3, <2>4 DEF LeftoversAreHarmless, Leftovers
<1> QED
  BY <1>1, OutputInvariant, PTL

\* A published file is replaced or removed by no step of the program.
THEOREM NothingIsEverOverwritten == Spec => NeverOverwritten
<1>1. IInv /\ [Next]_vars =>
        [\A e \in Events : file[e] # "none" => file'[e] = file[e] \/ power' # power]_vars
  <2> SUFFICES ASSUME IInv, Next, NEW e \in Events, file[e] # "none", power' = power
               PROVE  file'[e] = file[e]
    OBVIOUS
  <2>1. TypeOK /\ power \in Nat
    BY OutputAssumption DEF IInv, TypeOK
  <2>2. ASSUME NEW p \in Pids, Link(p) PROVE file'[e] = file[e]
    <3>1. writer[p].event \in Events
      BY <2>2 DEF IInv, WritersHold, Alive, Link
    <3> QED
      BY <2>1, <2>2, <3>1 DEF Link, Path, TypeOK
  <2>3. ASSUME NEW d \in Events, Occupy(d) PROVE file'[e] = file[e]
    BY <2>1, <2>3 DEF Occupy, TypeOK
  <2>4. ~PowerLoss
    BY <2>1 DEF PowerLoss
  <2>5. CASE /\ ~ \E p \in Pids : Link(p)
             /\ ~ \E d \in Events : Occupy(d)
    BY <2>4, <2>5 DEF Next, Claim, GiveUp, Finish, Retry, Exit, Die, Start, Verify, Create,
                      Write, Sync, Remove, disk
  <2> QED
    BY <2>2, <2>3, <2>5
<1> QED
  BY <1>1, OutputInvariant, PTL DEF Spec, NeverOverwritten

=============================================================================
