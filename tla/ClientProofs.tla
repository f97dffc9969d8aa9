----------------------------- MODULE ClientProofs ---------------------------
(***************************************************************************)
(* Theorems about Client, for any tokens, callers, permits and windows.    *)
(***************************************************************************)
EXTENDS Client, TLAPS, FiniteSetTheorems, SequenceTheorems, WellFoundedInduction, NaturalsInduction

(***************************************************************************)
(* The inductive invariant.                                                *)
(***************************************************************************)

\* Callers whose request is on its way to GitHub, and those that hold the news that a
\* credential has no request left in a window that has not ended for them.
InFlight(k, r) == {c \in Callers : /\ caller[c].pc = "sent" /\ caller[c].resource = r
                                   /\ Slots[caller[c].slot] = k}
Reporters(k, r) ==
    {c \in Callers : /\ caller[c].pc = "answered" /\ caller[c].resource = r
                     /\ Slots[caller[c].slot] = k
                     /\ caller[c].answer.status \in {"ok", "refused"}
                     /\ caller[c].answer.about = r /\ caller[c].answer.remaining = 0
                     /\ caller[c].answer.reset >= site[k][r].window}

\* The pool has the news: it lets no caller send before the window ends.
Blocked(k, r) == bucket[r].remaining = 0 /\ bucket[r].reset >= site[k][r].window

PermitsAreHeld == Cardinality(Holding) <= Permits

\* No entry of the pool that may be used holds a credential that was rejected, and only what
\* GitHub does not accept is.
ValidIsAccepted == \A i \in valid : Slots[i] \notin rejected
UnauthorizedIsRevoked ==
    \A c \in Callers : caller[c].pc = "answered" /\ caller[c].answer.status = "unauthorized"
                           => Slots[caller[c].slot] \in revoked

\* A window runs once it was charged, and nothing is refused before its quota is spent.
WindowsRun ==
    \A k \in Keys : \A r \in Resources :
        /\ site[k][r].left < Quota => site[k][r].window > 0
        /\ site[k][r].left > 0 => site[k][r].refused = 0

\* Every answer that told of a spent quota, the first one and each refusal, is held by a
\* caller or lost until one reaches the pool; from then on each further refusal belongs to
\* a request that was already on its way, and so to a permit.
News(k, r) == 1 + site[k][r].refused <= Cardinality(Reporters(k, r)) + site[k][r].lost
Budget(k, r) ==
    1 + site[k][r].refused + Cardinality(InFlight(k, r)) <= Permits + site[k][r].lost
RefusalsAreHeld ==
    \A k \in Keys : \A r \in Resources :
        site[k][r].left = 0 => News(k, r) \/ (Blocked(k, r) /\ Budget(k, r))

IInv == /\ TypeOK /\ PermitsAreHeld /\ ValidIsAccepted /\ UnauthorizedIsRevoked
        /\ WindowsRun /\ RefusalsAreHeld

(***************************************************************************)
(* Numbers, the entries of the pool and the records.                       *)
(***************************************************************************)

LEMMA MaxOfTwo ==
    ASSUME NEW a \in Int, NEW b \in Int
    PROVE  Max({a, b}) \in {a, b} /\ Max({a, b}) >= a /\ Max({a, b}) >= b
<1> DEFINE P(x) == x \in {a, b} /\ \A y \in {a, b} : x >= y
<1>1. P(IF a >= b THEN a ELSE b)
  OBVIOUS
<1>2. Max({a, b}) = CHOOSE x : P(x)
  BY DEF Max
<1> HIDE DEF P
<1>3. P(Max({a, b}))
  BY <1>1, <1>2
<1> QED
  BY <1>3 DEF P

LEMMA MinOfTwo ==
    ASSUME NEW a \in Int, NEW b \in Int
    PROVE  Min({a, b}) \in {a, b} /\ Min({a, b}) <= a /\ Min({a, b}) <= b
<1> DEFINE P(x) == x \in {a, b} /\ \A y \in {a, b} : x <= y
<1>1. P(IF a <= b THEN a ELSE b)
  OBVIOUS
<1>2. Min({a, b}) = CHOOSE x : P(x)
  BY DEF Min
<1> HIDE DEF P
<1>3. P(Min({a, b}))
  BY <1>1, <1>2
<1> QED
  BY <1>3 DEF P

LEMMA NotBelowZero ==
    ASSUME NEW a \in Int
    PROVE  Max({0, a}) \in {0, a} /\ Max({0, a}) >= 0 /\ Max({0, a}) >= a
<1> DEFINE z == 0
<1>1. z \in Int
  OBVIOUS
<1> HIDE DEF z
<1>2. Max({z, a}) \in {z, a} /\ Max({z, a}) >= z /\ Max({z, a}) >= a
  BY <1>1, MaxOfTwo
<1> QED
  BY <1>2 DEF z

\* A non-empty set of naturals has a least element.
LEMMA LeastElement ==
    ASSUME NEW S, S \subseteq Nat, S # {}
    PROVE  \E i \in S : \A j \in S : i <= j
<1>1. PICK i \in S : \A j \in S : ~ (<<j, i>> \in OpToRel(<, Nat))
  BY NatLessThanWellFounded, WFMin
<1>2. ASSUME NEW j \in S PROVE i <= j
  <2>1. ~(j < i)
    BY <1>1 DEF OpToRel
  <2> QED
    BY <2>1
<1> QED
  BY <1>2

LEMMA LongestIsLongest ==
    Longest \in Nat /\ Window <= Longest /\ Default <= Longest
<1>1. Window \in Nat /\ Default \in Nat
  BY ClientAssumption
<1>2. Longest \in {Window, Default} /\ Longest >= Window /\ Longest >= Default
  BY <1>1, MaxOfTwo DEF Longest
<1> QED
  BY <1>1, <1>2

LEMMA SlotsAreNumbered ==
    /\ Len(Slots) \in Nat \ {0} /\ DOMAIN Slots = 1..Len(Slots) /\ Usable \subseteq 1..Len(Slots)
<1> DEFINE S == {Credentials[i] : i \in DOMAIN Credentials}
<1>1. CASE Credentials = <<>>
  BY <1>1 DEF Slots, Usable
<1>2. CASE Credentials # <<>>
  <2>1. Credentials \in Seq(S)
    BY ClientAssumption
  <2> HIDE DEF S
  <2>2. Len(Credentials) \in Nat \ {0} /\ DOMAIN Credentials = 1..Len(Credentials)
    BY <1>2, <2>1, EmptySeq, LenProperties
  <2> QED
    BY <1>2, <2>2 DEF Slots, Usable
<1> QED
  BY <1>1, <1>2

Caller == [pc: Stages, resource: Resources, wake: 0..Longest, slot: 0..Len(Slots),
           answer: Answer]
Site == [left: 0..Quota, window: 0..Window, refused: Nat, lost: Nat]

LEMMA TypesOfRecords ==
    ASSUME TypeOK
    PROVE  /\ caller \in [Callers -> Caller] /\ \A c \in Callers : caller[c] \in Caller
           /\ site \in [Keys -> [Resources -> Site]]
           /\ \A k \in Keys : \A r \in Resources : site[k][r] \in Site
           /\ bucket \in [Resources -> Bucket] /\ \A r \in Resources : bucket[r] \in Bucket
BY DEF TypeOK, Caller, Site

LEMMA NoAnswerIsAnswer ==
    ASSUME NEW r \in Resources
    PROVE  NoAnswer(r) \in Answer
BY ClientAssumption DEF NoAnswer, Answer, Statuses, Absent

LEMMA IdleIsCaller ==
    ASSUME NEW r \in Resources
    PROVE  Idle(r) \in Caller /\ Idle(r).pc = "idle" /\ Idle(r).resource = r /\ Idle(r).answer = NoAnswer(r)
BY NoAnswerIsAnswer, LongestIsLongest, SlotsAreNumbered DEF Idle, Caller, Stages

\* pool_wait is zero exactly when nothing forbids to send.
LEMMA PoolWaitForbids ==
    ASSUME TypeOK, NEW r \in Resources
    PROVE  /\ PoolWait(r) \in 0..Longest
           /\ PoolWait(r) = 0 => secondary = 0 /\ (bucket[r].remaining = 0 => bucket[r].reset = 0)
<1> DEFINE b == IF bucket[r].remaining = 0 THEN bucket[r].reset ELSE 0
<1>1. b \in 0..Longest /\ secondary \in 0..Longest /\ Longest \in Nat
  BY LongestIsLongest DEF TypeOK, Bucket
<1>2. PoolWait(r) = Max({secondary, b})
  BY DEF PoolWait
<1> HIDE DEF b
<1>3. PoolWait(r) \in {secondary, b} /\ PoolWait(r) >= secondary /\ PoolWait(r) >= b
  BY <1>1, <1>2, MaxOfTwo
<1>4. PoolWait(r) = 0 => secondary = 0 /\ b = 0
  BY <1>1, <1>3
<1> QED
  BY <1>1, <1>3, <1>4 DEF b

\* The choice of an entry finds one.
LEMMA NextSlotIsValid ==
    ASSUME TypeOK, valid # {}
    PROVE  NextSlot \in valid
<1> DEFINE n == Len(Slots)
           distance(i) == (i - turn + n) % n
           S == {distance(i) : i \in valid}
<1>1. n \in Nat \ {0} /\ valid \subseteq 1..n /\ turn \in 1..n
  BY SlotsAreNumbered DEF TypeOK
<1>2. \A i \in valid : distance(i) \in Nat
  <2> SUFFICES ASSUME NEW i \in valid PROVE distance(i) \in Nat
    OBVIOUS
  <2>1. i - turn + n \in Int
    BY <1>1
  <2> QED
    BY <1>1, <2>1
<1>3. NextSlot = CHOOSE i \in valid : \A j \in valid : distance(i) <= distance(j)
  BY DEF NextSlot
<1> HIDE DEF distance
<1>4. PICK d \in S : \A e \in S : d <= e
  <2>1. S \subseteq Nat /\ S # {}
    BY <1>2
  <2> HIDE DEF S
  <2> QED
    BY <2>1, LeastElement
<1>5. \E i \in valid : \A j \in valid : distance(i) <= distance(j)
  BY <1>4
<1> QED
  BY <1>3, <1>5

(***************************************************************************)
(* Counting callers.                                                       *)
(***************************************************************************)

LEMMA CallersAreCounted ==
    ASSUME NEW k, NEW r
    PROVE  /\ IsFiniteSet(Holding) /\ Cardinality(Holding) \in Nat
           /\ IsFiniteSet(Reporters(k, r)) /\ Cardinality(Reporters(k, r)) \in Nat
           /\ IsFiniteSet(InFlight(k, r)) /\ Cardinality(InFlight(k, r)) \in Nat
<1>1. /\ Holding \subseteq Callers /\ Reporters(k, r) \subseteq Callers
      /\ InFlight(k, r) \subseteq Callers
  BY DEF Holding, Reporters, InFlight
<1>2. IsFiniteSet(Callers)
  BY ClientAssumption
<1> QED
  BY <1>1, <1>2, FS_Subset, FS_CardinalityType

LEMMA CallersAreCountedNext ==
    ASSUME NEW k, NEW r
    PROVE  /\ IsFiniteSet(Holding') /\ Cardinality(Holding') \in Nat
           /\ IsFiniteSet(Reporters(k, r)') /\ Cardinality(Reporters(k, r)') \in Nat
           /\ IsFiniteSet(InFlight(k, r)') /\ Cardinality(InFlight(k, r)') \in Nat
<1>1. /\ Holding' \subseteq Callers /\ Reporters(k, r)' \subseteq Callers
      /\ InFlight(k, r)' \subseteq Callers
  BY DEF Holding, Reporters, InFlight
<1>2. IsFiniteSet(Callers)
  BY ClientAssumption
<1> QED
  BY <1>1, <1>2, FS_Subset, FS_CardinalityType

\* Those who hold the news and those who will be refused hold a permit each.
LEMMA NewsIsInBudget ==
    ASSUME TypeOK, PermitsAreHeld, NEW k \in Keys, NEW r \in Resources, News(k, r)
    PROVE  Budget(k, r)
<1> DEFINE R == Reporters(k, r)
           F == InFlight(k, r)
<1>1. R \cup F \subseteq Holding /\ R \cap F = {}
  BY DEF Holding, Reporters, InFlight
<1>2. /\ IsFiniteSet(R) /\ IsFiniteSet(F) /\ IsFiniteSet(Holding)
      /\ Cardinality(R) \in Nat /\ Cardinality(F) \in Nat /\ Cardinality(Holding) \in Nat
  BY CallersAreCounted
<1>3. site[k][r] \in Site
  BY TypesOfRecords
<1> HIDE DEF R, F
<1>4. Cardinality(R \cup F) = Cardinality(R) + Cardinality(F)
  BY <1>1, <1>2, FS_Union, FS_EmptySet
<1>5. Cardinality(R \cup F) <= Cardinality(Holding)
  BY <1>1, <1>2, FS_Subset
<1>6. Cardinality(R) + Cardinality(F) <= Permits
  BY <1>2, <1>4, <1>5, ClientAssumption DEF PermitsAreHeld
<1>7. 1 + site[k][r].refused <= Cardinality(R) + site[k][r].lost
  BY DEF News, R
<1>8. site[k][r].refused \in Nat /\ site[k][r].lost \in Nat /\ Permits \in Nat
  BY <1>3, ClientAssumption DEF Site
<1>9. 1 + site[k][r].refused + Cardinality(F) <= Permits + site[k][r].lost
  BY <1>2, <1>6, <1>7, <1>8
<1> QED
  BY <1>9 DEF Budget, F

\* A step that leaves a window alone, and neither lets another request for it go nor takes
\* the news from a caller.
LEMMA WindowStaysHeld ==
    ASSUME NEW k \in Keys, NEW r \in Resources,
           News(k, r) \/ (Blocked(k, r) /\ Budget(k, r)),
           site'[k][r] = site[k][r], site[k][r] \in Site,
           \/ Reporters(k, r) \subseteq Reporters(k, r)'
           \/ /\ Blocked(k, r)' /\ Budget(k, r) /\ InFlight(k, r)' \subseteq InFlight(k, r),
           Blocked(k, r) => Blocked(k, r)' /\ InFlight(k, r)' \subseteq InFlight(k, r)
    PROVE  News(k, r)' \/ (Blocked(k, r)' /\ Budget(k, r)')
<1>1. site[k][r].refused \in Nat /\ site[k][r].lost \in Nat /\ Permits \in Nat
  BY ClientAssumption DEF Site
<1>2. ASSUME Reporters(k, r) \subseteq Reporters(k, r)', News(k, r)
      PROVE  News(k, r)'
  <2>1. Cardinality(Reporters(k, r)) <= Cardinality(Reporters(k, r)')
    BY <1>2, CallersAreCountedNext, FS_Subset
  <2>2. Cardinality(Reporters(k, r)) \in Nat /\ Cardinality(Reporters(k, r)') \in Nat
    BY CallersAreCounted, CallersAreCountedNext
  <2> QED
    BY <1>1, <1>2, <2>1, <2>2 DEF News
<1>3. ASSUME InFlight(k, r)' \subseteq InFlight(k, r), Budget(k, r)
      PROVE  Budget(k, r)'
  <2>1. Cardinality(InFlight(k, r)') <= Cardinality(InFlight(k, r))
    BY <1>3, CallersAreCounted, FS_Subset
  <2>2. Cardinality(InFlight(k, r)) \in Nat /\ Cardinality(InFlight(k, r)') \in Nat
    BY CallersAreCounted, CallersAreCountedNext
  <2> QED
    BY <1>1, <1>3, <2>1, <2>2 DEF Budget
<1> QED
  BY <1>2, <1>3

(***************************************************************************)
(* The steps.                                                              *)
(***************************************************************************)

LEMMA InvariantHoldsFirst == Init => IInv
<1> SUFFICES ASSUME Init PROVE IInv
  OBVIOUS
<1> DEFINE any == CHOOSE r \in Resources : TRUE
<1>1. any \in Resources
  BY ClientAssumption
<1> HIDE DEF any
<1>2. Idle(any) \in Caller /\ Idle(any).pc = "idle"
  BY <1>1, IdleIsCaller
<1>3. caller = [c \in Callers |-> Idle(any)]
  BY DEF Init, any
<1>4. caller \in [Callers -> Caller] /\ \A c \in Callers : caller[c].pc = "idle"
  BY <1>2, <1>3
<1>5. site \in [Keys -> [Resources -> Site]]
      /\ \A k \in Keys : \A r \in Resources : site[k][r] = Fresh
  BY ClientAssumption DEF Init, Fresh, Site
<1>6. bucket \in [Resources -> Bucket] /\ secondary \in 0..Longest
  BY LongestIsLongest, ClientAssumption DEF Init, NoBucket, Bucket
<1>7. valid \subseteq Usable /\ turn \in DOMAIN Slots
  BY SlotsAreNumbered DEF Init
<1>8. TypeOK
  <2>1. unusable \in BOOLEAN
    BY DEF Init
  <2>2. revoked \subseteq Keys /\ rejected \subseteq revoked
    BY DEF Init
  <2>3. asked \in 0..MaxRequests /\ faults \in 0..MaxFaults
    BY ClientAssumption DEF Init
  <2>4. \A c \in Callers : caller[c].pc \in {"sent", "answered", "body"} => caller[c].slot \in Usable
    BY <1>4
  <2> QED
    BY <1>4, <1>5, <1>6, <1>7, <2>1, <2>2, <2>3, <2>4 DEF TypeOK, Caller, Site
<1>9. PermitsAreHeld
  <2>1. Holding = {}
    BY <1>4 DEF Holding
  <2> QED
    BY <2>1, FS_EmptySet, ClientAssumption DEF PermitsAreHeld
<1>10. ValidIsAccepted /\ UnauthorizedIsRevoked
  BY <1>4 DEF Init, ValidIsAccepted, UnauthorizedIsRevoked
<1>11. WindowsRun /\ RefusalsAreHeld
  BY <1>5, ClientAssumption DEF WindowsRun, RefusalsAreHeld, Fresh
<1> QED
  BY <1>8, <1>9, <1>10, <1>11 DEF IInv

\* A caller that neither has a request under way nor an answer goes where it has none.
LEMMA QuietKeepsInvariant ==
    ASSUME IInv, NEW c \in Callers, UNCHANGED <<pool, github, rejected>>,
           NEW x \in Caller, caller' = [caller EXCEPT ![c] = x],
           x.pc \in {"idle", "queued", "ready"}, caller[c].pc \notin {"sent", "answered"},
           asked' \in 0..MaxRequests, faults' \in 0..MaxFaults,
           PermitsAreHeld'
    PROVE  IInv'
<1>1. /\ UNCHANGED <<valid, turn, bucket, secondary, unusable, site, revoked, rejected>>
      /\ TypeOK
  BY DEF pool, github, IInv
<1>2. /\ caller' \in [Callers -> Caller] /\ caller'[c] = x
      /\ \A d \in Callers : d # c => caller'[d] = caller[d]
  BY <1>1, TypesOfRecords
<1>3. TypeOK'
  BY <1>1, <1>2 DEF TypeOK, Caller
<1>4. \A k \in Keys : \A r \in Resources :
          InFlight(k, r)' = InFlight(k, r) /\ Reporters(k, r)' = Reporters(k, r)
  BY <1>1, <1>2 DEF InFlight, Reporters
<1>5. ValidIsAccepted' /\ UnauthorizedIsRevoked' /\ WindowsRun'
  BY <1>1, <1>2 DEF IInv, ValidIsAccepted, UnauthorizedIsRevoked, WindowsRun
<1>6. RefusalsAreHeld'
  BY <1>1, <1>4 DEF IInv, RefusalsAreHeld, News, Blocked, Budget
<1> QED
  BY <1>3, <1>5, <1>6 DEF IInv

LEMMA PermitsStayHeld ==
    ASSUME IInv, Holding' \subseteq Holding
    PROVE  PermitsAreHeld'
<1>1. IsFiniteSet(Holding) /\ Cardinality(Holding') <= Cardinality(Holding)
  BY CallersAreCounted, FS_Subset
<1>2. Cardinality(Holding) \in Nat /\ Cardinality(Holding') \in Nat
  BY CallersAreCounted, CallersAreCountedNext
<1> QED
  BY <1>1, <1>2, ClientAssumption DEF IInv, PermitsAreHeld

LEMMA AskKeepsInvariant ==
    ASSUME IInv, NEW c \in Callers, NEW r \in Resources, Ask(c, r)
    PROVE  IInv'
<1> DEFINE x == [Idle(r) EXCEPT !.pc = "queued"]
<1>1. /\ UNCHANGED <<pool, github, rejected>> /\ caller' = [caller EXCEPT ![c] = x]
      /\ caller[c].pc = "idle"
  BY DEF Ask
<1>2. x \in Caller /\ x.pc = "queued"
  BY IdleIsCaller DEF Caller, Stages
<1> HIDE DEF x
<1>3. asked' \in 0..MaxRequests /\ faults' \in 0..MaxFaults
  BY ClientAssumption DEF Ask, IInv, TypeOK
<1>4. Holding' \subseteq Holding
  BY <1>1, <1>2, TypesOfRecords DEF Holding, IInv
<1> QED
  BY <1>1, <1>2, <1>3, <1>4, PermitsStayHeld, QuietKeepsInvariant

LEMMA AcquireKeepsInvariant ==
    ASSUME IInv, NEW c \in Callers, Acquire(c)
    PROVE  IInv'
<1> DEFINE x == [caller[c] EXCEPT !.pc = "ready"]
<1>1. /\ UNCHANGED <<pool, github, rejected, asked, faults>> /\ caller' = [caller EXCEPT ![c] = x]
      /\ caller[c].pc = "queued" /\ Cardinality(Holding) < Permits
  BY DEF Acquire
<1>2. x \in Caller /\ x.pc = "ready"
  BY TypesOfRecords DEF Caller, Stages, IInv
<1> HIDE DEF x
<1>3. asked' \in 0..MaxRequests /\ faults' \in 0..MaxFaults
  BY <1>1 DEF IInv, TypeOK
<1>4. PermitsAreHeld'
  <2>1. Holding' \subseteq Holding \cup {c}
    BY <1>1, <1>2, TypesOfRecords DEF Holding, IInv
  <2>2. /\ IsFiniteSet(Holding \cup {c}) /\ Cardinality(Holding) \in Nat
        /\ \/ Cardinality(Holding \cup {c}) = Cardinality(Holding)
           \/ Cardinality(Holding \cup {c}) = Cardinality(Holding) + 1
    <3>1. IsFiniteSet(Holding) /\ Cardinality(Holding) \in Nat
      BY CallersAreCounted
    <3>2. /\ IsFiniteSet(Holding \cup {c})
          /\ \/ Cardinality(Holding \cup {c}) = Cardinality(Holding)
             \/ Cardinality(Holding \cup {c}) = Cardinality(Holding) + 1
      BY <3>1, FS_AddElement, Zenon
    <3> QED
      BY <3>1, <3>2
  <2>3. Cardinality(Holding') <= Cardinality(Holding \cup {c}) /\ Cardinality(Holding') \in Nat
    BY <2>1, <2>2, FS_Subset, CallersAreCountedNext
  <2> QED
    BY <1>1, <2>2, <2>3, ClientAssumption DEF PermitsAreHeld
<1> QED
  BY <1>1, <1>2, <1>3, <1>4, QuietKeepsInvariant

\* A refusal, and the end of a request.
LEMMA RefuseKeepsInvariant ==
    ASSUME IInv, NEW c \in Callers, Refuse(c) \/ Finish(c)
    PROVE  IInv'
<1> DEFINE x == Idle(caller[c].resource)
<1>1. /\ UNCHANGED <<pool, github, rejected, asked, faults>> /\ caller' = [caller EXCEPT ![c] = x]
      /\ caller[c].pc \in {"ready", "body"}
  BY DEF Refuse, Finish
<1>2. caller[c].resource \in Resources
  BY TypesOfRecords DEF Caller, IInv
<1>3. x \in Caller /\ x.pc = "idle"
  BY <1>2, IdleIsCaller
<1> HIDE DEF x
<1>4. asked' \in 0..MaxRequests /\ faults' \in 0..MaxFaults
  BY <1>1 DEF IInv, TypeOK
<1>5. Holding' \subseteq Holding
  BY <1>1, <1>3, TypesOfRecords DEF Holding, IInv
<1> QED
  BY <1>1, <1>3, <1>4, <1>5, PermitsStayHeld, QuietKeepsInvariant

LEMMA SleepKeepsInvariant ==
    ASSUME IInv, NEW c \in Callers, Sleep(c)
    PROVE  IInv'
<1> DEFINE t == PoolWait(caller[c].resource)
           x == [caller[c] EXCEPT !.wake = t]
<1>1. /\ UNCHANGED <<pool, github, rejected, asked, faults>> /\ caller' = [caller EXCEPT ![c] = x]
      /\ caller[c].pc = "ready"
  BY DEF Sleep
<1>2. t \in 0..Longest /\ caller[c] \in Caller
  <2>1. caller[c] \in Caller /\ TypeOK
    BY TypesOfRecords DEF IInv
  <2>2. caller[c].resource \in Resources
    BY <2>1 DEF Caller
  <2> QED
    BY <2>1, <2>2, PoolWaitForbids
<1> HIDE DEF t
<1>3. x \in Caller /\ x.pc = "ready"
  BY <1>1, <1>2 DEF Caller
<1> HIDE DEF x
<1>4. asked' \in 0..MaxRequests /\ faults' \in 0..MaxFaults
  BY <1>1 DEF IInv, TypeOK
<1>5. Holding' \subseteq Holding
  BY <1>1, <1>3, TypesOfRecords DEF Holding, IInv
<1> QED
  BY <1>1, <1>3, <1>4, <1>5, PermitsStayHeld, QuietKeepsInvariant

LEMMA ReserveKeepsInvariant ==
    ASSUME IInv, NEW c \in Callers, Reserve(c)
    PROVE  IInv'
<1> DEFINE s == caller[c].resource
           left == Max({0, bucket[s].remaining - 1})
           x == [caller[c] EXCEPT !.pc = "sent", !.slot = NextSlot]
<1>1. /\ TypeOK /\ caller[c] \in Caller /\ s \in Resources /\ bucket[s] \in Bucket
      /\ caller[c].pc = "ready" /\ valid # {} /\ PoolWait(s) = 0
  BY TypesOfRecords DEF IInv, Caller, Reserve
<1>2. /\ UNCHANGED <<valid, secondary, unusable, site, revoked, rejected, asked, faults>>
      /\ bucket' = [bucket EXCEPT ![s].remaining = left]
      /\ turn' = (NextSlot % Len(Slots)) + 1
      /\ caller' = [caller EXCEPT ![c] = x]
  BY <1>1, TypesOfRecords DEF Reserve, github, Caller
<1>3. NextSlot \in valid /\ NextSlot \in Usable /\ NextSlot \in 1..Len(Slots)
  BY <1>1, NextSlotIsValid, SlotsAreNumbered DEF TypeOK
<1>4. turn' \in DOMAIN Slots
  BY <1>2, <1>3, SlotsAreNumbered
<1>5. x \in Caller /\ x.pc = "sent" /\ x.slot = NextSlot
  <2>1. NextSlot \in 0..Len(Slots) /\ "sent" \in Stages
    BY <1>3 DEF Stages
  <2> QED
    BY <1>1, <2>1 DEF Caller
<1>6. left \in 0..Quota
  <2>1. bucket[s].remaining \in 0..Quota /\ Quota \in Nat
    BY <1>1, ClientAssumption DEF Bucket
  <2> DEFINE a == bucket[s].remaining - 1
  <2>2. a \in Int /\ left = Max({0, a})
    BY <2>1
  <2>3. a <= Quota
    BY <2>1
  <2> HIDE DEF a, left
  <2>4. left \in {0, a} /\ left >= 0
    BY <2>2, NotBelowZero
  <2> QED
    BY <2>1, <2>2, <2>3, <2>4
<1> HIDE DEF x, left
<1>7. /\ bucket' \in [Resources -> Bucket]
      /\ \A r \in Resources : r # s => bucket'[r] = bucket[r]
  <2>1. [bucket[s] EXCEPT !.remaining = left] \in Bucket
    BY <1>1, <1>6 DEF Bucket
  <2>2. bucket' = [bucket EXCEPT ![s] = [bucket[s] EXCEPT !.remaining = left]]
    BY <1>2
  <2> QED
    BY <1>1, <2>1, <2>2, TypesOfRecords
<1>8. /\ caller' \in [Callers -> Caller] /\ caller'[c] = x
      /\ \A d \in Callers : d # c => caller'[d] = caller[d]
  BY <1>1, <1>2, <1>5, TypesOfRecords
<1>9. TypeOK'
  <2>1. \A d \in Callers :
            caller'[d].pc \in {"sent", "answered", "body"} => caller'[d].slot \in Usable
    BY <1>1, <1>3, <1>5, <1>8 DEF TypeOK
  <2> QED
    BY <1>1, <1>2, <1>4, <1>7, <1>8, <2>1 DEF TypeOK, Caller
<1>10. Holding' = Holding
  BY <1>1, <1>5, <1>8 DEF Holding
<1>11. PermitsAreHeld'
  BY <1>10, PermitsStayHeld
<1>12. ValidIsAccepted' /\ UnauthorizedIsRevoked' /\ WindowsRun'
  BY <1>2, <1>5, <1>8 DEF IInv, ValidIsAccepted, UnauthorizedIsRevoked, WindowsRun
<1>13. RefusalsAreHeld'
  <2> SUFFICES ASSUME NEW k \in Keys, NEW r \in Resources, site[k][r].left = 0
               PROVE  News(k, r)' \/ (Blocked(k, r)' /\ Budget(k, r)')
    BY <1>2 DEF RefusalsAreHeld
  <2>1. News(k, r) \/ (Blocked(k, r) /\ Budget(k, r))
    BY DEF IInv, RefusalsAreHeld
  <2>2. site[k][r] \in Site /\ site'[k][r] = site[k][r]
    BY <1>1, <1>2, TypesOfRecords
  <2>3. Reporters(k, r) \subseteq Reporters(k, r)'
    BY <1>1, <1>2, <1>8 DEF Reporters
  <2>4. ASSUME Blocked(k, r)
        PROVE  Blocked(k, r)' /\ InFlight(k, r)' \subseteq InFlight(k, r)
    <3>1. r # s
      <4>1. site[k][r].window > 0 /\ site[k][r].window \in Nat
        BY <2>2, ClientAssumption DEF IInv, WindowsRun, Site
      <4>2. bucket[r].remaining = 0 /\ bucket[r].reset >= site[k][r].window
        BY <2>4 DEF Blocked
      <4>3. bucket[s].remaining = 0 => bucket[s].reset = 0
        BY <1>1, PoolWaitForbids
      <4> QED
        BY <4>1, <4>2, <4>3
    <3>2. bucket'[r] = bucket[r]
      BY <1>7, <3>1
    <3>3. x.resource = s
      BY <1>1 DEF x, Caller
    <3> QED
      BY <1>8, <2>2, <2>4, <3>1, <3>2, <3>3 DEF Blocked, InFlight
  <2> QED
    BY <2>1, <2>2, <2>3, <2>4, WindowStaysHeld
<1> QED
  BY <1>9, <1>11, <1>12, <1>13 DEF IInv

LEMMA RevokeKeepsInvariant ==
    ASSUME IInv, NEW k \in Keys, Revoke(k)
    PROVE  IInv'
<1>1. /\ UNCHANGED <<valid, turn, bucket, secondary, unusable, caller, site, rejected, asked>>
      /\ revoked' = revoked \cup {k} /\ faults' = faults + 1 /\ faults < MaxFaults /\ TypeOK
  BY DEF Revoke, pool, IInv
<1>2. faults' \in 0..MaxFaults
  BY <1>1, ClientAssumption DEF TypeOK
<1>3. TypeOK'
  BY <1>1, <1>2 DEF TypeOK
<1>4. PermitsAreHeld' /\ ValidIsAccepted' /\ UnauthorizedIsRevoked' /\ WindowsRun'
  BY <1>1 DEF IInv, PermitsAreHeld, Holding, ValidIsAccepted, UnauthorizedIsRevoked, WindowsRun
<1>5. RefusalsAreHeld'
  <2>1. \A i \in Keys : \A r \in Resources :
            InFlight(i, r)' = InFlight(i, r) /\ Reporters(i, r)' = Reporters(i, r)
    BY <1>1 DEF InFlight, Reporters
  <2> QED
    BY <1>1, <2>1 DEF IInv, RefusalsAreHeld, News, Blocked, Budget
<1> QED
  BY <1>3, <1>4, <1>5 DEF IInv

\* An answer that arrives, or news that is lost with the request that asked for it.
LEMMA ChargeIsSite ==
    ASSUME NEW k \in Keys, NEW r \in Resources, site[k][r] \in Site
    PROVE  /\ Charge(k, r) \in Site
           /\ Charge(k, r).lost = site[k][r].lost /\ Charge(k, r).window > 0
           /\ site[k][r].left = 0 =>
                 Charge(k, r).left = 0 /\ Charge(k, r).refused = site[k][r].refused + 1
           /\ site[k][r].left > 0 =>
                 /\ Charge(k, r).left = site[k][r].left - 1
                 /\ Charge(k, r).refused = site[k][r].refused
           /\ site[k][r].window > 0 => Charge(k, r).window = site[k][r].window
<1> DEFINE w == site[k][r]
           a == w.left - 1
           left == Max({0, a})
           window == IF w.window = 0 THEN Window ELSE w.window
           refused == IF w.left = 0 THEN w.refused + 1 ELSE w.refused
<1>1. w.left \in 0..Quota /\ w.window \in 0..Window /\ w.refused \in Nat /\ w.lost \in Nat
  BY DEF Site
<1>2. Charge(k, r) = [w EXCEPT !.left = left, !.window = window, !.refused = refused]
  BY DEF Charge
<1>3. window \in 0..Window /\ window > 0 /\ refused \in Nat
      /\ (w.window > 0 => window = w.window)
      /\ (w.left = 0 => refused = w.refused + 1) /\ (w.left > 0 => refused = w.refused)
  BY <1>1, ClientAssumption
<1>4. left \in 0..Quota /\ (w.left = 0 => left = 0) /\ (w.left > 0 => left = w.left - 1)
  <2>1. a \in Int /\ left = Max({0, a})
    BY <1>1
  <2>2. Quota \in Nat
    BY ClientAssumption
  <2> HIDE DEF a, left
  <2>3. left \in {0, a} /\ left >= 0 /\ left >= a
    BY <2>1, NotBelowZero
  <2> USE DEF a
  <2>4. CASE w.left = 0
    BY <1>1, <2>2, <2>3, <2>4
  <2>5. CASE w.left > 0
    BY <1>1, <2>2, <2>3, <2>5
  <2> QED
    BY <1>1, <2>4, <2>5
<1> HIDE DEF w, left, window, refused
<1>5. w \in Site
  BY DEF w
<1>6. /\ Charge(k, r) \in Site /\ Charge(k, r).left = left /\ Charge(k, r).window = window
      /\ Charge(k, r).refused = refused /\ Charge(k, r).lost = w.lost
  BY <1>2, <1>3, <1>4, <1>5 DEF Site
<1> QED
  BY <1>1, <1>3, <1>4, <1>6 DEF w

\* A request that is served, one that meets a fault, and one that is given up: the callers
\* change by one, and what the pool knows is what it was.
LEMMA AnswerKeepsTypes ==
    ASSUME TypeOK, NEW c \in Callers, NEW x \in Caller, caller' = [caller EXCEPT ![c] = x],
           x.pc \in {"sent", "answered", "body"} => x.slot \in Usable,
           UNCHANGED <<pool, revoked, rejected, asked>>,
           site' \in [Keys -> [Resources -> Site]], faults' \in 0..MaxFaults
    PROVE  /\ TypeOK' /\ caller'[c] = x
           /\ \A d \in Callers : d # c => caller'[d] = caller[d]
<1>1. /\ caller' \in [Callers -> Caller] /\ caller'[c] = x
      /\ \A d \in Callers : d # c => caller'[d] = caller[d]
  BY TypesOfRecords
<1>2. \A d \in Callers : caller'[d].pc \in {"sent", "answered", "body"} => caller'[d].slot \in Usable
  BY <1>1 DEF TypeOK
<1> QED
  BY <1>1, <1>2 DEF TypeOK, Caller, Site, pool

LEMMA SilentKeepsInvariant ==
    ASSUME IInv, NEW c \in Callers, NEW x \in Caller, caller' = [caller EXCEPT ![c] = x],
           caller[c].pc # "answered", x.pc \in {"idle", "answered"}, Holding' \subseteq Holding,
           x.pc = "answered" =>
               /\ x.slot \in Usable
               /\ x.answer.status = "unauthorized" => Slots[x.slot] \in revoked,
           UNCHANGED <<pool, site, revoked, rejected, asked>>, faults' \in 0..MaxFaults
    PROVE  IInv'
<1>1. TypeOK /\ site' \in [Keys -> [Resources -> Site]]
  BY TypesOfRecords DEF IInv
<1>2. x.pc \in {"sent", "answered", "body"} => x.slot \in Usable
  OBVIOUS
<1>3. /\ TypeOK' /\ caller'[c] = x
      /\ \A d \in Callers : d # c => caller'[d] = caller[d]
  BY <1>1, <1>2, AnswerKeepsTypes
<1>4. /\ UNCHANGED <<valid, turn, bucket, secondary, unusable, site, revoked, rejected>>
  BY DEF pool
<1>5. PermitsAreHeld'
  BY PermitsStayHeld
<1>6. ValidIsAccepted' /\ WindowsRun'
  BY <1>4 DEF IInv, ValidIsAccepted, WindowsRun
<1>7. UnauthorizedIsRevoked'
  BY <1>3, <1>4 DEF IInv, UnauthorizedIsRevoked
<1>8. RefusalsAreHeld'
  <2> SUFFICES ASSUME NEW k \in Keys, NEW r \in Resources, site[k][r].left = 0
               PROVE  News(k, r)' \/ (Blocked(k, r)' /\ Budget(k, r)')
    BY <1>4 DEF RefusalsAreHeld
  <2>1. News(k, r) \/ (Blocked(k, r) /\ Budget(k, r))
    BY DEF IInv, RefusalsAreHeld
  <2>2. site[k][r] \in Site /\ site'[k][r] = site[k][r]
    BY <1>1, <1>4, TypesOfRecords
  <2>3. Reporters(k, r) \subseteq Reporters(k, r)'
    BY <1>3, <1>4 DEF Reporters
  <2>4. Blocked(k, r) => Blocked(k, r)' /\ InFlight(k, r)' \subseteq InFlight(k, r)
    BY <1>3, <1>4 DEF Blocked, InFlight
  <2> QED
    BY <2>1, <2>2, <2>3, <2>4, WindowStaysHeld
<1> QED
  BY <1>3, <1>5, <1>6, <1>7, <1>8 DEF IInv

\* The window a caller's request is for.
LEMMA WindowOfCaller ==
    ASSUME IInv, NEW c \in Callers, caller[c].pc \in {"sent", "answered", "body"}
    PROVE  /\ caller[c] \in Caller /\ caller[c].resource \in Resources
           /\ caller[c].slot \in Usable /\ Slots[caller[c].slot] \in Keys
           /\ site[Slots[caller[c].slot]][caller[c].resource] \in Site
<1>1. TypeOK /\ caller[c] \in Caller
  BY TypesOfRecords DEF IInv
<1>2. caller[c].resource \in Resources /\ caller[c].slot \in Usable
  BY <1>1 DEF TypeOK, Caller
<1>3. Slots[caller[c].slot] \in Keys
  BY <1>2 DEF Keys
<1> QED
  BY <1>1, <1>2, <1>3, TypesOfRecords

LEMMA SiteIsNumbers ==
    ASSUME NEW w \in Site
    PROVE  w.left \in Nat /\ w.window \in Nat /\ w.refused \in Nat /\ w.lost \in Nat
BY ClientAssumption DEF Site

\* A request is charged and its caller has what GitHub said.
LEMMA ChargeKeepsInvariant ==
    ASSUME IInv, NEW c \in Callers, NEW k \in Keys, NEW r \in Resources, NEW x \in Caller,
           caller[c].pc = "sent", caller[c].resource = r, Slots[caller[c].slot] = k,
           caller' = [caller EXCEPT ![c] = x],
           x.pc = "answered", x.resource = r, x.slot = caller[c].slot,
           x.answer.status = IF site[k][r].left = 0 THEN "refused" ELSE "ok",
           x.answer.about = r, x.answer.remaining = Charge(k, r).left,
           x.answer.reset = Charge(k, r).window,
           site' = [site EXCEPT ![k][r] = Charge(k, r)],
           UNCHANGED <<pool, revoked, rejected, asked, faults>>
    PROVE  IInv'
<1>1. /\ TypeOK /\ site[k][r] \in Site /\ caller[c].slot \in Usable
      /\ Charge(k, r) \in Site /\ faults' \in 0..MaxFaults
  BY TypesOfRecords, ChargeIsSite, WindowOfCaller DEF IInv, TypeOK
<1>2. /\ site' \in [Keys -> [Resources -> Site]] /\ site'[k][r] = Charge(k, r)
      /\ \A i \in Keys : \A q \in Resources : i # k \/ q # r => site'[i][q] = site[i][q]
  BY <1>1, TypesOfRecords
<1>3. /\ TypeOK' /\ caller'[c] = x
      /\ \A d \in Callers : d # c => caller'[d] = caller[d]
  BY <1>1, <1>2, AnswerKeepsTypes
<1>4. UNCHANGED <<valid, turn, bucket, secondary, unusable, revoked, rejected>>
  BY DEF pool
<1>5. PermitsAreHeld'
  <2>1. Holding' \subseteq Holding
    BY <1>3 DEF Holding
  <2> QED
    BY <2>1, PermitsStayHeld
<1>6. ValidIsAccepted' /\ UnauthorizedIsRevoked'
  BY <1>3, <1>4 DEF IInv, ValidIsAccepted, UnauthorizedIsRevoked
<1>7. WindowsRun'
  <2> SUFFICES ASSUME NEW i \in Keys, NEW q \in Resources
               PROVE  /\ site'[i][q].left < Quota => site'[i][q].window > 0
                      /\ site'[i][q].left > 0 => site'[i][q].refused = 0
    BY DEF WindowsRun
  <2>1. CASE i = k /\ q = r
    <3>1. site'[i][q] = Charge(k, r) /\ site[k][r].left \in Nat
      BY <1>1, <1>2, <2>1, ClientAssumption DEF Site
    <3>2. site[k][r].left > 0 => site[k][r].refused = 0
      BY DEF IInv, WindowsRun
    <3> QED
      BY <1>1, <3>1, <3>2, ChargeIsSite
  <2>2. CASE i # k \/ q # r
    BY <1>2, <2>2 DEF IInv, WindowsRun
  <2> QED
    BY <2>1, <2>2
<1>8. ASSUME NEW i \in Keys, NEW q \in Resources, i # k \/ q # r, site[i][q].left = 0
      PROVE  News(i, q)' \/ (Blocked(i, q)' /\ Budget(i, q)')
  <2>1. News(i, q) \/ (Blocked(i, q) /\ Budget(i, q))
    BY <1>8 DEF IInv, RefusalsAreHeld
  <2>2. site[i][q] \in Site /\ site'[i][q] = site[i][q]
    BY <1>1, <1>2, <1>8, TypesOfRecords
  <2>3. Reporters(i, q) \subseteq Reporters(i, q)'
    BY <1>3, <2>2 DEF Reporters
  <2>4. Blocked(i, q) => Blocked(i, q)' /\ InFlight(i, q)' \subseteq InFlight(i, q)
    BY <1>3, <1>4, <2>2 DEF Blocked, InFlight
  <2> QED
    BY <1>8, <2>1, <2>2, <2>3, <2>4, WindowStaysHeld
<1>9. ASSUME Charge(k, r).left = 0
      PROVE  News(k, r)' \/ (Blocked(k, r)' /\ Budget(k, r)')
  <2> DEFINE n == Cardinality(Reporters(k, r)')
             m == Cardinality(Reporters(k, r))
  <2>1. /\ site[k][r].left \in Nat /\ site[k][r].refused \in Nat /\ site[k][r].lost \in Nat
        /\ site[k][r].window \in Nat /\ Quota \in Nat /\ Permits \in Nat
    BY <1>1, SiteIsNumbers, ClientAssumption
  <2>2. c \in Reporters(k, r)'
    <3>1. caller'[c].answer.reset >= site'[k][r].window
      BY <1>1, <1>2, <1>3, ClientAssumption DEF Site
    <3>2. caller'[c].answer.status \in {"ok", "refused"}
      BY <1>3
    <3> QED
      BY <1>3, <1>9, <3>1, <3>2 DEF Reporters
  <2>3. /\ n \in Nat /\ IsFiniteSet(Reporters(k, r)')
        /\ m \in Nat /\ IsFiniteSet(Reporters(k, r))
    BY CallersAreCounted, CallersAreCountedNext
  <2>4. n >= 1
    BY <2>2, <2>3, FS_EmptySet
  <2>5. CASE site[k][r].left > 0
    <3>1. site[k][r].refused = 0
      BY <2>5 DEF IInv, WindowsRun
    <3>2. site'[k][r].refused = 0 /\ site'[k][r].lost = site[k][r].lost
      BY <1>1, <1>2, <2>5, <3>1, ChargeIsSite
    <3>3. News(k, r)'
      BY <2>1, <2>3, <2>4, <3>2 DEF News
    <3> QED
      BY <3>3
  <2>6. CASE site[k][r].left = 0
    <3>1. /\ site'[k][r].refused = site[k][r].refused + 1
          /\ site'[k][r].lost = site[k][r].lost
      BY <1>1, <1>2, <2>6, ChargeIsSite
    <3>2. site'[k][r].window = site[k][r].window
      <4>1. Quota > 0
        BY ClientAssumption
      <4>2. site[k][r].window > 0
        BY <2>1, <2>6, <4>1 DEF IInv, WindowsRun
      <4> QED
        BY <1>1, <1>2, <4>2, ChargeIsSite
    <3>3. News(k, r) \/ (Blocked(k, r) /\ Budget(k, r))
      BY <2>6 DEF IInv, RefusalsAreHeld
    <3>4. CASE News(k, r)
      <4>1. Reporters(k, r) \cup {c} \subseteq Reporters(k, r)' /\ c \notin Reporters(k, r)
        BY <1>3, <2>2, <3>2 DEF Reporters
      <4>2. Cardinality(Reporters(k, r) \cup {c}) = m + 1 /\ IsFiniteSet(Reporters(k, r) \cup {c})
        BY <2>3, <4>1, FS_AddElement, Zenon
      <4>3. Cardinality(Reporters(k, r) \cup {c}) <= n
        BY <2>3, <4>1, FS_Subset
      <4>4. m + 1 <= n
        BY <4>2, <4>3
      <4>5. News(k, r)'
        BY <2>1, <2>3, <3>1, <3>4, <4>4 DEF News
      <4> QED
        BY <4>5
    <3>5. CASE Blocked(k, r) /\ Budget(k, r)
      <4> DEFINE f == Cardinality(InFlight(k, r))
                 g == Cardinality(InFlight(k, r)')
      <4>1. InFlight(k, r)' = InFlight(k, r) \ {c} /\ c \in InFlight(k, r)
        BY <1>3 DEF InFlight
      <4>2. IsFiniteSet(InFlight(k, r)) /\ f \in Nat /\ g \in Nat
        BY CallersAreCounted, CallersAreCountedNext
      <4>3. g = f - 1
        BY <4>1, <4>2, FS_RemoveElement
      <4>4. Budget(k, r)'
        BY <2>1, <3>1, <3>5, <4>2, <4>3 DEF Budget
      <4>5. Blocked(k, r)'
        BY <1>4, <3>2, <3>5 DEF Blocked
      <4> QED
        BY <4>4, <4>5
    <3> QED
      BY <3>3, <3>4, <3>5
  <2> QED
    BY <2>1, <2>5, <2>6
<1>10. RefusalsAreHeld'
  <2> SUFFICES ASSUME NEW i \in Keys, NEW q \in Resources, site'[i][q].left = 0
               PROVE  News(i, q)' \/ (Blocked(i, q)' /\ Budget(i, q)')
    BY DEF RefusalsAreHeld
  <2>1. CASE i = k /\ q = r
    BY <1>2, <1>9, <2>1
  <2>2. CASE i # k \/ q # r
    BY <1>2, <1>8, <2>2
  <2> QED
    BY <2>1, <2>2
<1> QED
  BY <1>3, <1>5, <1>6, <1>7, <1>10 DEF IInv

LEMMA ServeKeepsInvariant ==
    ASSUME IInv, NEW c \in Callers, Serve(c)
    PROVE  IInv'
<1> DEFINE r == caller[c].resource
           k == Slots[caller[c].slot]
           after == Charge(k, r)
<1>1. /\ caller[c].pc = "sent" /\ caller[c] \in Caller /\ r \in Resources
      /\ caller[c].slot \in Usable /\ k \in Keys /\ site[k][r] \in Site
  BY WindowOfCaller DEF Serve
<1>2. UNCHANGED <<pool, revoked, rejected, asked>>
  BY DEF Serve
<1>3. after \in Site
  BY <1>1, ChargeIsSite
<1>4. faults \in 0..MaxFaults
  BY DEF IInv, TypeOK
<1>5. ASSUME NEW a \in Answer, caller' = [caller EXCEPT ![c].pc = "answered", ![c].answer = a],
             a.status = "unauthorized" => k \in revoked,
             UNCHANGED site, faults' \in 0..MaxFaults
      PROVE  IInv'
  <2> DEFINE x == [caller[c] EXCEPT !.pc = "answered", !.answer = a]
  <2>1. x \in Caller /\ x.pc = "answered" /\ x.slot = caller[c].slot /\ x.answer = a
    BY <1>1 DEF Caller, Stages
  <2>2. caller' = [caller EXCEPT ![c] = x]
    BY <1>5
  <2> HIDE DEF x
  <2>3. Holding' \subseteq Holding
    BY <1>1, <2>1, <2>2, TypesOfRecords DEF Holding, IInv
  <2> QED
    BY <1>1, <1>2, <1>5, <2>1, <2>2, <2>3, SilentKeepsInvariant
<1>6. CASE k \in revoked
  <2> DEFINE a == [NoAnswer(r) EXCEPT !.status = "unauthorized"]
  <2>1. a \in Answer
    BY <1>1, NoAnswerIsAnswer DEF Answer, Statuses
  <2>2. /\ caller' = [caller EXCEPT ![c].pc = "answered", ![c].answer = a]
        /\ UNCHANGED <<site, faults>>
    BY <1>6 DEF Serve
  <2> HIDE DEF a
  <2> QED
    BY <1>4, <1>5, <1>6, <2>1, <2>2
<1>7. CASE /\ k \notin revoked /\ faults < MaxFaults /\ faults' = faults + 1 /\ UNCHANGED site
           /\ \E s \in {"abuse", "unusable"}, retry \in {Absent, 1} :
                 caller' = [caller EXCEPT ![c].pc = "answered", ![c].answer =
                               [NoAnswer(r) EXCEPT !.status = s, !.retry = retry]]
  <2>1. PICK s \in {"abuse", "unusable"}, retry \in {Absent, 1} :
            caller' = [caller EXCEPT ![c].pc = "answered", ![c].answer =
                          [NoAnswer(r) EXCEPT !.status = s, !.retry = retry]]
    BY <1>7
  <2> DEFINE a == [NoAnswer(r) EXCEPT !.status = s, !.retry = retry]
  <2>2. a \in Answer /\ a.status # "unauthorized"
    <3>1. NoAnswer(r) \in Answer /\ s \in Statuses /\ s # "unauthorized"
      BY <1>1, NoAnswerIsAnswer DEF Statuses
    <3>2. a \in Answer /\ a.status = s
      BY <3>1 DEF Answer
    <3> QED
      BY <3>1, <3>2
  <2>3. faults' \in 0..MaxFaults
    BY <1>4, <1>7, ClientAssumption
  <2> HIDE DEF a
  <2>4. caller' = [caller EXCEPT ![c].pc = "answered", ![c].answer = a]
    BY <2>1 DEF a
  <2> QED
    BY <1>5, <1>7, <2>2, <2>3, <2>4
<1>8. CASE /\ k \notin revoked /\ UNCHANGED faults /\ site' = [site EXCEPT ![k][r] = after]
           /\ caller' = [caller EXCEPT ![c].pc = "answered", ![c].answer =
                 [NoAnswer(r) EXCEPT
                     !.status = IF site[k][r].left = 0 THEN "refused" ELSE "ok",
                     !.remaining = after.left, !.reset = after.window]]
  <2> DEFINE status == IF site[k][r].left = 0 THEN "refused" ELSE "ok"
             a == [NoAnswer(r) EXCEPT !.status = status, !.remaining = after.left,
                                      !.reset = after.window]
             x == [caller[c] EXCEPT !.pc = "answered", !.answer = a]
  <2>1. status \in Statuses
    BY DEF Statuses
  <2>2. after.left \in Absent..Quota /\ after.window \in Absent..Window
    BY <1>3, ClientAssumption DEF Site, Absent
  <2> HIDE DEF status, after
  <2>3. /\ a \in Answer /\ a.status = status /\ a.about = r /\ a.remaining = after.left
        /\ a.reset = after.window
    BY <1>1, <2>1, <2>2, NoAnswerIsAnswer DEF Answer, NoAnswer
  <2>4. caller' = [caller EXCEPT ![c].pc = "answered", ![c].answer = a]
    BY <1>8 DEF status
  <2> HIDE DEF a
  <2>5. /\ x \in Caller /\ x.pc = "answered" /\ x.slot = caller[c].slot /\ x.resource = r
        /\ x.answer = a
    BY <1>1, <2>3 DEF Caller, Stages
  <2>6. caller' = [caller EXCEPT ![c] = x]
    BY <2>4
  <2> HIDE DEF x
  <2>7. /\ x.answer.status = IF site[k][r].left = 0 THEN "refused" ELSE "ok"
        /\ x.answer.about = r /\ x.answer.remaining = Charge(k, r).left
        /\ x.answer.reset = Charge(k, r).window
    BY <2>3, <2>5 DEF status, after
  <2>8. site' = [site EXCEPT ![k][r] = Charge(k, r)]
    BY <1>8 DEF after
  <2>9. UNCHANGED <<pool, revoked, rejected, asked, faults>>
    BY <1>2, <1>8
  <2> HIDE DEF k, r
  <2>10. r = caller[c].resource /\ k = Slots[caller[c].slot]
    BY DEF k, r
  <2> QED
    BY <1>1, <2>5, <2>6, <2>7, <2>8, <2>9, <2>10, ChargeKeepsInvariant
<1> QED
  BY <1>6, <1>7, <1>8 DEF Serve

LEMMA NotBelowOne ==
    ASSUME NEW a \in Int
    PROVE  Max({1, a}) \in {1, a} /\ Max({1, a}) >= 1 /\ Max({1, a}) >= a
<1> DEFINE z == 1
<1>1. z \in Int
  OBVIOUS
<1> HIDE DEF z
<1>2. Max({z, a}) \in {z, a} /\ Max({z, a}) >= z /\ Max({z, a}) >= a
  BY <1>1, MaxOfTwo
<1> QED
  BY <1>2 DEF z

\* What observe_response makes of an answer with limits: never more than either says, never
\* for a shorter time than the answer or a live bucket says.
LEMMA LearnedIsCautious ==
    ASSUME NEW b \in Bucket, NEW a \in Answer, a.remaining # Absent
    PROVE  /\ Learned(b, a) \in Bucket
           /\ Learned(b, a).remaining <= a.remaining /\ Learned(b, a).reset >= a.reset
           /\ b.reset > 0 => /\ Learned(b, a).remaining <= b.remaining
                             /\ Learned(b, a).reset >= b.reset
<1> DEFINE m == Max({1, a.reset})
           t == IF a.reset = Absent THEN Default ELSE m
           left == Min({b.remaining, a.remaining})
           reset == Max({b.reset, t})
<1>1. /\ b.remaining \in 0..Quota /\ b.reset \in 0..Longest
      /\ a.remaining \in 0..Quota /\ a.reset \in -1..Window
  BY ClientAssumption DEF Bucket, Answer, Absent
<1>2. /\ Quota \in Nat /\ Longest \in Nat /\ Window \in Nat \ {0} /\ Default \in Nat \ {0}
      /\ Window <= Longest /\ Default <= Longest
  BY ClientAssumption, LongestIsLongest
<1>3. m \in {1, a.reset} /\ m >= 1 /\ m >= a.reset
  <2>1. a.reset \in Int
    BY <1>1, <1>2
  <2> QED
    BY <2>1, NotBelowOne
<1>4. left \in {b.remaining, a.remaining} /\ left <= b.remaining /\ left <= a.remaining
  <2>1. b.remaining \in Int /\ a.remaining \in Int
    BY <1>1, <1>2
  <2> QED
    BY <2>1, MinOfTwo
<1> HIDE DEF m, left
<1>5. t \in 1..Longest /\ t >= a.reset
  BY <1>1, <1>2, <1>3 DEF Absent
<1> HIDE DEF t
<1>6. reset \in {b.reset, t} /\ reset >= b.reset /\ reset >= t
  <2>1. b.reset \in Int /\ t \in Int
    BY <1>1, <1>2, <1>5
  <2> QED
    BY <2>1, MaxOfTwo
<1>7. Learned(b, a) = IF b.reset = 0 THEN [remaining |-> a.remaining, reset |-> t]
                      ELSE [remaining |-> left, reset |-> reset]
  BY DEF Learned, t, m, left
<1> HIDE DEF reset
<1>8. CASE b.reset = 0
  <2>1. Learned(b, a) = [remaining |-> a.remaining, reset |-> t]
    BY <1>7, <1>8
  <2>2. t \in 0..Longest
    BY <1>2, <1>5
  <2> QED
    BY <1>1, <1>2, <1>5, <1>8, <2>1, <2>2 DEF Bucket
<1>9. CASE b.reset # 0
  <2>1. Learned(b, a) = [remaining |-> left, reset |-> reset]
    BY <1>7, <1>9
  <2>2. left \in 0..Quota /\ reset \in 0..Longest /\ reset >= a.reset
    BY <1>1, <1>2, <1>4, <1>5, <1>6
  <2> QED
    BY <1>1, <1>2, <1>4, <1>6, <2>1, <2>2 DEF Bucket
<1> QED
  BY <1>8, <1>9

LEMMA PauseIsNotCutShort ==
    ASSUME TypeOK, NEW a \in Answer
    PROVE  Pause(a) \in 0..Longest /\ Pause(a) >= secondary
<1> DEFINE t == IF a.retry # Absent THEN a.retry ELSE IF a.status = "abuse" THEN Default ELSE 0
<1>1. /\ secondary \in 0..Longest /\ Longest \in Nat /\ Window <= Longest /\ Default <= Longest
      /\ Window \in Nat \ {0} /\ Default \in Nat \ {0} /\ a.retry \in {Absent, 1}
  BY LongestIsLongest, ClientAssumption DEF TypeOK, Answer
<1>2. t \in 0..Longest
  BY <1>1
<1>3. Pause(a) = Max({secondary, t})
  BY DEF Pause
<1> HIDE DEF t
<1>4. Pause(a) \in {secondary, t} /\ Pause(a) >= secondary
  BY <1>1, <1>2, <1>3, MaxOfTwo
<1> QED
  BY <1>1, <1>2, <1>4

\* What Observe does to the pool, for one resource.
LEMMA ObserveTeaches ==
    ASSUME IInv, NEW c \in Callers, Observe(c)
    PROVE  /\ bucket' \in [Resources -> Bucket] /\ secondary' \in 0..Longest
           /\ secondary' >= secondary /\ unusable' \in BOOLEAN
           /\ \A r \in Resources :
                 bucket[r].reset > 0 => /\ bucket'[r].remaining <= bucket[r].remaining
                                        /\ bucket'[r].reset >= bucket[r].reset
           /\ \A k \in Keys : \A r \in Resources : c \in Reporters(k, r) => Blocked(k, r)'
<1> DEFINE a == caller[c].answer
<1>1. /\ TypeOK /\ caller[c] \in Caller /\ caller[c].pc = "answered" /\ site' = site
      /\ bucket \in [Resources -> Bucket] /\ \A r \in Resources : bucket[r] \in Bucket
  BY TypesOfRecords DEF Observe, IInv, github
<1>2. a \in Answer /\ a.about \in Resources /\ a.remaining \in Absent..Quota
  BY <1>1 DEF Caller, Answer
<1>3. /\ \A r \in Resources : bucket[r].remaining \in Nat /\ bucket[r].reset \in Nat
      /\ secondary \in 0..Longest /\ Longest \in Nat /\ unusable \in BOOLEAN
  BY <1>1, LongestIsLongest, ClientAssumption DEF Bucket, TypeOK
<1>4. CASE bucket' = bucket /\ a.status = "unusable"
  <2>1. unusable' = TRUE /\ secondary' = secondary
    BY <1>4 DEF Observe
  <2>2. \A k \in Keys : \A r \in Resources : c \notin Reporters(k, r)
    BY <1>4 DEF Reporters
  <2> QED
    BY <1>1, <1>3, <1>4, <2>1, <2>2
<1>5. CASE /\ a.status # "unusable"
           /\ bucket' = IF a.remaining = Absent THEN bucket
                        ELSE [bucket EXCEPT ![a.about] = Learned(@, a)]
  <2>1. secondary' = Pause(a) /\ unusable' = unusable
    BY <1>5 DEF Observe
  <2>2. secondary' \in 0..Longest /\ secondary' >= secondary
    BY <1>1, <1>2, <2>1, PauseIsNotCutShort
  <2>3. CASE a.remaining = Absent
    <3>1. \A k \in Keys : \A r \in Resources : c \notin Reporters(k, r)
      BY <2>3 DEF Reporters, Absent
    <3> QED
      BY <1>1, <1>3, <1>5, <2>1, <2>2, <2>3, <3>1
  <2>4. CASE a.remaining # Absent
    <3> DEFINE b == bucket[a.about]
               l == Learned(b, a)
    <3>1. b \in Bucket
      BY <1>1, <1>2
    <3>2. /\ l \in Bucket /\ l.remaining <= a.remaining /\ l.reset >= a.reset
          /\ b.reset > 0 => l.remaining <= b.remaining /\ l.reset >= b.reset
      BY <1>2, <2>4, <3>1, LearnedIsCautious
    <3>3. bucket' = [bucket EXCEPT ![a.about] = l]
      BY <1>5, <2>4
    <3> HIDE DEF l, a
    <3>4. /\ bucket' \in [Resources -> Bucket] /\ bucket'[a.about] = l
          /\ \A r \in Resources : r # a.about => bucket'[r] = bucket[r]
      BY <1>1, <1>2, <3>2, <3>3
    <3>5. \A r \in Resources :
              bucket[r].reset > 0 => /\ bucket'[r].remaining <= bucket[r].remaining
                                     /\ bucket'[r].reset >= bucket[r].reset
      BY <1>3, <3>2, <3>4
    <3>6. ASSUME NEW k \in Keys, NEW r \in Resources, c \in Reporters(k, r)
          PROVE  Blocked(k, r)'
      <4>1. r = a.about /\ a.remaining = 0 /\ a.reset >= site[k][r].window
        BY <3>6 DEF Reporters, a
      <4>2. a.reset \in Int /\ site[k][r].window \in Int /\ l.remaining \in Nat /\ l.reset \in Int
        <5>1. site[k][r] \in Site
          BY <1>1, TypesOfRecords
        <5>2. Window \in Nat /\ Longest \in Nat /\ Quota \in Nat
          BY ClientAssumption, LongestIsLongest
        <5> QED
          BY <1>2, <3>2, <5>1, <5>2, SiteIsNumbers DEF Answer, Absent, Bucket
      <4>3. l.remaining = 0 /\ l.reset >= site[k][r].window
        BY <3>2, <4>1, <4>2
      <4> QED
        BY <1>1, <3>4, <4>1, <4>3 DEF Blocked
    <3> QED
      BY <1>3, <2>1, <2>2, <3>4, <3>5, <3>6
  <2> QED
    BY <2>3, <2>4
<1> QED
  BY <1>4, <1>5 DEF Observe

LEMMA ObserveKeepsInvariant ==
    ASSUME IInv, NEW c \in Callers, Observe(c)
    PROVE  IInv'
<1> DEFINE a == caller[c].answer
           k == Slots[caller[c].slot]
           refused == IF a.status = "unauthorized" THEN {k} ELSE {}
           x == [caller[c] EXCEPT !.pc = "body", !.answer = NoAnswer(a.about)]
<1>1. /\ TypeOK /\ caller[c].pc = "answered"
      /\ valid' = valid \ UNION {Disabled(q) : q \in refused}
      /\ rejected' = rejected \cup refused
      /\ caller' = [caller EXCEPT ![c] = x]
      /\ UNCHANGED <<turn, site, revoked, asked, faults>>
  BY DEF Observe, IInv, github
<1>2. caller[c] \in Caller /\ caller[c].slot \in Usable
  BY <1>1, WindowOfCaller
<1>3. x \in Caller /\ x.pc = "body" /\ x.slot = caller[c].slot /\ x.resource = caller[c].resource
  <2>1. a.about \in Resources
    BY <1>2 DEF Caller, Answer
  <2>2. NoAnswer(a.about) \in Answer
    BY <2>1, NoAnswerIsAnswer
  <2> QED
    BY <1>2, <2>2 DEF Caller, Stages
<1>4. refused \subseteq revoked
  BY <1>1 DEF IInv, UnauthorizedIsRevoked
<1>5. \A i \in valid' : i \in valid /\ Slots[i] \notin refused
  BY <1>1 DEF Disabled
<1> HIDE DEF x, refused
<1>6. /\ caller' \in [Callers -> Caller] /\ caller'[c] = x
      /\ \A d \in Callers : d # c => caller'[d] = caller[d]
  BY <1>1, <1>3, TypesOfRecords
<1>7. TypeOK'
  <2>1. \A d \in Callers :
            caller'[d].pc \in {"sent", "answered", "body"} => caller'[d].slot \in Usable
    BY <1>1, <1>2, <1>3, <1>6 DEF TypeOK
  <2>2. bucket' \in [Resources -> Bucket] /\ secondary' \in 0..Longest /\ unusable' \in BOOLEAN
    BY ObserveTeaches
  <2>3. valid' \subseteq Usable /\ rejected' \subseteq revoked'
    BY <1>1, <1>4 DEF TypeOK
  <2> QED
    BY <1>1, <1>6, <2>1, <2>2, <2>3 DEF TypeOK, Caller
<1>8. PermitsAreHeld'
  <2>1. Holding' = Holding
    BY <1>1, <1>3, <1>6 DEF Holding
  <2> QED
    BY <2>1, PermitsStayHeld
<1>9. ValidIsAccepted' /\ UnauthorizedIsRevoked' /\ WindowsRun'
  BY <1>1, <1>3, <1>5, <1>6 DEF IInv, ValidIsAccepted, UnauthorizedIsRevoked, WindowsRun
<1>10. RefusalsAreHeld'
  <2> SUFFICES ASSUME NEW i \in Keys, NEW r \in Resources, site[i][r].left = 0
               PROVE  News(i, r)' \/ (Blocked(i, r)' /\ Budget(i, r)')
    BY <1>1 DEF RefusalsAreHeld
  <2>1. News(i, r) \/ (Blocked(i, r) /\ Budget(i, r))
    BY DEF IInv, RefusalsAreHeld
  <2>2. site[i][r] \in Site /\ site'[i][r] = site[i][r]
    BY <1>1, TypesOfRecords
  <2>3. InFlight(i, r)' = InFlight(i, r)
    BY <1>1, <1>3, <1>6 DEF InFlight
  <2>4. Blocked(i, r) => Blocked(i, r)'
    <3>1. site[i][r].window > 0 /\ site[i][r].window \in Nat
      BY <2>2, ClientAssumption, SiteIsNumbers DEF IInv, WindowsRun
    <3>2. bucket[r] \in Bucket /\ bucket'[r] \in Bucket
      BY <1>1, ObserveTeaches, TypesOfRecords
    <3>3. /\ bucket[r].reset \in Nat /\ bucket'[r].reset \in Nat /\ bucket'[r].remaining \in Nat
      BY <3>2, LongestIsLongest, ClientAssumption DEF Bucket
    <3>4. bucket[r].reset > 0 => /\ bucket'[r].remaining <= bucket[r].remaining
                                 /\ bucket'[r].reset >= bucket[r].reset
      BY ObserveTeaches
    <3> QED
      BY <2>2, <3>1, <3>3, <3>4 DEF Blocked
  <2>5. CASE c \notin Reporters(i, r)
    <3>1. Reporters(i, r) \subseteq Reporters(i, r)'
      BY <1>6, <2>2, <2>5 DEF Reporters
    <3> QED
      BY <2>1, <2>2, <2>3, <2>4, <3>1, WindowStaysHeld
  <2>6. CASE c \in Reporters(i, r)
    <3>1. Blocked(i, r)'
      BY <2>6, ObserveTeaches
    <3>2. Budget(i, r)
      BY <1>1, <2>1, NewsIsInBudget DEF IInv
    <3> QED
      BY <2>1, <2>2, <2>3, <2>4, <3>1, <3>2, WindowStaysHeld
  <2> QED
    BY <2>5, <2>6
<1> QED
  BY <1>7, <1>8, <1>9, <1>10 DEF IInv

LEMMA LostIsSite ==
    ASSUME NEW w \in Site
    PROVE  LET y == [w EXCEPT !.lost = @ + 1]
           IN /\ y \in Site /\ y.lost = w.lost + 1 /\ y.left = w.left
              /\ y.window = w.window /\ y.refused = w.refused
BY DEF Site

LEMMA AbandonKeepsInvariant ==
    ASSUME IInv, NEW c \in Callers, Abandon(c)
    PROVE  IInv'
<1> DEFINE r == caller[c].resource
           k == Slots[caller[c].slot]
           x == Idle(r)
<1>1. /\ TypeOK /\ caller[c] \in Caller /\ r \in Resources /\ caller' = [caller EXCEPT ![c] = x]
      /\ caller[c].pc # "idle"
  BY TypesOfRecords DEF IInv, Caller, Abandon
<1>2. x \in Caller /\ x.pc = "idle"
  BY <1>1, IdleIsCaller
<1>3. UNCHANGED <<pool, revoked, rejected, asked>> /\ faults' \in 0..MaxFaults
  <2>1. UNCHANGED <<pool, revoked, rejected, asked>> /\ faults' = faults + 1 /\ faults < MaxFaults
    BY DEF Abandon
  <2>2. faults \in 0..MaxFaults
    BY <1>1 DEF TypeOK
  <2> QED
    BY <2>1, <2>2, ClientAssumption
<1> HIDE DEF x
<1>4. Holding' \subseteq Holding
  BY <1>1, <1>2, TypesOfRecords DEF Holding
<1>5. CASE caller[c].pc # "answered"
  <2>1. site' = site
    BY <1>5 DEF Abandon
  <2> QED
    BY <1>1, <1>2, <1>3, <1>4, <1>5, <2>1, SilentKeepsInvariant
<1>6. CASE caller[c].pc = "answered"
  <2> DEFINE y == [site[k][r] EXCEPT !.lost = @ + 1]
  <2>1. /\ k \in Keys /\ site[k][r] \in Site /\ site' = [site EXCEPT ![k][r] = y]
    BY <1>6, WindowOfCaller DEF Abandon
  <2>2. /\ y \in Site /\ y.lost = site[k][r].lost + 1 /\ y.left = site[k][r].left
        /\ y.window = site[k][r].window /\ y.refused = site[k][r].refused
    BY <2>1, LostIsSite
  <2> HIDE DEF y, k, r
  <2>3. /\ site' \in [Keys -> [Resources -> Site]] /\ site'[k][r] = y
        /\ \A i \in Keys : \A q \in Resources : i # k \/ q # r => site'[i][q] = site[i][q]
    BY <1>1, <2>1, <2>2, TypesOfRecords
  <2>4. /\ TypeOK' /\ caller'[c] = x
        /\ \A d \in Callers : d # c => caller'[d] = caller[d]
    BY <1>1, <1>2, <1>3, <2>3, AnswerKeepsTypes
  <2>5. UNCHANGED <<valid, turn, bucket, secondary, unusable, revoked, rejected>>
    BY <1>3 DEF pool
  <2>6. PermitsAreHeld'
    BY <1>4, PermitsStayHeld
  <2>7. ValidIsAccepted' /\ UnauthorizedIsRevoked'
    BY <1>2, <2>4, <2>5 DEF IInv, ValidIsAccepted, UnauthorizedIsRevoked
  <2>8. \A i \in Keys : \A q \in Resources :
            /\ site'[i][q].left = site[i][q].left /\ site'[i][q].window = site[i][q].window
            /\ site'[i][q].refused = site[i][q].refused
    BY <2>2, <2>3
  <2>9. WindowsRun'
    BY <2>8 DEF IInv, WindowsRun
  <2>10. ASSUME NEW i \in Keys, NEW q \in Resources, site[i][q].left = 0
         PROVE  News(i, q)' \/ (Blocked(i, q)' /\ Budget(i, q)')
    <3>1. News(i, q) \/ (Blocked(i, q) /\ Budget(i, q))
      BY <2>10 DEF IInv, RefusalsAreHeld
    <3>2. Blocked(i, q)' <=> Blocked(i, q)
      BY <2>5, <2>8 DEF Blocked
    <3>3. InFlight(i, q)' = InFlight(i, q)
      BY <1>2, <1>6, <2>4 DEF InFlight
    <3>4. CASE i = k /\ q = r
      <4> DEFINE m == Cardinality(Reporters(i, q))
                 n == Cardinality(Reporters(i, q)')
                 f == Cardinality(InFlight(i, q))
                 d == Cardinality(Reporters(i, q) \ {c})
      <4>1. /\ site[i][q].refused \in Nat /\ site[i][q].lost \in Nat /\ Permits \in Nat
            /\ site'[i][q].refused = site[i][q].refused
            /\ site'[i][q].lost = site[i][q].lost + 1
        BY <2>1, <2>2, <2>3, <3>4, SiteIsNumbers, ClientAssumption
      <4>2. /\ m \in Nat /\ n \in Nat /\ f \in Nat
            /\ IsFiniteSet(Reporters(i, q)) /\ IsFiniteSet(Reporters(i, q)')
        BY CallersAreCounted, CallersAreCountedNext
      <4>3. Reporters(i, q) \ {c} \subseteq Reporters(i, q)'
        BY <2>4, <2>8 DEF Reporters
      <4>4. d <= n /\ d >= m - 1 /\ d \in Int
        <5>1. d = IF c \in Reporters(i, q) THEN m - 1 ELSE m
          BY <4>2, FS_RemoveElement, Zenon
        <5>2. d <= n
          BY <4>2, <4>3, FS_Subset
        <5> QED
          BY <4>2, <5>1, <5>2
      <4>5. News(i, q) => News(i, q)'
        <5> HIDE DEF d
        <5> QED
          BY <4>1, <4>2, <4>4 DEF News
      <4>6. Budget(i, q) => Budget(i, q)'
        BY <3>3, <4>1, <4>2 DEF Budget
      <4> QED
        BY <3>1, <3>2, <4>5, <4>6
    <3>5. CASE i # k \/ q # r
      <4>1. site[i][q] \in Site /\ site'[i][q] = site[i][q]
        BY <1>1, <2>3, <3>5, TypesOfRecords
      <4>2. c \notin Reporters(i, q)
        BY <3>5 DEF Reporters, k, r
      <4>3. Reporters(i, q) \subseteq Reporters(i, q)'
        BY <2>4, <4>1, <4>2 DEF Reporters
      <4> QED
        BY <3>1, <3>2, <3>3, <4>1, <4>3, WindowStaysHeld
    <3> QED
      BY <3>4, <3>5
  <2>11. RefusalsAreHeld'
    BY <2>8, <2>10 DEF RefusalsAreHeld
  <2> QED
    BY <2>4, <2>6, <2>7, <2>9, <2>11 DEF IInv
<1> QED
  BY <1>5, <1>6

LEMMA TickKeepsInvariant ==
    ASSUME IInv, Tick
    PROVE  IInv'
<1>1. /\ TypeOK /\ UNCHANGED <<valid, turn, unusable, revoked, rejected, asked, faults>>
      /\ caller' = [c \in Callers |-> [caller[c] EXCEPT !.wake = Less(@),
                                                        !.answer.reset = Less(@)]]
      /\ site' = [k \in Keys |-> [r \in Resources |->
                    IF site[k][r].window <= 1 THEN Fresh
                    ELSE [site[k][r] EXCEPT !.window = @ - 1]]]
  BY DEF IInv, Tick
<1>2. /\ Longest \in Nat /\ Window \in Nat \ {0} /\ Quota \in Nat \ {0}
      /\ secondary \in 0..Longest
  BY <1>1, LongestIsLongest, ClientAssumption DEF TypeOK
<1>3. secondary' \in 0..Longest
  <2>1. secondary' = Less(secondary)
    BY DEF Tick
  <2> QED
    BY <1>2, <2>1 DEF Less
<1>4. ASSUME NEW r \in Resources
      PROVE  /\ bucket'[r] \in Bucket
             /\ bucket[r].reset > 1 => /\ bucket'[r].remaining = bucket[r].remaining
                                       /\ bucket'[r].reset = bucket[r].reset - 1
  <2>1. bucket[r] \in Bucket
    BY <1>1, TypesOfRecords
  <2>2. bucket[r].remaining \in 0..Quota /\ bucket[r].reset \in 0..Longest
    BY <2>1 DEF Bucket
  <2>3. bucket'[r] = IF bucket[r].reset <= 1 THEN NoBucket
                     ELSE [bucket[r] EXCEPT !.reset = @ - 1]
    BY DEF Tick
  <2>4. CASE bucket[r].reset <= 1
    BY <1>2, <2>2, <2>3, <2>4 DEF NoBucket, Bucket
  <2>5. CASE bucket[r].reset > 1
    <3>1. bucket[r].reset - 1 \in 0..Longest
      BY <1>2, <2>2, <2>5
    <3>2. bucket'[r] = [bucket[r] EXCEPT !.reset = bucket[r].reset - 1]
      BY <1>2, <2>2, <2>3, <2>5
    <3> QED
      BY <2>1, <3>1, <3>2 DEF Bucket
  <2> QED
    BY <1>2, <2>2, <2>4, <2>5
<1>5. ASSUME NEW c \in Callers
      PROVE  /\ caller'[c] \in Caller
             /\ caller'[c].pc = caller[c].pc /\ caller'[c].resource = caller[c].resource
             /\ caller'[c].slot = caller[c].slot
             /\ caller'[c].answer.status = caller[c].answer.status
             /\ caller'[c].answer.about = caller[c].answer.about
             /\ caller'[c].answer.remaining = caller[c].answer.remaining
             /\ caller'[c].answer.reset = Less(caller[c].answer.reset)
  <2> DEFINE a == caller[c].answer
             w == Less(caller[c].wake)
             t == Less(a.reset)
             b == [a EXCEPT !.reset = t]
  <2>1. caller[c] \in Caller
    BY <1>1, TypesOfRecords
  <2>2. a \in Answer /\ caller[c].wake \in 0..Longest
    BY <2>1 DEF Caller
  <2>3. a.reset \in Absent..Window
    BY <2>2 DEF Answer
  <2>4. w \in 0..Longest /\ t \in Absent..Window
    BY <1>2, <2>2, <2>3 DEF Less, Absent
  <2>5. caller'[c] = [caller[c] EXCEPT !.wake = w, !.answer = b]
    BY <1>1
  <2> HIDE DEF w, t
  <2>6. /\ b \in Answer /\ b.status = a.status /\ b.about = a.about
        /\ b.remaining = a.remaining /\ b.reset = t
    BY <2>2, <2>4 DEF Answer
  <2> HIDE DEF b
  <2>7. /\ caller'[c] \in Caller /\ caller'[c].pc = caller[c].pc
        /\ caller'[c].resource = caller[c].resource /\ caller'[c].slot = caller[c].slot
        /\ caller'[c].answer = b
    BY <2>1, <2>4, <2>5, <2>6 DEF Caller
  <2> QED
    BY <2>6, <2>7 DEF t
<1>6. ASSUME NEW k \in Keys, NEW r \in Resources
      PROVE  /\ site'[k][r] \in Site
             /\ site[k][r].window <= 1 => site'[k][r] = Fresh
             /\ site[k][r].window > 1 =>
                   /\ site'[k][r].window = site[k][r].window - 1
                   /\ site'[k][r].left = site[k][r].left
                   /\ site'[k][r].refused = site[k][r].refused
                   /\ site'[k][r].lost = site[k][r].lost
  <2>1. site[k][r] \in Site
    BY <1>1, TypesOfRecords
  <2>2. site[k][r].window \in 0..Window
    BY <2>1 DEF Site
  <2>3. site'[k][r] = IF site[k][r].window <= 1 THEN Fresh
                      ELSE [site[k][r] EXCEPT !.window = @ - 1]
    BY <1>1
  <2>4. Fresh \in Site
    BY <1>2 DEF Fresh, Site
  <2>5. CASE site[k][r].window <= 1
    BY <1>2, <2>2, <2>3, <2>4, <2>5
  <2>6. CASE site[k][r].window > 1
    <3>1. site[k][r].window - 1 \in 0..Window
      BY <1>2, <2>2, <2>6
    <3>2. site'[k][r] = [site[k][r] EXCEPT !.window = site[k][r].window - 1]
      BY <1>2, <2>2, <2>3, <2>6
    <3> QED
      BY <1>2, <2>1, <2>2, <2>6, <3>1, <3>2 DEF Site
  <2> QED
    BY <1>2, <2>2, <2>5, <2>6
<1>7. TypeOK'
  <2>1. bucket' \in [Resources -> Bucket]
    BY <1>4 DEF Tick
  <2>2. caller' \in [Callers -> Caller]
    BY <1>1, <1>5
  <2>3. site' \in [Keys -> [Resources -> Site]]
    BY <1>1, <1>6
  <2>4. \A c \in Callers :
            caller'[c].pc \in {"sent", "answered", "body"} => caller'[c].slot \in Usable
    BY <1>1, <1>5 DEF TypeOK
  <2> QED
    BY <1>1, <1>3, <2>1, <2>2, <2>3, <2>4 DEF TypeOK, Caller, Site
<1>8. PermitsAreHeld'
  <2>1. Holding' = Holding
    BY <1>5 DEF Holding
  <2> QED
    BY <2>1, PermitsStayHeld
<1>9. ValidIsAccepted' /\ UnauthorizedIsRevoked'
  <2>1. UNCHANGED <<valid, revoked, rejected>> /\ ValidIsAccepted /\ UnauthorizedIsRevoked
    BY <1>1 DEF IInv
  <2>2. ValidIsAccepted'
    BY <2>1 DEF ValidIsAccepted
  <2>3. UnauthorizedIsRevoked'
    BY <1>5, <2>1 DEF UnauthorizedIsRevoked
  <2> QED
    BY <2>2, <2>3
<1>10. WindowsRun'
  <2> SUFFICES ASSUME NEW k \in Keys, NEW r \in Resources
               PROVE  /\ site'[k][r].left < Quota => site'[k][r].window > 0
                      /\ site'[k][r].left > 0 => site'[k][r].refused = 0
    BY DEF WindowsRun
  <2>1. site[k][r].window \in Nat
    BY <1>1, TypesOfRecords, SiteIsNumbers
  <2>2. CASE site[k][r].window <= 1
    BY <1>2, <1>6, <2>2 DEF Fresh
  <2>3. CASE site[k][r].window > 1
    BY <1>6, <2>1, <2>3 DEF IInv, WindowsRun
  <2> QED
    BY <2>1, <2>2, <2>3
<1>11. RefusalsAreHeld'
  <2> SUFFICES ASSUME NEW k \in Keys, NEW r \in Resources, site'[k][r].left = 0
               PROVE  News(k, r)' \/ (Blocked(k, r)' /\ Budget(k, r)')
    BY DEF RefusalsAreHeld
  <2>1. site[k][r] \in Site /\ site[k][r].window \in Nat
    BY <1>1, TypesOfRecords, SiteIsNumbers
  <2>2. site[k][r].window > 1
    <3>1. Fresh.left # 0
      BY <1>2 DEF Fresh
    <3> QED
      BY <1>6, <2>1, <3>1
  <2>3. /\ site'[k][r].window = site[k][r].window - 1 /\ site[k][r].left = 0
        /\ site'[k][r].refused = site[k][r].refused /\ site'[k][r].lost = site[k][r].lost
    BY <1>6, <2>2
  <2>4. News(k, r) \/ (Blocked(k, r) /\ Budget(k, r))
    BY <2>3 DEF IInv, RefusalsAreHeld
  <2>5. Reporters(k, r) \subseteq Reporters(k, r)'
    <3> SUFFICES ASSUME NEW c \in Reporters(k, r) PROVE c \in Reporters(k, r)'
      OBVIOUS
    <3>1. c \in Callers /\ caller[c].answer.reset >= site[k][r].window
      BY DEF Reporters
    <3>2. caller[c] \in Caller
      BY <1>1, <3>1, TypesOfRecords
    <3>3. caller[c].answer.reset \in Int
      BY <1>2, <3>2 DEF Caller, Answer, Absent
    <3>4. caller'[c].answer.reset = caller[c].answer.reset - 1
      BY <1>5, <2>1, <2>2, <3>1, <3>3 DEF Less
    <3>5. caller'[c].answer.reset >= site'[k][r].window
      BY <2>1, <2>3, <3>1, <3>3, <3>4
    <3> QED
      BY <1>5, <3>1, <3>5 DEF Reporters
  <2>6. InFlight(k, r)' = InFlight(k, r)
    BY <1>5 DEF InFlight
  <2>7. Blocked(k, r) => Blocked(k, r)'
    <3>1. bucket[r] \in Bucket
      BY <1>1, TypesOfRecords
    <3>2. bucket[r].reset \in Nat
      BY <1>2, <3>1 DEF Bucket
    <3> QED
      BY <1>4, <2>1, <2>2, <2>3, <3>2 DEF Blocked
  <2>8. News(k, r) => News(k, r)'
    <3>1. Cardinality(Reporters(k, r)) <= Cardinality(Reporters(k, r)')
      BY <2>5, CallersAreCountedNext, FS_Subset
    <3>2. Cardinality(Reporters(k, r)) \in Nat /\ Cardinality(Reporters(k, r)') \in Nat
      BY CallersAreCounted, CallersAreCountedNext
    <3>3. site[k][r].refused \in Nat /\ site[k][r].lost \in Nat
      BY <2>1, SiteIsNumbers
    <3> QED
      BY <2>3, <3>1, <3>2, <3>3 DEF News
  <2>9. Budget(k, r) => Budget(k, r)'
    BY <2>3, <2>6 DEF Budget
  <2> QED
    BY <2>4, <2>7, <2>8, <2>9
<1> QED
  BY <1>7, <1>8, <1>9, <1>10, <1>11 DEF IInv

LEMMA StutterKeepsInvariant ==
    ASSUME IInv, UNCHANGED vars
    PROVE  IInv'
<1>1. UNCHANGED <<valid, turn, bucket, secondary, unusable, caller, site, revoked, rejected,
                  asked, faults>>
  BY DEF vars, pool, github
<1>2. TypeOK' /\ PermitsAreHeld' /\ ValidIsAccepted' /\ UnauthorizedIsRevoked' /\ WindowsRun'
  BY <1>1 DEF IInv, TypeOK, PermitsAreHeld, Holding, ValidIsAccepted, UnauthorizedIsRevoked,
              WindowsRun
<1>3. \A k \in Keys : \A r \in Resources :
          InFlight(k, r)' = InFlight(k, r) /\ Reporters(k, r)' = Reporters(k, r)
  BY <1>1 DEF InFlight, Reporters
<1>4. RefusalsAreHeld'
  BY <1>1, <1>3 DEF IInv, RefusalsAreHeld, News, Blocked, Budget
<1> QED
  BY <1>2, <1>4 DEF IInv

LEMMA NextKeepsInvariant == IInv /\ [Next]_vars => IInv'
<1> SUFFICES ASSUME IInv, [Next]_vars PROVE IInv'
  OBVIOUS
<1>1. CASE \E c \in Callers : \E r \in Resources : Ask(c, r)
  BY <1>1, AskKeepsInvariant
<1>2. CASE \E c \in Callers : Acquire(c)
  BY <1>2, AcquireKeepsInvariant
<1>3. CASE \E c \in Callers : Refuse(c) \/ Finish(c)
  BY <1>3, RefuseKeepsInvariant
<1>4. CASE \E c \in Callers : Sleep(c)
  BY <1>4, SleepKeepsInvariant
<1>5. CASE \E c \in Callers : Reserve(c)
  BY <1>5, ReserveKeepsInvariant
<1>6. CASE \E c \in Callers : Serve(c)
  BY <1>6, ServeKeepsInvariant
<1>7. CASE \E c \in Callers : Observe(c)
  BY <1>7, ObserveKeepsInvariant
<1>8. CASE \E c \in Callers : Abandon(c)
  BY <1>8, AbandonKeepsInvariant
<1>9. CASE \E k \in Keys : Revoke(k)
  BY <1>9, RevokeKeepsInvariant
<1>10. CASE Tick
  BY <1>10, TickKeepsInvariant
<1>11. CASE UNCHANGED vars
  BY <1>11, StutterKeepsInvariant
<1> QED
  BY <1>1, <1>2, <1>3, <1>4, <1>5, <1>6, <1>7, <1>8, <1>9, <1>10, <1>11 DEF Next

(***************************************************************************)
(* The theorems.                                                           *)
(***************************************************************************)

\* The inductive invariant: what GitHub, the callers and the pool know of each window of
\* each credential (tokens.rs 79-230, crawler.rs 105-170).
THEOREM ClientInvariant == Spec => []IInv
<1>1. Init => IInv
  BY InvariantHoldsFirst
<1>2. IInv /\ [Next]_vars => IInv'
  BY NextKeepsInvariant
<1> QED
  BY <1>1, <1>2, PTL DEF Spec

\* In one window GitHub refuses a credential at most once for each other permit, and once
\* for each answer that never reached the pool, however late the answers come in, whichever
\* token a caller is given and whatever fails on the way (tokens.rs 176-207).
THEOREM RefusalsAreAlwaysBounded == Spec => []RefusalsAreBounded
<1>1. IInv => RefusalsAreBounded
  <2> SUFFICES ASSUME IInv, NEW k \in Keys, NEW r \in Resources
               PROVE  site[k][r].refused <= Permits - 1 + site[k][r].lost
    BY DEF RefusalsAreBounded, IInv
  <2>1. TypeOK /\ PermitsAreHeld /\ site[k][r] \in Site
    BY TypesOfRecords DEF IInv
  <2>2. /\ site[k][r].left \in Nat /\ site[k][r].refused \in Nat /\ site[k][r].lost \in Nat
        /\ Permits \in Nat \ {0} /\ Cardinality(InFlight(k, r)) \in Nat
    BY <2>1, SiteIsNumbers, CallersAreCounted, ClientAssumption
  <2>3. CASE site[k][r].left > 0
    <3>1. site[k][r].refused = 0
      BY <2>3 DEF IInv, WindowsRun
    <3> QED
      BY <2>2, <3>1
  <2>4. CASE site[k][r].left = 0
    <3>1. News(k, r) \/ Budget(k, r)
      BY <2>4 DEF IInv, RefusalsAreHeld
    <3>2. Budget(k, r)
      BY <2>1, <3>1, NewsIsInBudget
    <3> QED
      BY <2>2, <3>2 DEF Budget
  <2> QED
    BY <2>2, <2>3, <2>4
<1>2. Spec => []IInv
  BY ClientInvariant
<1> QED
  BY <1>1, <1>2, PTL

\* Late and reordered answers never give a live bucket back what was taken from it, and never
\* bring its reset nearer (tokens.rs 189-195).
THEOREM BucketsAreNeverReplenished == Spec => BucketIsNeverReplenished
<1> DEFINE Kept == \A r \in Resources : bucket[r].reset > 0 =>
                       \/ /\ bucket'[r].remaining <= bucket[r].remaining
                          /\ bucket'[r].reset >= bucket[r].reset
                       \/ Tick
<1>1. IInv /\ [Next]_vars => [Kept]_vars
  <2> SUFFICES ASSUME IInv, Next PROVE Kept
    OBVIOUS
  <2>1. \A r \in Resources :
            /\ bucket[r].remaining \in Nat /\ bucket[r].reset \in Nat
            /\ bucket \in [Resources -> Bucket]
    <3> SUFFICES ASSUME NEW r \in Resources
                 PROVE  /\ bucket[r].remaining \in Nat /\ bucket[r].reset \in Nat
                        /\ bucket \in [Resources -> Bucket]
      OBVIOUS
    <3>1. bucket \in [Resources -> Bucket] /\ bucket[r] \in Bucket
      BY TypesOfRecords DEF IInv
    <3>2. Quota \in Nat /\ Longest \in Nat
      BY ClientAssumption, LongestIsLongest
    <3> QED
      BY <3>1, <3>2 DEF Bucket
  <2>2. CASE bucket' = bucket
    BY <2>1, <2>2
  <2>3. CASE \E c \in Callers : Observe(c)
    BY <2>3, ObserveTeaches
  <2>4. ASSUME NEW c \in Callers, Reserve(c) PROVE Kept
    <3> DEFINE s == caller[c].resource
               a == bucket[s].remaining - 1
               left == Max({0, a})
    <3>1. bucket' = [bucket EXCEPT ![s].remaining = left]
      BY <2>4 DEF Reserve
    <3>2. s \in Resources
      <4>1. caller[c] \in Caller
        BY TypesOfRecords DEF IInv
      <4> QED
        BY <4>1 DEF Caller
    <3>3. left <= bucket[s].remaining
      <4>1. a \in Int /\ bucket[s].remaining \in Nat
        BY <2>1, <3>2
      <4> HIDE DEF a, left
      <4>2. left \in {0, a}
        BY <4>1, NotBelowZero DEF left
      <4> QED
        BY <4>1, <4>2 DEF a
    <3> HIDE DEF left, a
    <3>4. bucket[s] \in Bucket /\ bucket \in [Resources -> Bucket]
      BY <2>1, <3>2
    <3>5. /\ bucket'[s].remaining = left /\ bucket'[s].reset = bucket[s].reset
          /\ \A r \in Resources : r # s => bucket'[r] = bucket[r]
      BY <3>1, <3>2, <3>4 DEF Bucket
    <3> QED
      BY <2>1, <3>2, <3>3, <3>5
  <2>5. \/ bucket' = bucket \/ Tick
        \/ \E c \in Callers : Reserve(c) \/ Observe(c)
    BY DEF Next, Ask, Acquire, Refuse, Sleep, Serve, Finish, Abandon, Revoke, pool
  <2> QED
    BY <2>2, <2>3, <2>4, <2>5
<1>2. Spec => []IInv
  BY ClientInvariant
<1> QED
  BY <1>1, <1>2, PTL DEF Spec, BucketIsNeverReplenished

\* While a secondary limit runs nothing is sent, only time shortens it, and no caller is ever
\* given a credential that GitHub rejected (tokens.rs 92-97, 152-160, 197-207).
THEOREM SendsAreAlwaysAllowed == Spec => SendsAreAllowed
<1> DEFINE Allowed ==
               /\ secondary > 0 => secondary' >= secondary \/ Tick
               /\ \A c \in Callers : caller[c].pc # "sent" /\ caller'[c].pc = "sent"
                      => secondary = 0 /\ Slots[caller'[c].slot] \notin rejected
<1>1. IInv /\ [Next]_vars => [Allowed]_vars
  <2> SUFFICES ASSUME IInv, Next PROVE Allowed
    OBVIOUS
  <2>1. TypeOK /\ secondary \in Nat
    BY LongestIsLongest DEF IInv, TypeOK
  <2>2. secondary' >= secondary \/ Tick
    <3>1. \/ secondary' = secondary \/ Tick
          \/ \E c \in Callers : Observe(c)
      BY DEF Next, Ask, Acquire, Refuse, Sleep, Reserve, Serve, Finish, Abandon, Revoke, pool
    <3> QED
      BY <2>1, <3>1, ObserveTeaches
  <2>3. ASSUME NEW d \in Callers, caller[d].pc # "sent", caller'[d].pc = "sent"
        PROVE  secondary = 0 /\ Slots[caller'[d].slot] \notin rejected
    <3>1. caller \in [Callers -> Caller] /\ \A c \in Callers : caller[c] \in Caller
      BY <2>1, TypesOfRecords
    <3>2. PICK c \in Callers : Reserve(c) /\ c = d
      <4>1. ASSUME NEW c \in Callers, NEW r \in Resources, Ask(c, r) PROVE FALSE
        BY <2>3, <3>1, <4>1, IdleIsCaller DEF Ask, Caller
      <4>2. ASSUME NEW c \in Callers, Acquire(c) \/ Sleep(c) PROVE FALSE
        BY <2>3, <3>1, <4>2 DEF Acquire, Sleep, Caller
      <4>3. ASSUME NEW c \in Callers, Refuse(c) \/ Finish(c) \/ Abandon(c) PROVE FALSE
        <5>1. caller' = [caller EXCEPT ![c] = Idle(caller[c].resource)]
          BY <4>3 DEF Refuse, Finish, Abandon
        <5>2. caller[c].resource \in Resources
          BY <3>1 DEF Caller
        <5> QED
          BY <2>3, <3>1, <5>1, <5>2, IdleIsCaller
      <4>4. ASSUME NEW c \in Callers, Serve(c) PROVE FALSE
        <5>1. PICK a : caller' = [caller EXCEPT ![c].pc = "answered", ![c].answer = a]
          BY <4>4 DEF Serve
        <5> QED
          BY <2>3, <3>1, <5>1 DEF Caller
      <4>5. ASSUME NEW c \in Callers, Observe(c) PROVE FALSE
        BY <2>3, <3>1, <4>5 DEF Observe, Caller
      <4>6. ASSUME Tick PROVE FALSE
        BY <2>3, <3>1, <4>6 DEF Tick, Caller
      <4>7. ASSUME NEW k \in Keys, Revoke(k) PROVE FALSE
        BY <2>3, <4>7 DEF Revoke
      <4>8. \E c \in Callers : Reserve(c)
        BY <4>1, <4>2, <4>3, <4>4, <4>5, <4>6, <4>7 DEF Next
      <4>9. ASSUME NEW c \in Callers, Reserve(c) PROVE c = d
        BY <2>3, <3>1, <4>9 DEF Reserve, Caller
      <4> QED
        BY <4>8, <4>9
    <3>3. caller[d].resource \in Resources
      BY <3>1 DEF Caller
    <3>4. valid # {} /\ PoolWait(caller[d].resource) = 0 /\ caller'[d].slot = NextSlot
      BY <3>1, <3>2 DEF Reserve, Caller
    <3>5. secondary = 0
      BY <2>1, <3>3, <3>4, PoolWaitForbids
    <3>6. NextSlot \in valid
      BY <2>1, <3>4, NextSlotIsValid
    <3> QED
      BY <3>4, <3>5, <3>6 DEF IInv, ValidIsAccepted
  <2> QED
    BY <2>2, <2>3
<1>2. Spec => []IInv
  BY ClientInvariant
<1> QED
  BY <1>1, <1>2, PTL DEF Spec, SendsAreAllowed

=============================================================================
