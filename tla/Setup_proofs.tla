------------------------------ MODULE Setup_proofs ------------------------------
(***************************************************************************)
(* Setup for any number of replicas, requests and encryption keys.         *)
(***************************************************************************)
EXTENDS Setup, TLAPS

USE DEF dbVars, bootVars, Goto, Return, Enter, KeyOrNone, Row, Matches

\* A step of a boot, or a crash, keeps the invariant: the flag and the phase it
\* sets follow from the row it reads, and no row is ever removed.
LEMMA StartStep ==
  ASSUME SetupInv, NEW r \in Replica, Start(r) \/ Crash(r)
  PROVE  SetupInv'
<1> USE DEF SetupInv, TypeOK, OneInitializer, LateAttemptsConflict, WrongKeyRefused
<1>1. ASSUME NEW f \in KeyOrNone, Boot(r, f) PROVE SetupInv'
  BY <1>1 DEF Boot
<1>2. CASE Validate(r)
  BY <1>2 DEF Validate
<1>3. CASE Load(r)
  BY <1>3 DEF Load
<1>4. CASE BootFault(r)
  BY <1>4 DEF BootFault
<1>5. CASE Crash(r)
  BY <1>5, NoneAssumption DEF Crash, InFlight
<1> QED BY <1>1, <1>2, <1>3, <1>4, <1>5 DEF Start

\* So does a step of a request: the row is written once, by the request that is
\* told so.
LEMMA InitializeStep ==
  ASSUME SetupInv, NEW a \in Attempt, Initialize(a)
  PROVE  SetupInv'
<1> USE DEF SetupInv, TypeOK, OneInitializer, LateAttemptsConflict, WrongKeyRefused
<1>1. ASSUME NEW r \in Replica, Begin(a, r) PROVE SetupInv'
  BY <1>1 DEF Begin
<1>2. CASE CheckSchema(a)
  BY <1>2 DEF CheckSchema
<1>3. CASE CheckStatus(a)
  <2>1. CASE row # None
    BY <1>3, <2>1 DEF CheckStatus
  <2>2. CASE row = None
    <3>1. late = {} /\ warned = {} /\ schema = TRUE
      BY <1>3, <2>2 DEF CheckStatus
    <3>2. pc' = [pc EXCEPT ![a] = "seed"] /\ UNCHANGED <<dbVars, bootVars, at, answer, late>>
      BY <1>3, <2>2 DEF CheckStatus
    <3>3. at[a] \in Replica /\ answer[a] = "none" /\ pc[a] = "status"
      BY <1>3 DEF CheckStatus
    <3>4. TypeOK'
      BY <3>2
    <3>5. OneInitializer' /\ LateAttemptsConflict' /\ WrongKeyRefused'
      BY <2>2, <3>1, <3>2
    <3> QED BY <2>2, <3>1, <3>2, <3>3, <3>4, <3>5
  <2> QED BY <2>1, <2>2
<1>4. CASE Migrate(a)
  BY <1>4 DEF Migrate
<1>5. CASE Upgrade(a)
  BY <1>5 DEF Upgrade
<1>6. CASE UpgradeClash(a)
  BY <1>6 DEF UpgradeClash
<1>7. CASE Seed(a)
  <2>1. late = {} /\ warned = {}
    BY <1>7 DEF Seed
  <2>2. /\ row' = [by |-> a, key |-> key[at[a]]]
        /\ pc' = [pc EXCEPT ![a] = "mark"]
        /\ UNCHANGED <<schema, phase, key, flag, warned, at, answer, late>>
    BY <1>7 DEF Seed
  <2>3. row' \in Row /\ row'.by = a
    BY <1>7, <2>2 DEF Seed
  <2>4. row' # None
    BY <1>7, <2>3, NoneAssumption DEF Seed
  <2>5. schema /\ at[a] \in Replica /\ answer[a] = "none" /\ row = None
    BY <1>7 DEF Seed
  <2>6. \A b \in Attempt : answer[b] # "initialized"
    BY <2>5
  <2> QED BY <2>1, <2>2, <2>3, <2>4, <2>5, <2>6
<1>8. CASE SeedClash(a)
  BY <1>8 DEF SeedClash
<1>9. CASE SeedLost(a)
  BY <1>9, NoneAssumption DEF SeedLost
<1>10. CASE Mark(a)
  BY <1>10 DEF Mark
<1>11. CASE Fault(a)
  BY <1>11 DEF Fault
<1> QED BY <1>1, <1>2, <1>3, <1>4, <1>5, <1>6, <1>7, <1>8, <1>9, <1>10, <1>11
        DEF Initialize

\* The inductive invariant holds in every reachable state.
THEOREM SetupInvariant == Spec => []SetupInv
<1>1. Init => SetupInv
  BY DEF Init, SetupInv, TypeOK, OneInitializer, LateAttemptsConflict, WrongKeyRefused
<1>2. SetupInv /\ [Next]_vars => SetupInv'
  <2> SUFFICES ASSUME SetupInv, [Next]_vars PROVE SetupInv'
    OBVIOUS
  <2>1. CASE UNCHANGED vars
    BY <2>1 DEF vars, SetupInv, TypeOK, OneInitializer, LateAttemptsConflict, WrongKeyRefused
  <2>2. ASSUME NEW r \in Replica, Start(r) \/ Crash(r) PROVE SetupInv'
    BY <2>2, StartStep
  <2>3. ASSUME NEW a \in Attempt, Initialize(a) PROVE SetupInv'
    BY <2>3, InitializeStep
  <2> QED BY <2>1, <2>2, <2>3 DEF Next
<1> QED BY <1>1, <1>2, PTL DEF Spec

\* Every variable keeps its type.
THEOREM TypeCorrect == Spec => []TypeOK
<1>1. SetupInv => TypeOK
  BY DEF SetupInv
<1> QED BY <1>1, SetupInvariant, PTL

\* At most one admin is told "initialized", the one the database names.
THEOREM OneInitializerHolds == Spec => []OneInitializer
<1>1. SetupInv => OneInitializer
  BY DEF SetupInv
<1> QED BY <1>1, SetupInvariant, PTL

\* A request that arrives after initialization gets its 409 on every replica.
THEOREM LateAttemptsConflictHolds == Spec => []LateAttemptsConflict
<1>1. SetupInv => LateAttemptsConflict
  BY DEF SetupInv
<1> QED BY <1>1, SetupInvariant, PTL

\* A boot after initialization with another key does not come up.
THEOREM WrongKeyRefusedHolds == Spec => []WrongKeyRefused
<1>1. SetupInv => WrongKeyRefused
  BY DEF SetupInv
<1> QED BY <1>1, SetupInvariant, PTL

\* Only Seed writes the row, and only where there is none.
THEOREM RecordStandsHolds == Spec => RecordStands
<1>1. [Next]_vars => [row # None => row' = row]_vars
  BY DEF Next, Start, Boot, Validate, Load, BootFault, Crash, Initialize, Begin, CheckSchema,
         CheckStatus, Migrate, Upgrade, UpgradeClash, Seed, SeedClash, SeedLost, Mark, Fault, vars
<1> QED BY <1>1, PTL DEF Spec, RecordStands

-----------------------------------------------------------------------------
(* The record *)

\* Who wrote the row never asks for another: AuthorInv is inductive beside SetupInv.
LEMMA AuthorStep ==
  ASSUME SetupInv, AuthorInv, [Next]_vars
  PROVE  AuthorInv'
<1> USE NoneAssumption DEF SetupInv, TypeOK, AuthorInv
<1>1. CASE UNCHANGED vars
  BY <1>1 DEF vars
<1>2. ASSUME NEW r \in Replica, Start(r) \/ Crash(r) PROVE AuthorInv'
  <2>1. CASE Start(r)
    BY <2>1 DEF Start, Boot, Validate, Load, BootFault
  <2>2. CASE Crash(r)
    BY <2>2 DEF Crash
  <2> QED BY <1>2, <2>1, <2>2
<1>3. ASSUME NEW a \in Attempt, Initialize(a) PROVE AuthorInv'
  <2> DEFINE Last == {"mark", "done"}
  <2>1. pc[a] \in Last => pc'[a] \in Last
    BY <1>3 DEF Initialize, Begin, CheckSchema, CheckStatus, Migrate, Upgrade,
       UpgradeClash, Seed, SeedClash, SeedLost, Mark, Fault
  <2>2. CASE row' = row
    <3>1. \A b \in Attempt : b # a => pc'[b] = pc[b]
      BY <1>3 DEF Initialize, Begin, CheckSchema, CheckStatus, Migrate, Upgrade,
         UpgradeClash, Seed, SeedClash, SeedLost, Mark, Fault
    <3>2. row # None => row.by \in Attempt
      OBVIOUS
    <3> QED BY <2>1, <2>2, <3>1, <3>2
  <2>3. CASE row' # row
    <3>1. row'.by = a /\ pc'[a] \in {"mark", "done"}
      BY <1>3, <2>3 DEF Initialize, Begin, CheckSchema, CheckStatus, Migrate, Upgrade,
         UpgradeClash, Seed, SeedClash, SeedLost, Mark, Fault
    <3> QED BY <3>1
  <2> QED BY <2>2, <2>3
<1> QED BY <1>1, <1>2, <1>3 DEF Next

Aware == {r \in Replica : flag[r]}

\* A boot makes a process forget or learn, and a crash drops its requests.
LEMMA StartRefines ==
  ASSUME SetupInv, NEW r \in Replica, Start(r) \/ Crash(r)
  PROVE  [Once!Next]_(Once!vars)
<1> USE DEF SetupInv, TypeOK, OneInitializer
<1>1. ASSUME NEW f \in KeyOrNone, Boot(r, f) PROVE Once!Forget(r)
  BY <1>1 DEF Boot, Once!Forget
<1>2. CASE Validate(r) \/ BootFault(r)
  BY <1>2 DEF Validate, BootFault, Once!vars
<1>3. CASE Load(r)
  <2>1. CASE row # None
    <3>1. flag' = [flag EXCEPT ![r] = row # None] /\ row' = row /\ answer' = answer
      BY <1>3 DEF Load
    <3>2. \A s \in Replica : flag'[s] <=> flag[s] \/ s = r
      BY <2>1, <3>1
    <3>3. Aware' = Aware \union {r} /\ row' = row /\ answer' = answer
      BY <3>1, <3>2 DEF Aware
    <3>4. Once!Learn(r)
      BY <2>1, <3>3 DEF Once!Learn, Aware
    <3> QED BY <3>4 DEF Once!Next
  <2>2. CASE row = None
    <3>1. flag' = flag /\ row' = row /\ answer' = answer
      BY <1>3, <2>2 DEF Load
    <3> QED BY <3>1 DEF Once!vars
  <2> QED BY <2>1, <2>2
<1>4. CASE Crash(r)
  <2> DEFINE A == {a \in Attempt : at[a] = r /\ InFlight(a)}
  <2>1. Once!Drop(A)
    BY <1>4 DEF Crash, InFlight, Once!Drop
  <2> QED BY <2>1 DEF Once!Next
<1>5. ASSUME NEW f \in KeyOrNone, Boot(r, f) PROVE [Once!Next]_(Once!vars)
  BY <1>1, <1>5 DEF Once!Next
<1> QED BY <1>2, <1>3, <1>4, <1>5 DEF Start

\* The seed claims the record, the mark confirms it, and every other return declines.
LEMMA InitializeRefines ==
  ASSUME SetupInv, AuthorInv, NEW a \in Attempt, Initialize(a)
  PROVE  [Once!Next]_(Once!vars)
<1> USE NoneAssumption DEF SetupInv, TypeOK, OneInitializer, AuthorInv
<1>1. CASE CheckSchema(a) \/ Migrate(a) \/ Upgrade(a)
  BY <1>1 DEF CheckSchema, Migrate, Upgrade, Once!vars
<1>2. ASSUME NEW s \in {"conflict", "clash", "failed"},
             answer[a] = "none", answer' = [answer EXCEPT ![a] = s],
             s = "conflict" => row # None,
             pc[a] \notin {"mark", "done"},
             UNCHANGED <<row, flag>>
      PROVE  [Once!Next]_(Once!vars)
  <2>1. row # None => row.by # a
    BY <1>2
  <2>2. Once!Decline(a, s)
    BY <1>2, <2>1 DEF Once!Decline
  <2> QED BY <2>2 DEF Once!Next
<1>3. ASSUME NEW r \in Replica, Begin(a, r) PROVE [Once!Next]_(Once!vars)
  <2>1. CASE flag[r]
    BY <1>2, <1>3, <2>1 DEF Begin
  <2>2. CASE ~flag[r]
    BY <1>3, <2>2 DEF Begin, Once!vars
  <2> QED BY <2>1, <2>2
<1>4. CASE CheckStatus(a)
  <2>1. CASE row # None
    BY <1>2, <1>4, <2>1 DEF CheckStatus
  <2>2. CASE row = None
    BY <1>4, <2>2 DEF CheckStatus, Once!vars
  <2> QED BY <2>1, <2>2
<1>5. CASE UpgradeClash(a)
  BY <1>2, <1>5 DEF UpgradeClash
<1>6. CASE SeedClash(a)
  BY <1>2, <1>6 DEF SeedClash
<1>7. CASE Fault(a)
  BY <1>2, <1>7 DEF Fault
<1>8. CASE Seed(a) \/ SeedLost(a)
  <2>1. at[a] \in Replica /\ answer[a] = "none" /\ key[at[a]] \in KeyOrNone
    BY <1>8 DEF Seed, SeedLost
  <2>2. Once!Claim(a, key[at[a]])
    BY <1>8, <2>1 DEF Seed, SeedLost, Once!Claim
  <2> QED BY <2>1, <2>2 DEF Once!Next
<1>9. CASE Mark(a)
  <2>1. at[a] \in Replica /\ answer[a] = "none" /\ row # None /\ row.by = a
    BY <1>9 DEF Mark
  <2>2. PICK r \in Replica : r = at[a]
    BY <2>1
  <2>3. Aware' = Aware \union {r}
    BY <1>9, <2>2 DEF Mark, Aware
  <2>4. Once!Confirm(a, r)
    BY <1>9, <2>1, <2>3 DEF Mark, Once!Confirm, Aware
  <2> HIDE NoneAssumption DEF SetupInv, TypeOK, OneInitializer, AuthorInv
  <2> QED BY <2>4 DEF Once!Next
<1> HIDE NoneAssumption DEF SetupInv, TypeOK, OneInitializer, AuthorInv, dbVars, bootVars, Goto,
         Return, Enter, KeyOrNone, Row, Matches
<1> QED BY <1>1, <1>3, <1>4, <1>5, <1>6, <1>7, <1>8, <1>9 DEF Initialize

\* Every step of the replicas and their database is a step of the abstract record, or
\* none of it.
THEOREM Refinement == Spec => ImplementsSystemRecord
<1>1. Init => Once!Init /\ AuthorInv
  BY DEF Init, Once!Init, AuthorInv
<1>2. SetupInv /\ AuthorInv /\ [Next]_vars => [Once!Next]_(Once!vars) /\ AuthorInv'
  <2> SUFFICES ASSUME SetupInv, AuthorInv, [Next]_vars PROVE [Once!Next]_(Once!vars)
    BY AuthorStep
  <2>1. CASE UNCHANGED vars
    BY <2>1 DEF vars, Once!vars
  <2>2. CASE Next
    BY <2>2, StartRefines, InitializeRefines DEF Next
  <2> QED BY <2>1, <2>2
<1> QED BY <1>1, <1>2, SetupInvariant, PTL DEF Spec, ImplementsSystemRecord, Once!Spec

\* What every step of a SystemRecord does to what was told, and to the record.
LEMMA RecordSteps ==
  ASSUME Once!TypeOK, [Once!Next]_(Once!vars)
  PROVE  /\ Once!TypeOK'
         /\ row # None => row' = row
         /\ \A a \in Attempt : answer[a] # "none" => answer'[a] = answer[a]
<1> USE DEF Once!TypeOK, Once!Replies
<1>1. CASE UNCHANGED Once!vars
  BY <1>1 DEF Once!vars
<1>2. ASSUME NEW a \in Attempt, NEW f \in KeyOrNone, Once!Claim(a, f)
      PROVE  /\ Once!TypeOK'
             /\ row # None => row' = row
             /\ \A b \in Attempt : answer[b] # "none" => answer'[b] = answer[b]
  BY <1>2 DEF Once!Claim
<1>3. ASSUME NEW a \in Attempt, NEW r \in Replica, Once!Confirm(a, r)
      PROVE  /\ Once!TypeOK'
             /\ row # None => row' = row
             /\ \A b \in Attempt : answer[b] # "none" => answer'[b] = answer[b]
  BY <1>3 DEF Once!Confirm
<1>4. ASSUME NEW a \in Attempt, NEW s \in {"conflict", "clash", "failed"}, Once!Decline(a, s)
      PROVE  /\ Once!TypeOK'
             /\ row # None => row' = row
             /\ \A b \in Attempt : answer[b] # "none" => answer'[b] = answer[b]
  BY <1>4 DEF Once!Decline
<1>5. ASSUME NEW r \in Replica, Once!Learn(r) \/ Once!Forget(r)
      PROVE  /\ Once!TypeOK'
             /\ row # None => row' = row
             /\ \A b \in Attempt : answer[b] # "none" => answer'[b] = answer[b]
  BY <1>5 DEF Once!Learn, Once!Forget
<1>6. ASSUME NEW A \in SUBSET Attempt, Once!Drop(A)
      PROVE  /\ Once!TypeOK'
             /\ row # None => row' = row
             /\ \A b \in Attempt : answer[b] # "none" => answer'[b] = answer[b]
  BY <1>6 DEF Once!Drop
<1> HIDE DEF Once!TypeOK
<1> QED BY <1>1, <1>2, <1>3, <1>4, <1>5, <1>6 DEF Once!Next

\* What was told stays true.
LEMMA RecordTruths ==
  ASSUME Once!TypeOK, Once!ToldTruly, [Once!Next]_(Once!vars)
  PROVE  Once!ToldTruly'
<1> USE NoneAssumption DEF Once!ToldTruly, Once!TypeOK
<1>1. CASE UNCHANGED Once!vars
  BY <1>1 DEF Once!vars
<1>2. ASSUME NEW a \in Attempt, NEW f \in KeyOrNone, Once!Claim(a, f) PROVE Once!ToldTruly'
  <2>1. /\ row = None /\ row' = [by |-> a, key |-> f] /\ answer[a] = "none"
        /\ answer' \in {answer, [answer EXCEPT ![a] = "failed"]}
    BY <1>2 DEF Once!Claim
  <2>2. row' # None /\ row'.by = a
    BY <2>1
  <2>3. \A b \in Attempt : answer'[b] = answer[b] \/ (b = a /\ answer'[b] = "failed")
    BY <2>1 DEF Once!Replies
  <2>4. \A b \in Attempt : answer[b] \notin {"initialized", "conflict"}
    BY <2>1
  <2> QED BY <2>1, <2>2, <2>3, <2>4
<1>3. ASSUME NEW a \in Attempt, NEW r \in Replica, Once!Confirm(a, r) PROVE Once!ToldTruly'
  BY <1>3 DEF Once!Confirm
<1>4. ASSUME NEW a \in Attempt, NEW s \in {"conflict", "clash", "failed"}, Once!Decline(a, s)
      PROVE  Once!ToldTruly'
  BY <1>4 DEF Once!Decline
<1>5. ASSUME NEW r \in Replica, Once!Learn(r) \/ Once!Forget(r) PROVE Once!ToldTruly'
  BY <1>5 DEF Once!Learn, Once!Forget
<1>6. ASSUME NEW A \in SUBSET Attempt, Once!Drop(A) PROVE Once!ToldTruly'
  BY <1>6 DEF Once!Drop
<1> HIDE NoneAssumption DEF Once!ToldTruly, Once!TypeOK
<1> QED BY <1>1, <1>2, <1>3, <1>4, <1>5, <1>6 DEF Once!Next

\* So a SystemRecord keeps its promises.
LEMMA RecordPromises == Once!Spec => Once!Promises
<1>1. Once!Init => Once!TypeOK /\ Once!ToldTruly
  BY DEF Once!Init, Once!TypeOK, Once!ToldTruly, Once!Replies
<1>2. Once!TypeOK /\ [Once!Next]_(Once!vars) => Once!TypeOK'
  BY RecordSteps
<1>3. Once!TypeOK /\ Once!ToldTruly /\ [Once!Next]_(Once!vars) => Once!ToldTruly'
  BY RecordTruths
<1>4. Once!TypeOK /\ [Once!Next]_(Once!vars) =>
        [/\ row # None => row' = row
         /\ \A a \in Attempt : answer[a] # "none" => answer'[a] = answer[a]]_(Once!vars)
  BY RecordSteps
<1> QED BY <1>1, <1>2, <1>3, <1>4, PTL DEF Once!Spec, Once!Promises, Once!Stands

\* What every admin concludes from an answer is true for good: the one that was told so
\* initialized the system, with the key that is recorded; one that was told of a conflict
\* did not, nor did one whose request failed on a unique key or an existing table (500).
THEOREM PromisesKept == Spec => Once!Promises
BY Refinement, RecordPromises DEF ImplementsSystemRecord
===============================================================================
