--------------------------------- MODULE Setup ---------------------------------
(***************************************************************************)
(* First-time initialization: lifespan and setup/startup.py on every       *)
(* replica's boot, setup_initialize and initialize_system on every         *)
(* POST /admin/setup/initialize, and the PostgreSQL database they share.   *)
(*                                                                         *)
(* The database is external: the migration and the seed are transactions,  *)
(* DDL of a second migration waits for the first and then fails, and       *)
(* system_state has the primary key 1.  Statements of one request see each *)
(* what was committed before (READ COMMITTED), so the steps of two         *)
(* requests interleave between them.                                       *)
(***************************************************************************)

CONSTANTS
  Replica,    \* application processes on the database
  Attempt,    \* initialize requests of the bootstrap admin
  MasterKey,  \* fingerprints of configured encryption keys
  None        \* no key, row or replica

VARIABLES
  schema,     \* the tables exist
  row,        \* the row of system_state, or None
  phase,      \* phase[r]: where r's lifespan is
  key,        \* key[r]: fingerprint of the key r runs with, None for no encryption
  flag,       \* flag[r]: system_initialized
  pc,         \* pc[a]: what request a does next
  at,         \* at[a]: the replica that handles a
  answer,     \* answer[a]: what the admin was told
  late,       \* history: requests that arrived when the row was there
  warned      \* history: replicas whose boot began when the row was there

dbVars == <<schema, row>>
bootVars == <<phase, key, flag, warned>>
vars == <<dbVars, bootVars, pc, at, answer, late>>

KeyOrNone == MasterKey \union {None}
Row == [by : Attempt, key : KeyOrNone]

ASSUME NoneAssumption == None \notin Row /\ None \notin Replica

TypeOK ==
  /\ schema \in BOOLEAN
  /\ row \in Row \union {None}
  /\ phase \in [Replica -> {"down", "validate", "load", "running"}]
  /\ key \in [Replica -> KeyOrNone]
  /\ flag \in [Replica -> BOOLEAN]
  /\ pc \in [Attempt -> {"idle", "schema", "status", "migrate", "upgrade", "seed", "mark", "done"}]
  /\ at \in [Attempt -> Replica \union {None}]
  /\ answer \in [Attempt -> {"none", "initialized", "conflict", "clash", "failed"}]
  /\ late \subseteq Attempt
  /\ warned \subseteq Replica

\* A database with the schema but no row has been migrated by hand.
Init ==
  /\ schema \in BOOLEAN
  /\ row = None
  /\ phase = [r \in Replica |-> "down"]
  /\ key = [r \in Replica |-> None]
  /\ flag = [r \in Replica |-> FALSE]
  /\ pc = [a \in Attempt |-> "idle"]
  /\ at = [a \in Attempt |-> None]
  /\ answer = [a \in Attempt |-> "none"]
  /\ late = {}
  /\ warned = {}

Goto(a, l) == pc' = [pc EXCEPT ![a] = l]
Return(a, s) == Goto(a, "done") /\ answer' = [answer EXCEPT ![a] = s]
Enter(r, p) == phase' = [phase EXCEPT ![r] = p]

-----------------------------------------------------------------------------
(* Boot *)

\* lifespan builds the AppState with the key of the present configuration.
Boot(r, f) ==
  /\ phase[r] = "down"
  /\ Enter(r, "validate")
  /\ key' = [key EXCEPT ![r] = f]
  /\ flag' = [flag EXCEPT ![r] = FALSE]
  /\ warned' = IF row # None THEN warned \union {r} ELSE warned \ {r}
  /\ UNCHANGED <<dbVars, pc, at, answer, late>>

\* The recorded fingerprint is compared when there are two to compare.
Matches(f) == f = None \/ row.key = None \/ f = row.key

\* Mutant: the fingerprints are not compared.
ValidateNothing(r) ==
  /\ phase[r] = "validate"
  /\ Enter(r, "load")
  /\ UNCHANGED <<dbVars, key, flag, warned, pc, at, answer, late>>

\* validate_startup_database: no tables or no row is a system awaiting setup;
\* a fingerprint other than the recorded one stops the process.
Validate(r) ==
  /\ phase[r] = "validate"
  /\ Enter(r, IF row = None \/ Matches(key[r]) THEN "load" ELSE "down")
  /\ UNCHANGED <<dbVars, key, flag, warned, pc, at, answer, late>>

\* load_system_initialized reads again, in a session of its own.
Load(r) ==
  /\ phase[r] = "load"
  /\ flag' = [flag EXCEPT ![r] = row # None]
  /\ Enter(r, "running")
  /\ UNCHANGED <<dbVars, key, warned, pc, at, answer, late>>

\* The database does not answer: the process exits.
BootFault(r) ==
  /\ phase[r] \in {"validate", "load"}
  /\ Enter(r, "down")
  /\ UNCHANGED <<dbVars, key, flag, warned, pc, at, answer, late>>

-----------------------------------------------------------------------------
(* setup_initialize *)

\* Mutant: the flag is set before the database is asked.
BeginMarking(a, r) ==
  /\ pc[a] = "idle"
  /\ phase[r] = "running"
  /\ at' = [at EXCEPT ![a] = r]
  /\ late' = IF row # None THEN late \union {a} ELSE late
  /\ flag' = [flag EXCEPT ![r] = TRUE]
  /\ IF flag[r] THEN Return(a, "conflict") ELSE Goto(a, "schema") /\ answer' = answer
  /\ UNCHANGED <<dbVars, phase, key, warned>>

\* This replica's flag decides first.
Begin(a, r) ==
  /\ pc[a] = "idle"
  /\ phase[r] = "running"
  /\ at' = [at EXCEPT ![a] = r]
  /\ late' = IF row # None THEN late \union {a} ELSE late
  /\ IF flag[r] THEN Return(a, "conflict") ELSE Goto(a, "schema") /\ answer' = answer
  /\ UNCHANGED <<dbVars, bootVars>>

\* Mutant: a schema that is there is not asked for its row.
CheckSchemaOnly(a) ==
  /\ pc[a] = "schema"
  /\ Goto(a, IF schema THEN "seed" ELSE "migrate")
  /\ UNCHANGED <<dbVars, bootVars, at, answer, late>>

\* schema_tables_exist.
CheckSchema(a) ==
  /\ pc[a] = "schema"
  /\ Goto(a, IF schema THEN "status" ELSE "migrate")
  /\ UNCHANGED <<dbVars, bootVars, at, answer, late>>

\* read_initialization_status.
CheckStatus(a) ==
  /\ pc[a] = "status"
  /\ IF row # None THEN Return(a, "conflict") ELSE Goto(a, "seed") /\ answer' = answer
  /\ UNCHANGED <<dbVars, bootVars, at, late>>

\* alembic upgrade head, on a connection of its own.  At the head already there
\* is nothing to do; else its transaction begins.
Migrate(a) ==
  /\ pc[a] = "migrate"
  /\ Goto(a, IF schema THEN "seed" ELSE "upgrade")
  /\ UNCHANGED <<dbVars, bootVars, at, answer, late>>

\* The migration commits, unless another has meanwhile.
Upgrade(a) ==
  /\ pc[a] = "upgrade"
  /\ ~schema
  /\ schema' = TRUE
  /\ Goto(a, "seed")
  /\ UNCHANGED <<row, bootVars, at, answer, late>>

\* CREATE TABLE waited for that other one, and now the table exists: 500.
UpgradeClash(a) ==
  /\ pc[a] = "upgrade"
  /\ schema
  /\ Return(a, "clash")
  /\ UNCHANGED <<dbVars, bootVars, at, late>>

\* Mutant: session.merge in place of session.add.
SeedOver(a) ==
  /\ pc[a] = "seed"
  /\ row' = [by |-> a, key |-> key[at[a]]]
  /\ Goto(a, "mark")
  /\ UNCHANGED <<schema, bootVars, at, answer, late>>

\* Mutant: the process is recorded in place of the admin.
SeedByReplica(a) ==
  /\ pc[a] = "seed"
  /\ row = None
  /\ row' = [by |-> at[a], key |-> key[at[a]]]
  /\ Goto(a, "mark")
  /\ UNCHANGED <<schema, bootVars, at, answer, late>>

\* One transaction: system_state, groups, permissions and tokens.
Seed(a) ==
  /\ pc[a] = "seed"
  /\ row = None
  /\ row' = [by |-> a, key |-> key[at[a]]]
  /\ Goto(a, "mark")
  /\ UNCHANGED <<schema, bootVars, at, answer, late>>

\* The primary key is taken: IntegrityError, which nothing maps to 409.
SeedClash(a) ==
  /\ pc[a] = "seed"
  /\ row # None
  /\ Return(a, "clash")
  /\ UNCHANGED <<dbVars, bootVars, at, late>>

\* The commit takes effect and its response is lost.
SeedLost(a) ==
  /\ pc[a] = "seed"
  /\ row = None
  /\ row' = [by |-> a, key |-> key[at[a]]]
  /\ Return(a, "failed")
  /\ UNCHANGED <<schema, bootVars, at, late>>

\* state.system_initialized = True, and the answer.
Mark(a) ==
  /\ pc[a] = "mark"
  /\ flag' = [flag EXCEPT ![at[a]] = TRUE]
  /\ Return(a, "initialized")
  /\ UNCHANGED <<dbVars, phase, key, warned, at, late>>

\* The database does not answer, or the encryption key is missing.
Fault(a) ==
  /\ pc[a] \in {"schema", "status", "migrate", "upgrade", "seed"}
  /\ Return(a, "failed")
  /\ UNCHANGED <<dbVars, bootVars, at, late>>

-----------------------------------------------------------------------------

InFlight(a) == pc[a] \notin {"idle", "done"}

\* The process stops; its transactions are rolled back and its requests cut off.
Crash(r) ==
  /\ phase[r] # "down"
  /\ Enter(r, "down")
  /\ pc' = [a \in Attempt |-> IF at[a] = r /\ InFlight(a) THEN "done" ELSE pc[a]]
  /\ answer' = [a \in Attempt |-> IF at[a] = r /\ InFlight(a) THEN "failed" ELSE answer[a]]
  /\ UNCHANGED <<dbVars, key, flag, warned, at, late>>

Start(r) == (\E f \in KeyOrNone : Boot(r, f)) \/ Validate(r) \/ Load(r) \/ BootFault(r)

Initialize(a) ==
  \/ \E r \in Replica : Begin(a, r)
  \/ CheckSchema(a) \/ CheckStatus(a)
  \/ Migrate(a) \/ Upgrade(a) \/ UpgradeClash(a)
  \/ Seed(a) \/ SeedClash(a) \/ SeedLost(a)
  \/ Mark(a) \/ Fault(a)

Next ==
  \/ \E r \in Replica : Start(r) \/ Crash(r)
  \/ \E a \in Attempt : Initialize(a)

Spec == Init /\ [][Next]_vars

-----------------------------------------------------------------------------
(* Properties *)

\* Who is told "initialized" is who the database says did it, so of two racing
\* admins one at most; and no replica takes the system for initialized before
\* the database does.
OneInitializer ==
  /\ \A a \in Attempt : answer[a] = "initialized" => row # None /\ row.by = a
  /\ \A r \in Replica : flag[r] => row # None

\* The recorded key and author are there for good: secrets encrypted under one
\* key are never relabelled with another.
RecordStands == [][row # None => row' = row]_vars

\* operations.md: "409 Conflict if initialization was already performed".  It is
\* never run again, and no other error shows, on any replica; a database that
\* fails may of course answer 500 or 503.
LateAttemptsConflict ==
  \A a \in late : answer[a] \notin {"initialized", "clash"}

\* operations.md: "key fingerprint mismatch: fail fast".  A boot that began when
\* the system was initialized does not end in a process with another key.
WrongKeyRefused ==
  \A r \in warned : phase[r] \in {"load", "running"} => row # None /\ Matches(key[r])

\* The replicas, their database and its transactions do what SystemRecord says: the
\* flag of each process is what it knows.
Once == INSTANCE SystemRecord WITH
  Key <- KeyOrNone,
  record <- row,
  told <- answer,
  aware <- {r \in Replica : flag[r]}

ImplementsSystemRecord == Once!Spec

\* The refinement needs to know that whoever wrote the row asks for nothing more.
AuthorInv == row # None => pc[row.by] \in {"mark", "done"}

\* The inductive invariant behind them.
SetupInv ==
  /\ TypeOK
  /\ OneInitializer
  /\ LateAttemptsConflict
  /\ WrongKeyRefused
  /\ row # None => schema
  /\ late # {} \/ warned # {} => row # None
  /\ \A a \in Attempt :
       /\ pc[a] \notin {"idle", "done"} => at[a] \in Replica /\ answer[a] = "none"
       /\ pc[a] = "idle" => answer[a] = "none"
       /\ a \in late => pc[a] \notin {"idle", "migrate", "upgrade", "seed", "mark"}
       /\ pc[a] \in {"status", "seed"} => schema
       /\ pc[a] = "mark" => row # None /\ row.by = a
===============================================================================
