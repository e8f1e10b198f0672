---------------------------- MODULE SchemaStartup ----------------------------
(* The PostgreSQL schema: what every process does before it serves
   (ensure_postgres_schema_ready of storage/postgres_startup.py, called by the
   lifespan of api/server.py and by jobs/rq_worker.py), the Alembic migrations
   it runs (migrations/), and the operator's runs of the legacy cutover
   (storage/postgres_legacy_migration.py and postgres_legacy_cutover.py).

   Processes start together and share nothing but the database. A migration is
   one transaction (transaction_per_migration in migrations/env.py): its DDL and
   the new revision commit together or not at all, and Alembic aborts it when the
   revision is no longer the one it started from. No lock is held between two
   migrations, nor between reading the revision and acting on it.

   Alembic makes the column of the revision 32 characters wide, too short for the
   names of the later revisions: only a start of a process widens it, and only if the
   table is there when it looks. *)
EXTENDS Integers, FiniteSets

CONSTANTS
    Upgrader,      \* processes with the policy "auto_upgrade"
    Validator,     \* processes with the policy "validate" (production)
    Operator,      \* runs of the cutover script
    Crews,         \* the processes that may run together
    Newest,        \* number of migrations; the last one is the expected head
    Attempts,      \* postgres_migration_retries
    MaxFaults      \* lock timeouts, cut connections and killed processes

ASSUME SchemaAssumption ==
    /\ \A c \in Crews : c \subseteq Upgrader \union Validator \union Operator
    /\ Newest \in Nat /\ Newest > 3 /\ Attempts \in Nat \ {0}
    /\ MaxFaults \in Nat

Starter == Upgrader \union Validator
SchemaProcess == Starter \union Operator

(* The migrations that matter by themselves: the first creates the tables, the
   second drops the legacy tables, the third adds repos.last_queried_at. *)
Initial == 1
DropLegacy == 2
LastQueriedAt == 3
FirstLong == 4    \* the first revision whose name is longer than 32 characters

VARIABLES
    version,       \* the revision in alembic_version_repo, 0 when there is none
    column,        \* its column version_num: "none" (no table), "short" or "wide"
    applied,       \* migrations whose tables and columns exist
    odd,           \* the tables match no revision (a manual change, a partial restore)
    legacy,        \* the legacy tables exist
    row,           \* the repository's row in the new tables: "none", "legacy", "runtime"
    step,          \* where each process stands
    seen,          \* revision a process read when it began
    at,            \* revision the Alembic run of a process has reached
    attempt,
    verdict,       \* the operator's report
    known,         \* the database had a revision when the processes began
    crew,          \* the processes of this behaviour
    faults

dbVars == <<version, column, applied, odd, legacy, row>>
schemaVars == <<dbVars, step, seen, at, attempt, verdict, known, crew,
                faults>>

Behind == "upgrade"
ColumnState == {"none", "short", "wide"}

SchemaInit ==
    /\ version \in 0 .. Newest
    /\ known = (version > 0)
    /\ column \in {c \in ColumnState :
                      (known => c # "none") /\ (version >= FirstLong => c = "wide")}
    /\ \E n \in 0 .. Newest : applied = 1 .. n /\ (known => n = version)
    /\ odd \in {o \in BOOLEAN : o => applied = {} /\ ~known}
    /\ legacy \in {l \in BOOLEAN : l => DropLegacy \notin applied}
    /\ row = "none" /\ crew \in Crews
    /\ step = [p \in SchemaProcess |-> "down"]
    /\ seen = [p \in SchemaProcess |-> 0] /\ at = [p \in SchemaProcess |-> 0]
    /\ attempt = [p \in SchemaProcess |-> 1]
    /\ verdict = [p \in Operator |-> "none"]
    /\ faults = 0

-----------------------------------------------------------------------------
(* _classify_legacy_schema. The columns it requires are those of the third
   migration; what later ones add is not looked at. *)
LegacyState ==
    CASE odd -> "incompatible"
      [] ~odd /\ Initial \notin applied -> "absent"
      [] ~odd /\ {Initial, LastQueriedAt} \subseteq applied -> "compatible"
      [] OTHER -> "upgradeable_missing_last_queried_at"

(* Mutant: a database is stamped whatever its revision. *)
DecisionStamping(p) ==
    CASE p \in Validator /\ seen[p] = Newest -> "ready"
      [] p \in Validator /\ seen[p] # Newest -> "failed"
      [] p \in Upgrader /\ LegacyState = "compatible" -> "stamp_head"
      [] p \in Upgrader /\ LegacyState = "upgradeable_missing_last_queried_at" -> "stamp_base"
      [] p \in Upgrader /\ LegacyState = "incompatible" -> "failed"
      [] OTHER -> Behind

(* What the policy asks for, given the revision that was read earlier. *)
Decision(p) ==
    CASE p \in Validator /\ seen[p] = Newest -> "ready"
      [] p \in Validator /\ seen[p] # Newest -> "failed"
      [] p \in Upgrader /\ seen[p] = 0 /\ LegacyState = "compatible" -> "stamp_head"
      [] p \in Upgrader /\ seen[p] = 0 /\ LegacyState = "upgradeable_missing_last_queried_at" ->
            "stamp_base"
      [] p \in Upgrader /\ seen[p] = 0 /\ LegacyState = "incompatible" -> "failed"
      [] p \in Upgrader /\ seen[p] # Newest /\ (seen[p] # 0 \/ LegacyState = "absent") -> Behind
      [] OTHER -> "verify"

(* The process starts and reads the revision; the operator's script goes
   straight to "alembic upgrade head" (run_postgres_schema_command). *)
Boot(p) ==
    /\ p \in crew /\ step[p] = "down"
    /\ p \in Operator => verdict[p] = "none"
    /\ seen' = [seen EXCEPT ![p] = version]
    /\ attempt' = [attempt EXCEPT ![p] = 1]
    /\ step' = [step EXCEPT ![p] = IF p \in Operator THEN Behind ELSE "widen"]
    /\ UNCHANGED <<dbVars, at, verdict, known, crew, faults>>

(* _ensure_alembic_version_table_capacity, of both policies. *)
Widen(p) ==
    /\ step[p] = "widen"
    /\ column' = IF column = "none" THEN "none" ELSE "wide"
    /\ step' = [step EXCEPT ![p] = "classify"]
    /\ UNCHANGED <<version, applied, odd, legacy, row, seen, at, attempt, verdict, known, crew,
                   faults>>

Classify(p) ==
    /\ step[p] = "classify"
    /\ step' = [step EXCEPT ![p] = Decision(p)]
    /\ seen' = [seen EXCEPT ![p] = 0]
    /\ UNCHANGED <<dbVars, at, attempt, verdict, known, crew, faults>>

(* Alembic makes its table when there is none, in a transaction of its own. *)
TableIsMade == column' = IF column = "none" THEN "short" ELSE column
NameFits(revision) == revision < FirstLong \/ column = "wide"

(* alembic stamp: the revision is written, whatever it was, if the column holds it; no
   DDL runs. *)
Stamp(p) ==
    /\ step[p] \in {"stamp_head", "stamp_base"}
    /\ LET revision == IF step[p] = "stamp_head" THEN Newest ELSE DropLegacy
           next == IF step[p] = "stamp_head" THEN "verify" ELSE Behind
       IN  /\ version' = IF NameFits(revision) THEN revision ELSE version
           /\ step' = [step EXCEPT ![p] = IF NameFits(revision) THEN next ELSE "failed"]
    /\ TableIsMade
    /\ UNCHANGED <<applied, odd, legacy, row, seen, at, attempt, verdict, known, crew, faults>>

(* alembic upgrade head: the revision is read once, at the beginning. *)
BeginUpgrade(p) ==
    /\ step[p] = Behind
    /\ at' = [at EXCEPT ![p] = version]
    /\ step' = [step EXCEPT ![p] = "migrating"]
    /\ TableIsMade
    /\ UNCHANGED <<version, applied, odd, legacy, row, seen, attempt, verdict, known, crew, faults>>

(* The DDL of a migration fails on what exists already; dropping the legacy
   tables asks first. Alembic then moves the revision from the one it expects, if the
   new name fits: a database that was empty is left at the third revision by its first
   start. *)
DdlRuns(i) == i = DropLegacy \/ (i \notin applied /\ (i = Initial => ~odd))
Commits(p) == DdlRuns(at[p] + 1) /\ version = at[p] /\ NameFits(at[p] + 1)

Apply(i) ==
    /\ applied' = applied \union {i}
    /\ version' = i
    /\ legacy' = (legacy /\ i # DropLegacy)
    /\ UNCHANGED <<column, odd, row>>

Migrate(p) ==
    /\ step[p] = "migrating" /\ at[p] < Newest /\ Commits(p)
    /\ Apply(at[p] + 1)
    /\ at' = [at EXCEPT ![p] = @ + 1]
    /\ UNCHANGED <<step, seen, attempt, verdict, known, crew, faults>>

(* _upgrade_to_head_with_retries; the operator's script has one attempt. *)
RetryOrFail(p) ==
    IF p \in Upgrader /\ attempt[p] < Attempts
    THEN /\ attempt' = [attempt EXCEPT ![p] = @ + 1]
         /\ step' = [step EXCEPT ![p] = Behind]
    ELSE /\ step' = [step EXCEPT ![p] = "failed"]
         /\ attempt' = attempt

MigrationAborts(p) ==
    /\ step[p] = "migrating" /\ at[p] < Newest /\ ~Commits(p)
    /\ RetryOrFail(p)
    /\ at' = [at EXCEPT ![p] = 0]
    /\ UNCHANGED <<dbVars, seen, verdict, known, crew, faults>>

(* A lock timeout, or a connection cut before or after the commit. *)
MigrationFault(p) ==
    /\ step[p] = "migrating" /\ at[p] < Newest /\ faults < MaxFaults
    /\ faults' = faults + 1
    /\ UNCHANGED dbVars \/ (Commits(p) /\ Apply(at[p] + 1))
    /\ RetryOrFail(p)
    /\ at' = [at EXCEPT ![p] = 0]
    /\ UNCHANGED <<seen, verdict, known, crew>>

UpgradeDone(p) ==
    /\ step[p] = "migrating" /\ at[p] = Newest
    /\ step' = [step EXCEPT ![p] = IF p \in Operator THEN "copy" ELSE "verify"]
    /\ at' = [at EXCEPT ![p] = 0]
    /\ UNCHANGED <<dbVars, seen, attempt, verdict, known, crew, faults>>

(* The revision is read again before the process serves. *)
VerifyHead(p) ==
    /\ step[p] = "verify"
    /\ step' = [step EXCEPT ![p] = IF version = Newest THEN "ready" ELSE "failed"]
    /\ attempt' = [attempt EXCEPT ![p] = 1]
    /\ UNCHANGED <<dbVars, seen, at, verdict, known, crew, faults>>

(* A failed start ends the process and Kubernetes starts it again. *)
StartAgain(p) ==
    /\ p \in Starter /\ step[p] = "failed"
    /\ step' = [step EXCEPT ![p] = "down"]
    /\ UNCHANGED <<dbVars, seen, at, attempt, verdict, known, crew, faults>>

(* The process is killed before it is ready: the deadline of the lifespan, an
   eviction. *)
Killed(p) ==
    /\ p \in Starter /\ step[p] \notin {"down", "ready"} /\ faults < MaxFaults
    /\ faults' = faults + 1
    /\ step' = [step EXCEPT ![p] = "down"]
    /\ seen' = [seen EXCEPT ![p] = 0] /\ at' = [at EXCEPT ![p] = 0]
    /\ UNCHANGED <<dbVars, attempt, verdict, known, crew>>

-----------------------------------------------------------------------------
(* run_legacy_postgres_data_migration: the legacy tables that are there are
   copied and audited in one transaction; a row of the same id is overwritten. *)
CopyLegacy(p) ==
    /\ step[p] = "copy"
    /\ row' = IF legacy THEN "legacy" ELSE row
    /\ step' = [step EXCEPT ![p] = IF legacy THEN "audited" ELSE "nothing_found"]
    /\ UNCHANGED <<version, column, applied, odd, legacy, seen, at, attempt, verdict, known, crew,
                   faults>>

(* run_legacy_postgres_cutover: a missing legacy table or revisions that differ
   are not ready; validate raises when they do. *)
AutomaticReady(p) == step[p] = "audited" /\ version = Newest

Conclude(p) ==
    /\ step[p] \in {"audited", "nothing_found"}
    /\ verdict' = [verdict EXCEPT ![p] = IF AutomaticReady(p) THEN "cutover_ready"
                                                              ELSE "not_ready"]
    /\ step' = [step EXCEPT ![p] = "down"]
    /\ UNCHANGED <<dbVars, seen, at, attempt, known, crew, faults>>

(* The runtime indexes the repository again. *)
RuntimeWrites ==
    /\ \E p \in Starter : step[p] = "ready"
    /\ row' = "runtime"
    /\ UNCHANGED <<version, column, applied, odd, legacy, step, seen, at, attempt, verdict, known,
                   crew, faults>>

(* What a process does by itself. *)
Proceed(p) ==
    \/ Boot(p) \/ Widen(p) \/ Classify(p) \/ Stamp(p) \/ BeginUpgrade(p) \/ Migrate(p)
    \/ MigrationAborts(p) \/ UpgradeDone(p) \/ VerifyHead(p) \/ StartAgain(p)
    \/ CopyLegacy(p) \/ Conclude(p)

SchemaNext ==
    \/ \E p \in SchemaProcess : Proceed(p) \/ MigrationFault(p) \/ Killed(p)
    \/ RuntimeWrites

(* A process that runs goes on, and Kubernetes restarts it. *)
SchemaFairness == \A p \in Starter : WF_schemaVars(Proceed(p))

SchemaSpec == SchemaInit /\ [][SchemaNext]_schemaVars /\ SchemaFairness

-----------------------------------------------------------------------------
SchemaTypeOK ==
    /\ version \in 0 .. Newest /\ applied \subseteq 1 .. Newest
    /\ column \in ColumnState /\ odd \in BOOLEAN /\ legacy \in BOOLEAN
    /\ row \in {"none", "legacy", "runtime"}
    /\ \A p \in SchemaProcess : at[p] \in 0 .. Newest /\ attempt[p] \in 1 .. Attempts

(* A database that had a revision keeps telling the truth: whichever processes
   start, retry and die together, the revision names exactly the migrations that
   have run (migrations/env.py, _upgrade_to_head_with_retries). *)
RevisionIsTrue == known => applied = 1 .. version

(* A process serves only on the schema it was written for, when the database had
   a revision to begin with (the second _read_database_heads). *)
ReadyMeansMigrated ==
    known => \A p \in Starter : step[p] = "ready" => applied = 1 .. Newest

(* Every process gets ready in the end, whoever wins the races and however many
   of their attempts the losers use up: production processes, too, once somebody
   has upgraded. *)
ProcessesGetReady ==
    (known /\ Upgrader \intersect crew # {})
        ~> (\A p \in Starter \intersect crew : step[p] = "ready")

(* A report that approves the cutover can be taken back: the legacy tables are
   still there, for as long as the report stands (run_legacy_postgres_cutover). *)
CutoverCanBeUndone == \A p \in Operator : verdict[p] = "cutover_ready" => legacy

(* The documented way to move the legacy rows loses none of them: a database
   that had them keeps them in the legacy tables or has them in the new ones. *)
LegacyRowsSurvive == [][legacy /\ ~legacy' => row = "legacy"]_schemaVars

(* Not so: tables with missing columns are not taken for the current schema. *)
PartialIsNotStamped == version = Newest => applied = 1 .. Newest

(* Not so: what the runtime has written since the cutover survives the report that
   closes the observation window. *)
NewerRowsSurvive == [][row = "runtime" => row' = "runtime"]_schemaVars

(* The revision says what the schema holds, a process that serves has the schema it
   needs, and an approved cutover can still be taken back. *)
SchemaIsTrue == RevisionIsTrue /\ ReadyMeansMigrated /\ CutoverCanBeUndone

-----------------------------------------------------------------------------
(* Why it is so: the inductive invariant. A revision that was there is never stamped over
   and never goes back; and once it is past the migration that drops the legacy tables,
   nothing drops them, whatever is stamped. *)
SchemaSteps ==
    {"down", "widen", "classify", "stamp_head", "stamp_base", Behind, "migrating", "verify", "ready",
     "failed", "copy", "audited", "nothing_found"}

KnownIsKept ==
    known =>
        /\ version > 0 /\ applied = 1 .. version
        /\ \A p \in SchemaProcess :
              /\ seen[p] <= version /\ step[p] \notin {"stamp_head", "stamp_base"}
              /\ step[p] \in {"widen", "classify"} => seen[p] > 0
              /\ step[p] = "ready" => version = Newest
PastTheDrop ==
    \A p \in SchemaProcess :
        at[p] >= DropLegacy \/ step[p] \in {"copy", "audited", "nothing_found"}
            => version >= DropLegacy
KeptForTheCutover ==
    /\ \A p \in SchemaProcess : step[p] = "audited" => legacy
    /\ \A p \in Operator : verdict[p] = "cutover_ready" => legacy /\ version >= DropLegacy

SchemaIInv ==
    /\ SchemaTypeOK /\ known \in BOOLEAN
    /\ step \in [SchemaProcess -> SchemaSteps]
    /\ seen \in [SchemaProcess -> 0 .. Newest] /\ at \in [SchemaProcess -> 0 .. Newest]
    /\ attempt \in [SchemaProcess -> 1 .. Attempts]
    /\ verdict \in [Operator -> {"none", "cutover_ready", "not_ready"}]
    /\ KnownIsKept /\ PastTheDrop /\ KeptForTheCutover
=============================================================================
