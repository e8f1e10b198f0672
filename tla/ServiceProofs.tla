----------------------------- MODULE ServiceProofs -----------------------------
(* Theorems about the processes and clients of the service, for every value of the
   constants and every bound: SchemaStartup, for any crew, number of migrations and
   number of attempts; IngestClients, for any repositories and jobs; the preflight of a
   request, StorageHealth, for any times; the answers to a question: QueryFlow,
   LlmClient and LiteralMode, for any question, models, names and lines of a source; and
   the invariants of the composed MCService, from those of its parts. The proofs about
   ChromaUpsert, one of the parts, are in IngestProofs. *)
EXTENDS MCService, IngestProofs

(* The numbers of the migrations. *)
LEMMA Migrations ==
  /\ Newest \in Nat /\ Newest > 3 /\ Attempts \in Nat \ {0}
  /\ Initial = 1 /\ DropLegacy = 2 /\ LastQueriedAt = 3 /\ FirstLong = 4
  BY SchemaAssumption DEF Initial, DropLegacy, LastQueriedAt, FirstLong

(* A process moves to another step and leaves the schema as it is: what it has read and reached
   may be forgotten, never invented. *)
LEMMA ProcessMoves ==
  ASSUME SchemaIInv, NEW p \in SchemaProcess, NEW next \in SchemaSteps,
         UNCHANGED <<version, applied, odd, legacy, known>>,
         row' \in {"none", "legacy", "runtime"}, column' \in ColumnState,
         step' = [step EXCEPT ![p] = next],
         seen' \in {seen, [seen EXCEPT ![p] = 0], [seen EXCEPT ![p] = version]},
         at' \in {at, [at EXCEPT ![p] = 0], [at EXCEPT ![p] = version]},
         attempt' \in [SchemaProcess -> 1 .. Attempts],
         verdict' \in [Operator -> {"none", "cutover_ready", "not_ready"}],
         known /\ next \in {"widen", "classify"} => seen'[p] > 0,
         known => next \notin {"stamp_head", "stamp_base"},
         next = "ready" => version = Newest \/ ~known,
         next \in {"copy", "audited", "nothing_found"} => version >= DropLegacy,
         next = "audited" => legacy,
         \A q \in Operator : verdict'[q] = "cutover_ready" => legacy /\ version >= DropLegacy
  PROVE  SchemaIInv'
  <1>1. /\ step' \in [SchemaProcess -> SchemaSteps] /\ step'[p] = next
        /\ \A q \in SchemaProcess \ {p} : step'[q] = step[q]
        /\ UNCHANGED <<version, applied, odd, legacy, known>>
        /\ version \in 0 .. Newest
    BY DEF SchemaIInv, SchemaTypeOK
  <1>2. /\ seen' \in [SchemaProcess -> 0 .. Newest] /\ at' \in [SchemaProcess -> 0 .. Newest]
        /\ \A q \in SchemaProcess : /\ seen'[q] \in {seen[q], 0, version}
                                   /\ at'[q] \in {at[q], 0, version}
                                   /\ q # p => seen'[q] = seen[q]
    BY <1>1, Migrations DEF SchemaIInv
  <1>3. SchemaTypeOK'
    BY <1>1, <1>2 DEF SchemaIInv, SchemaTypeOK
  <1>4. KnownIsKept'
    <2> SUFFICES ASSUME known
                 PROVE  KnownIsKept'
      BY <1>1 DEF KnownIsKept
    <2>1. version > 0 /\ applied = 1 .. version
      BY DEF SchemaIInv, KnownIsKept
    <2>2. ASSUME NEW q \in SchemaProcess
          PROVE  /\ seen'[q] <= version /\ step'[q] \notin {"stamp_head", "stamp_base"}
                 /\ step'[q] \in {"widen", "classify"} => seen'[q] > 0
                 /\ step'[q] = "ready" => version = Newest
      <3>1. /\ seen[q] <= version /\ step[q] \notin {"stamp_head", "stamp_base"}
            /\ step[q] \in {"widen", "classify"} => seen[q] > 0
            /\ step[q] = "ready" => version = Newest
        BY DEF SchemaIInv, KnownIsKept
      <3>2. seen'[q] <= version
        BY <1>1, <1>2, <3>1
      <3> QED BY <1>1, <1>2, <3>1, <3>2
    <2> QED BY <1>1, <2>1, <2>2 DEF KnownIsKept
  <1>5. PastTheDrop'
    BY <1>1, <1>2, Migrations DEF SchemaIInv, PastTheDrop
  <1>6. KeptForTheCutover'
    BY <1>1 DEF SchemaIInv, KeptForTheCutover
  <1> QED BY <1>1, <1>2, <1>3, <1>4, <1>5, <1>6 DEF SchemaIInv

(* A migration commits, and its run goes on or is cut off: the revision moves by one, and
   the legacy tables are dropped by the second migration only. *)
LEMMA MigrationKeeps ==
  ASSUME SchemaIInv, NEW p \in SchemaProcess, step[p] = "migrating", at[p] < Newest,
         Commits(p), Apply(at[p] + 1), UNCHANGED <<seen, verdict, known>>,
         at' \in {[at EXCEPT ![p] = @ + 1], [at EXCEPT ![p] = 0]},
         attempt' \in [SchemaProcess -> 1 .. Attempts],
         NEW next \in {"migrating", Behind, "failed"}, step' = [step EXCEPT ![p] = next]
  PROVE  SchemaIInv'
  <1>1. /\ version = at[p] /\ version' = version + 1 /\ applied' = applied \union {version'}
        /\ version \in 0 .. Newest /\ version' \in 1 .. Newest
        /\ legacy' = (legacy /\ version' # DropLegacy) /\ UNCHANGED <<column, odd, row>>
    BY Migrations DEF Commits, Apply, SchemaIInv, SchemaTypeOK
  <1>2. /\ step' \in [SchemaProcess -> SchemaSteps] /\ step'[p] = next
        /\ \A q \in SchemaProcess \ {p} : step'[q] = step[q]
    BY DEF SchemaIInv, SchemaSteps
  <1>3. /\ at' \in [SchemaProcess -> 0 .. Newest]
        /\ \A q \in SchemaProcess : at'[q] = at[q] \/ at'[q] \in {0, version'}
    <2>1. at \in [SchemaProcess -> 0 .. Newest] /\ version' = at[p] + 1
      BY <1>1 DEF SchemaIInv
    <2>2. at' = [at EXCEPT ![p] = version'] \/ at' = [at EXCEPT ![p] = 0]
      BY <2>1
    <2> QED BY <1>1, <2>1, <2>2, Migrations
  <1>4. SchemaTypeOK'
    <2>1. applied' \subseteq 1 .. Newest
      <3>1. applied \subseteq 1 .. Newest
        BY DEF SchemaIInv, SchemaTypeOK
      <3>2. applied' = applied \union {version'} /\ version' \in 1 .. Newest
        BY <1>1
      <3> QED BY <3>1, <3>2
    <2>5. version' \in 0 .. Newest
      BY <1>1, Migrations
    <2>2. legacy' \in BOOLEAN
      <3>1. legacy' = (legacy /\ at[p] + 1 # DropLegacy)
        BY DEF Apply
      <3> QED BY ONLY <3>1, Zenon
    <2>3. /\ odd' \in BOOLEAN /\ row' \in {"none", "legacy", "runtime"}
          /\ column' \in ColumnState
      BY <1>1 DEF SchemaIInv, SchemaTypeOK
    <2>4. \A q \in SchemaProcess : at'[q] \in 0 .. Newest /\ attempt'[q] \in 1 .. Attempts
      BY <1>3
    <2> QED BY <2>1, <2>2, <2>3, <2>4, <2>5 DEF SchemaTypeOK
  <1>5. KnownIsKept'
    <2> SUFFICES ASSUME known
                 PROVE  KnownIsKept'
      BY DEF KnownIsKept
    <2>1. version > 0 /\ applied = 1 .. version
      BY DEF SchemaIInv, KnownIsKept
    <2>2. version' > 0 /\ applied' = 1 .. version'
      BY <1>1, <2>1
    <2>3. \A q \in SchemaProcess :
            /\ seen'[q] <= version' /\ step'[q] \notin {"stamp_head", "stamp_base"}
            /\ step'[q] \in {"widen", "classify"} => seen'[q] > 0
            /\ step'[q] = "ready" => version' = Newest
      BY <1>1, <1>2, Migrations DEF SchemaIInv, KnownIsKept, Behind
    <2> QED BY <2>2, <2>3 DEF KnownIsKept
  <1>6. PastTheDrop'
    BY <1>1, <1>2, <1>3, Migrations DEF SchemaIInv, PastTheDrop, Behind
  <1>7. version >= DropLegacy => legacy' = legacy
    BY <1>1, Migrations DEF SchemaIInv, SchemaTypeOK
  <1>8. KeptForTheCutover'
    <2>1. ASSUME NEW q \in SchemaProcess, step'[q] = "audited"
          PROVE  legacy'
      BY <1>2, <1>7, <2>1 DEF SchemaIInv, PastTheDrop, KeptForTheCutover, Behind
    <2>2. ASSUME NEW q \in Operator, verdict[q] = "cutover_ready"
          PROVE  legacy' /\ version' >= DropLegacy
      BY <1>1, <1>7, <2>2, Migrations DEF SchemaIInv, KeptForTheCutover
    <2> QED BY <2>1, <2>2 DEF KeptForTheCutover
  <1> QED BY <1>2, <1>3, <1>4, <1>5, <1>6, <1>8 DEF SchemaIInv
(* What a process decides on: a stamp only where it read no revision, to serve only where
   it read the newest. *)
LEMMA Decides ==
  ASSUME NEW p \in SchemaProcess, SchemaIInv, step[p] = "classify"
  PROVE  /\ Decision(p) \in SchemaSteps \ {"copy", "audited", "nothing_found", "widen", "classify"}
         /\ known => Decision(p) \notin {"stamp_head", "stamp_base"}
         /\ Decision(p) = "ready" /\ known => version = Newest
  <1>1. known => seen[p] > 0 /\ seen[p] <= version
    BY DEF SchemaIInv, KnownIsKept
  <1>2. version \in 0 .. Newest /\ seen[p] \in 0 .. Newest /\ Newest \in Nat
    BY SchemaAssumption DEF SchemaIInv, SchemaTypeOK
  <1>3. /\ Decision(p) \in {"ready", "failed", "stamp_head", "stamp_base", Behind, "verify"}
        /\ Decision(p) \in {"stamp_head", "stamp_base"} => seen[p] = 0
        /\ Decision(p) = "ready" => seen[p] = Newest
    BY DEF Decision, Behind
  <1>4. seen[p] = Newest /\ known => version = Newest
    BY <1>1, <1>2
  <1> QED BY <1>1, <1>3, <1>4 DEF SchemaSteps, Behind

(* A process that starts reads the revision there is. *)
LEMMA BootKeeps ==
  ASSUME SchemaIInv, NEW p \in SchemaProcess, Boot(p)
  PROVE  SchemaIInv'
  <1> DEFINE next == IF p \in Operator THEN Behind ELSE "widen"
  <1>1. /\ next \in SchemaSteps /\ next \in {"widen", Behind}
        /\ next \notin {"stamp_head", "stamp_base", "ready", "copy", "audited", "nothing_found"}
    BY DEF SchemaSteps, Behind
  <1>2. /\ seen \in [SchemaProcess -> 0 .. Newest] /\ row \in {"none", "legacy", "runtime"}
        /\ column \in ColumnState
    BY DEF SchemaIInv, SchemaTypeOK
  <1>3. known => seen'[p] > 0
    BY <1>2 DEF Boot, SchemaIInv, KnownIsKept
  <1>4. attempt' \in [SchemaProcess -> 1 .. Attempts]
    BY Migrations DEF Boot, SchemaIInv
  <1>5. /\ UNCHANGED <<version, column, applied, odd, legacy, known, row, at, verdict>>
        /\ seen' = [seen EXCEPT ![p] = version] /\ step' = [step EXCEPT ![p] = next]
    BY DEF Boot, dbVars
  <1>6. /\ verdict' \in [Operator -> {"none", "cutover_ready", "not_ready"}]
        /\ \A q \in Operator : verdict'[q] = "cutover_ready" => legacy /\ version >= DropLegacy
    BY <1>5 DEF SchemaIInv, KeptForTheCutover
  <1> HIDE DEF next
  <1> QED BY <1>1, <1>2, <1>3, <1>4, <1>5, <1>6, ProcessMoves

(* To widen the column changes no revision. *)
LEMMA WidenKeeps ==
  ASSUME SchemaIInv, NEW p \in SchemaProcess, Widen(p)
  PROVE  SchemaIInv'
  <1>1. /\ row \in {"none", "legacy", "runtime"} /\ column' \in ColumnState
        /\ attempt \in [SchemaProcess -> 1 .. Attempts]
    BY DEF SchemaIInv, SchemaTypeOK, Widen, ColumnState
  <1>2. /\ UNCHANGED <<version, applied, odd, legacy, known, row, seen, at, attempt, verdict>>
        /\ step' = [step EXCEPT ![p] = "classify"]
    BY DEF Widen
  <1>3. /\ verdict' \in [Operator -> {"none", "cutover_ready", "not_ready"}]
        /\ \A q \in Operator : verdict'[q] = "cutover_ready" => legacy /\ version >= DropLegacy
    BY <1>2 DEF SchemaIInv, KeptForTheCutover
  <1>4. known => seen'[p] > 0
    BY <1>2 DEF Widen, SchemaIInv, KnownIsKept
  <1> QED BY <1>1, <1>2, <1>3, <1>4, ProcessMoves DEF SchemaSteps

(* Reading the revision and acting on it are two steps: the decision is made on the first. *)
LEMMA ClassifyKeeps ==
  ASSUME SchemaIInv, NEW p \in SchemaProcess, Classify(p)
  PROVE  SchemaIInv'
  <1> DEFINE next == Decision(p)
  <1>1. /\ next \in SchemaSteps \ {"copy", "audited", "nothing_found", "widen", "classify"}
        /\ known => next \notin {"stamp_head", "stamp_base"}
        /\ next = "ready" => version = Newest \/ ~known
    BY Decides DEF Classify
  <1>2. /\ row \in {"none", "legacy", "runtime"} /\ column \in ColumnState
        /\ attempt \in [SchemaProcess -> 1 .. Attempts]
    BY DEF SchemaIInv, SchemaTypeOK
  <1>3. /\ UNCHANGED <<version, column, applied, odd, legacy, known, row, at, attempt, verdict>>
        /\ seen' = [seen EXCEPT ![p] = 0] /\ step' = [step EXCEPT ![p] = next]
    BY DEF Classify, dbVars
  <1>4. /\ verdict' \in [Operator -> {"none", "cutover_ready", "not_ready"}]
        /\ \A q \in Operator : verdict'[q] = "cutover_ready" => legacy /\ version >= DropLegacy
    BY <1>3 DEF SchemaIInv, KeptForTheCutover
  <1> HIDE DEF next
  <1> QED BY <1>1, <1>2, <1>3, <1>4, ProcessMoves

(* A stamp writes a revision where there was none when the processes began; it is past the
   migration that drops the legacy tables in either case. It fails where the column is too
   short. *)
LEMMA StampKeeps ==
  ASSUME SchemaIInv, NEW p \in SchemaProcess, Stamp(p)
  PROVE  SchemaIInv'
  <1>1. /\ ~known /\ known' = known /\ version' \in 0 .. Newest
        /\ version' = version \/ version' >= DropLegacy
        /\ UNCHANGED <<applied, odd, legacy, row, seen, at, attempt, verdict>>
    BY Migrations DEF Stamp, SchemaIInv, SchemaTypeOK, KnownIsKept
  <1>2. /\ step' \in [SchemaProcess -> SchemaSteps]
        /\ step'[p] \notin {"copy", "audited", "nothing_found"}
        /\ \A q \in SchemaProcess \ {p} : step'[q] = step[q]
    BY DEF Stamp, SchemaIInv, SchemaSteps, Behind
  <1>3. SchemaTypeOK'
    <2>1. column' \in ColumnState
      BY DEF Stamp, TableIsMade, ColumnState, SchemaIInv, SchemaTypeOK
    <2> QED BY <1>1, <2>1 DEF SchemaIInv, SchemaTypeOK
  <1>4. KnownIsKept'
    BY <1>1 DEF KnownIsKept
  <1>5. PastTheDrop'
    BY <1>1, <1>2 DEF PastTheDrop, SchemaIInv
  <1>6. KeptForTheCutover'
    BY <1>1, <1>2 DEF SchemaIInv, KeptForTheCutover
  <1> QED BY <1>1, <1>2, <1>3, <1>4, <1>5, <1>6 DEF SchemaIInv

(* What an upgrade has read is the revision there is. *)
LEMMA BeginUpgradeKeeps ==
  ASSUME SchemaIInv, NEW p \in SchemaProcess, BeginUpgrade(p)
  PROVE  SchemaIInv'
  <1>1. /\ row \in {"none", "legacy", "runtime"} /\ column' \in ColumnState
        /\ attempt \in [SchemaProcess -> 1 .. Attempts]
    BY DEF SchemaIInv, SchemaTypeOK, BeginUpgrade, TableIsMade, ColumnState
  <1>2. /\ UNCHANGED <<version, applied, odd, legacy, known, row, seen, attempt, verdict>>
        /\ at' = [at EXCEPT ![p] = version] /\ step' = [step EXCEPT ![p] = "migrating"]
    BY DEF BeginUpgrade
  <1>3. /\ verdict' \in [Operator -> {"none", "cutover_ready", "not_ready"}]
        /\ \A q \in Operator : verdict'[q] = "cutover_ready" => legacy /\ version >= DropLegacy
    BY <1>2 DEF SchemaIInv, KeptForTheCutover
  <1> QED BY <1>1, <1>2, <1>3, ProcessMoves DEF SchemaSteps

(* An upgrade that is done has passed the migration that drops the legacy tables. *)
LEMMA UpgradeDoneKeeps ==
  ASSUME SchemaIInv, NEW p \in SchemaProcess, UpgradeDone(p)
  PROVE  SchemaIInv'
  <1> DEFINE next == IF p \in Operator THEN "copy" ELSE "verify"
  <1>1. /\ row \in {"none", "legacy", "runtime"} /\ column \in ColumnState
        /\ attempt \in [SchemaProcess -> 1 .. Attempts]
    BY DEF SchemaIInv, SchemaTypeOK
  <1>2. /\ UNCHANGED <<version, column, applied, odd, legacy, known, row, seen, attempt, verdict>>
        /\ at' = [at EXCEPT ![p] = 0] /\ step' = [step EXCEPT ![p] = next]
    BY DEF UpgradeDone, dbVars
  <1>3. /\ verdict' \in [Operator -> {"none", "cutover_ready", "not_ready"}]
        /\ \A q \in Operator : verdict'[q] = "cutover_ready" => legacy /\ version >= DropLegacy
    BY <1>2 DEF SchemaIInv, KeptForTheCutover
  <1>4. version >= DropLegacy
    BY Migrations DEF UpgradeDone, SchemaIInv, PastTheDrop
  <1>5. /\ next \in SchemaSteps
        /\ next \notin {"stamp_head", "stamp_base", "widen", "classify", "ready", "audited"}
    BY DEF SchemaSteps
  <1> HIDE DEF next
  <1> QED BY <1>1, <1>2, <1>3, <1>4, <1>5, ProcessMoves

(* To serve is decided on the revision that is read last. *)
LEMMA VerifyHeadKeeps ==
  ASSUME SchemaIInv, NEW p \in SchemaProcess, VerifyHead(p)
  PROVE  SchemaIInv'
  <1> DEFINE next == IF version = Newest THEN "ready" ELSE "failed"
  <1>1. /\ row \in {"none", "legacy", "runtime"} /\ column \in ColumnState
        /\ attempt' \in [SchemaProcess -> 1 .. Attempts]
    BY Migrations DEF SchemaIInv, SchemaTypeOK, VerifyHead
  <1>2. /\ UNCHANGED <<version, column, applied, odd, legacy, known, row, seen, at, verdict>>
        /\ step' = [step EXCEPT ![p] = next]
    BY DEF VerifyHead, dbVars
  <1>3. /\ verdict' \in [Operator -> {"none", "cutover_ready", "not_ready"}]
        /\ \A q \in Operator : verdict'[q] = "cutover_ready" => legacy /\ version >= DropLegacy
    BY <1>2 DEF SchemaIInv, KeptForTheCutover
  <1>4. /\ next \in SchemaSteps /\ next \in {"ready", "failed"}
        /\ next = "ready" => version = Newest
    BY DEF SchemaSteps
  <1> HIDE DEF next
  <1> QED BY <1>1, <1>2, <1>3, <1>4, ProcessMoves

(* A process that starts again has nothing left of its last start to act on. *)
LEMMA StartAgainKeeps ==
  ASSUME SchemaIInv, NEW p \in SchemaProcess, StartAgain(p)
  PROVE  SchemaIInv'
  <1>1. /\ row \in {"none", "legacy", "runtime"} /\ column \in ColumnState
        /\ attempt \in [SchemaProcess -> 1 .. Attempts]
    BY DEF SchemaIInv, SchemaTypeOK
  <1>2. /\ UNCHANGED <<version, column, applied, odd, legacy, known, row, seen, at, attempt, verdict>>
        /\ step' = [step EXCEPT ![p] = "down"]
    BY DEF StartAgain, dbVars
  <1>3. /\ verdict' \in [Operator -> {"none", "cutover_ready", "not_ready"}]
        /\ \A q \in Operator : verdict'[q] = "cutover_ready" => legacy /\ version >= DropLegacy
    BY <1>2 DEF SchemaIInv, KeptForTheCutover
  <1> QED BY <1>1, <1>2, <1>3, ProcessMoves DEF SchemaSteps

(* A killed process forgets what it read and reached. *)
LEMMA KilledKeeps ==
  ASSUME SchemaIInv, NEW p \in SchemaProcess, Killed(p)
  PROVE  SchemaIInv'
  <1>1. /\ row \in {"none", "legacy", "runtime"} /\ column \in ColumnState
        /\ attempt \in [SchemaProcess -> 1 .. Attempts]
    BY DEF SchemaIInv, SchemaTypeOK
  <1>2. /\ UNCHANGED <<version, column, applied, odd, legacy, known, row, attempt, verdict>>
        /\ step' = [step EXCEPT ![p] = "down"]
        /\ seen' = [seen EXCEPT ![p] = 0] /\ at' = [at EXCEPT ![p] = 0]
    BY DEF Killed, dbVars
  <1>3. /\ verdict' \in [Operator -> {"none", "cutover_ready", "not_ready"}]
        /\ \A q \in Operator : verdict'[q] = "cutover_ready" => legacy /\ version >= DropLegacy
    BY <1>2 DEF SchemaIInv, KeptForTheCutover
  <1> QED BY <1>1, <1>2, <1>3, ProcessMoves DEF SchemaSteps

(* The copy needs the upgrade behind it, so the legacy tables it finds are there to stay. *)
LEMMA CopyLegacyKeeps ==
  ASSUME SchemaIInv, NEW p \in SchemaProcess, CopyLegacy(p)
  PROVE  SchemaIInv'
  <1> DEFINE next == IF legacy THEN "audited" ELSE "nothing_found"
  <1>1. /\ row' \in {"none", "legacy", "runtime"} /\ column \in ColumnState
        /\ attempt \in [SchemaProcess -> 1 .. Attempts]
    BY DEF SchemaIInv, SchemaTypeOK, CopyLegacy
  <1>2. /\ UNCHANGED <<version, column, applied, odd, legacy, known, seen, at, attempt, verdict>>
        /\ step' = [step EXCEPT ![p] = next]
    BY DEF CopyLegacy
  <1>3. /\ verdict' \in [Operator -> {"none", "cutover_ready", "not_ready"}]
        /\ \A q \in Operator : verdict'[q] = "cutover_ready" => legacy /\ version >= DropLegacy
    BY <1>2 DEF SchemaIInv, KeptForTheCutover
  <1>4. version >= DropLegacy
    BY DEF CopyLegacy, SchemaIInv, PastTheDrop
  <1>5. /\ next \in SchemaSteps /\ next \in {"audited", "nothing_found"}
        /\ next = "audited" => legacy
    BY DEF SchemaSteps
  <1> HIDE DEF next
  <1> QED BY <1>1, <1>2, <1>3, <1>4, <1>5, ProcessMoves

(* A report that approves the cutover follows an audit, which found the legacy tables. *)
LEMMA ConcludeKeeps ==
  ASSUME SchemaIInv, NEW p \in SchemaProcess, Conclude(p)
  PROVE  SchemaIInv'
  <1>1. /\ row \in {"none", "legacy", "runtime"} /\ column \in ColumnState
        /\ attempt \in [SchemaProcess -> 1 .. Attempts]
    BY DEF SchemaIInv, SchemaTypeOK
  <1>2. /\ UNCHANGED <<version, column, applied, odd, legacy, known, row, seen, at, attempt>>
        /\ step' = [step EXCEPT ![p] = "down"]
    BY DEF Conclude, dbVars
  <1>3. version >= DropLegacy /\ (AutomaticReady(p) => legacy)
    BY DEF Conclude, SchemaIInv, PastTheDrop, KeptForTheCutover, AutomaticReady
  <1>4. /\ verdict' \in [Operator -> {"none", "cutover_ready", "not_ready"}]
        /\ \A q \in Operator : verdict'[q] = "cutover_ready" => legacy /\ version >= DropLegacy
    BY <1>3 DEF Conclude, SchemaIInv, KeptForTheCutover
  <1> QED BY <1>1, <1>2, <1>4, ProcessMoves DEF SchemaSteps

(* The next attempt, or the end of the start. *)
LEMMA RetriesOrFails ==
  ASSUME SchemaIInv, NEW p \in SchemaProcess, RetryOrFail(p)
  PROVE  /\ attempt' \in [SchemaProcess -> 1 .. Attempts]
         /\ \E next \in {Behind, "failed"} : step' = [step EXCEPT ![p] = next]
  <1>1. attempt \in [SchemaProcess -> 1 .. Attempts] /\ Attempts \in Nat \ {0}
    BY Migrations DEF SchemaIInv
  <1>2. CASE p \in Upgrader /\ attempt[p] < Attempts
    BY <1>1, <1>2 DEF RetryOrFail
  <1>3. CASE ~(p \in Upgrader /\ attempt[p] < Attempts)
    BY <1>1, <1>3 DEF RetryOrFail
  <1> QED BY <1>2, <1>3

(* A migration that is cut off without a commit leaves the schema as it was. *)
LEMMA AbortKeeps ==
  ASSUME SchemaIInv, NEW p \in SchemaProcess, RetryOrFail(p),
         at' = [at EXCEPT ![p] = 0], UNCHANGED <<dbVars, seen, verdict, known>>
  PROVE  SchemaIInv'
  <1>1. /\ row \in {"none", "legacy", "runtime"} /\ column \in ColumnState
        /\ attempt' \in [SchemaProcess -> 1 .. Attempts]
    BY RetriesOrFails DEF SchemaIInv, SchemaTypeOK
  <1>2. PICK next \in {Behind, "failed"} : step' = [step EXCEPT ![p] = next]
    BY RetriesOrFails
  <1>3. /\ verdict' \in [Operator -> {"none", "cutover_ready", "not_ready"}]
        /\ \A q \in Operator : verdict'[q] = "cutover_ready" => legacy /\ version >= DropLegacy
    BY DEF SchemaIInv, KeptForTheCutover
  <1>4. /\ next \in SchemaSteps
        /\ next \notin {"stamp_head", "stamp_base", "widen", "classify", "ready", "copy", "audited",
                        "nothing_found"}
    BY DEF SchemaSteps, Behind
  <1>5. UNCHANGED <<version, column, applied, odd, legacy, known, row, seen>>
    BY DEF dbVars
  <1> QED BY <1>1, <1>2, <1>3, <1>4, <1>5, ProcessMoves

(* A migration runs in full. *)
LEMMA MigrateKeeps ==
  ASSUME SchemaIInv, NEW p \in SchemaProcess, Migrate(p)
  PROVE  SchemaIInv'
  <1>1. step' = [step EXCEPT ![p] = "migrating"]
    BY DEF Migrate, SchemaIInv
  <1>2. attempt' \in [SchemaProcess -> 1 .. Attempts]
    BY DEF Migrate, SchemaIInv
  <1> QED BY <1>1, <1>2, MigrationKeeps DEF Migrate

(* A fault meets a migration before its commit, or after it. *)
LEMMA MigrationFaultKeeps ==
  ASSUME SchemaIInv, NEW p \in SchemaProcess, MigrationFault(p)
  PROVE  SchemaIInv'
  <1>1. CASE UNCHANGED dbVars
    BY <1>1, AbortKeeps DEF MigrationFault
  <1>2. CASE Commits(p) /\ Apply(at[p] + 1)
    <2>1. /\ attempt' \in [SchemaProcess -> 1 .. Attempts]
          /\ \E next \in {Behind, "failed"} : step' = [step EXCEPT ![p] = next]
      BY RetriesOrFails DEF MigrationFault
    <2> QED BY <1>2, <2>1, MigrationKeeps DEF MigrationFault
  <1> QED BY <1>1, <1>2 DEF MigrationFault

(* Rows of the runtime do not touch the schema. *)
LEMMA RuntimeWritesKeeps ==
  ASSUME SchemaIInv, RuntimeWrites
  PROVE  SchemaIInv'
  BY DEF RuntimeWrites, SchemaIInv, SchemaTypeOK, KnownIsKept, PastTheDrop, KeptForTheCutover

(* It holds of every database the processes may find. *)
LEMMA SchemaStarts == SchemaInit => SchemaIInv
  <1> SUFFICES ASSUME SchemaInit
               PROVE  SchemaIInv
    OBVIOUS
  <1>1. PICK n \in 0 .. Newest : applied = 1 .. n /\ (known => n = version)
    BY DEF SchemaInit
  <1>2. /\ step \in [SchemaProcess -> SchemaSteps] /\ seen \in [SchemaProcess -> 0 .. Newest]
        /\ at \in [SchemaProcess -> 0 .. Newest]
        /\ attempt \in [SchemaProcess -> 1 .. Attempts]
        /\ verdict \in [Operator -> {"none", "cutover_ready", "not_ready"}]
    BY Migrations DEF SchemaInit, SchemaSteps
  <1>3. /\ \A p \in SchemaProcess : step[p] = "down" /\ seen[p] = 0 /\ at[p] = 0
        /\ \A p \in Operator : verdict[p] = "none"
        /\ known = (version > 0) /\ version \in 0 .. Newest /\ known \in BOOLEAN
    BY DEF SchemaInit
  <1>4. SchemaTypeOK
    BY <1>1, <1>2, <1>3, Migrations DEF SchemaInit, SchemaTypeOK
  <1>5. KnownIsKept
    <2>1. ASSUME known
          PROVE  version > 0 /\ applied = 1 .. version
      BY <1>1, <1>3, <2>1
    <2>2. \A p \in SchemaProcess :
            /\ seen[p] <= version /\ step[p] \notin {"stamp_head", "stamp_base"}
            /\ step[p] \notin {"widen", "classify", "ready"}
      BY <1>3, Migrations
    <2> QED BY <2>1, <2>2 DEF KnownIsKept
  <1>6. PastTheDrop /\ KeptForTheCutover
    BY <1>3, Migrations DEF PastTheDrop, KeptForTheCutover
  <1> QED BY <1>2, <1>3, <1>4, <1>5, <1>6 DEF SchemaIInv

(* Each step keeps it. *)
LEMMA SchemaIsKept == SchemaIInv /\ [SchemaNext]_schemaVars => SchemaIInv'
  <1> SUFFICES ASSUME SchemaIInv, [SchemaNext]_schemaVars
               PROVE  SchemaIInv'
    OBVIOUS
  <1>1. ASSUME NEW p \in SchemaProcess, Proceed(p)
        PROVE  SchemaIInv'
    <2>1. CASE MigrationAborts(p)
      BY <2>1, AbortKeeps DEF MigrationAborts
    <2> QED BY <1>1, <2>1, BootKeeps, WidenKeeps, ClassifyKeeps, StampKeeps, BeginUpgradeKeeps,
               MigrateKeeps,
               UpgradeDoneKeeps, VerifyHeadKeeps, StartAgainKeeps, CopyLegacyKeeps, ConcludeKeeps
            DEF Proceed
  <1>2. CASE UNCHANGED schemaVars
    BY <1>2 DEF schemaVars, dbVars, SchemaIInv, SchemaTypeOK, KnownIsKept, PastTheDrop,
                KeptForTheCutover
  <1> QED BY <1>1, <1>2, MigrationFaultKeeps, KilledKeeps, RuntimeWritesKeeps DEF SchemaNext

(* The schema in every behaviour: what is known of a database that had a revision, and of
   the legacy tables once the migration that drops them is behind. *)
THEOREM SchemaInvariance == SchemaSpec => []SchemaIInv
  <1>1. SchemaInit => SchemaIInv
    BY SchemaStarts
  <1>2. SchemaIInv /\ [SchemaNext]_schemaVars => SchemaIInv'
    BY SchemaIsKept
  <1> QED BY <1>1, <1>2, PTL DEF SchemaSpec

(* SchemaIsTrue: the revision of a database that had one names exactly the migrations that
   have run, a process serves on the newest schema only, and an approved cutover still has
   its legacy tables (storage/postgres_startup.py, postgres_legacy_cutover.py). *)
THEOREM SchemaHolds == SchemaSpec => []SchemaIsTrue
  <1>1. SchemaIInv => SchemaIsTrue
    BY DEF SchemaIInv, KnownIsKept, KeptForTheCutover, SchemaIsTrue, RevisionIsTrue,
           ReadyMeansMigrated, CutoverCanBeUndone, SchemaProcess, Starter
  <1> QED BY <1>1, SchemaInvariance, PTL

-----------------------------------------------------------------------------
(* The clients that watch an ingest. What a step makes of the jobs: none is forgotten,
   each stays of who posted it, and one that completed stays so or goes. *)
TasksKept ==
  /\ tasks' \in Seq(Task) /\ Len(tasks) <= Len(tasks') /\ Len(tasks') <= MaxTasks
  /\ askable' \subseteq Repository
  /\ \A t \in DOMAIN tasks :
       /\ tasks'[t].by = tasks[t].by
       /\ tasks[t].status \in {"completed", "gone"} => tasks'[t].status \in {"completed", "gone"}

(* Nobody watches anything at the start. *)
LEMMA WatchersInitIInv ==
  ASSUME WatchersInit
  PROVE  WatchersIInv
  <1>1. tasks = <<>> /\ tasks \in Seq(Task) /\ Len(tasks) = 0 /\ askable = {}
    BY DEF WatchersInit
  <1>2. script = [pc |-> "health", job |-> 0, polls |-> 0] /\ window = WindowAtStart
    BY DEF WatchersInit
  <1>3. script \in ScriptState /\ window \in WindowState
    BY <1>2 DEF ScriptState, WindowState, WindowAtStart
  <1>4. MaxTasks \in Nat
    BY WatchersAssumption
  <1> QED
    BY <1>1, <1>2, <1>3, <1>4
    DEF WatchersIInv, WatchersTypeOK, WindowAtStart, PollsItsOwn, AsksUnwatched,
        ClientsTellTheTruth, ExitZeroIsEarned, EvidenceIsOfSelection, NeverLockedOut, Idle

(* Nothing happens to the jobs. *)
LEMMA TasksStay ==
  ASSUME WatchersIInv, UNCHANGED <<tasks, askable>>
  PROVE  TasksKept
  BY DEF WatchersIInv, WatchersTypeOK, TasksKept

(* The jobs are rewritten one by one, none of them a completed one but to be gone. *)
LEMMA TasksRewritten ==
  ASSUME WatchersIInv, DOMAIN tasks' = DOMAIN tasks, askable' \subseteq Repository,
         tasks' = [t \in DOMAIN tasks |-> tasks'[t]],
         \A t \in DOMAIN tasks :
            \/ tasks'[t] = tasks[t]
            \/ tasks'[t] = [tasks[t] EXCEPT !.status = "gone"]
            \/ /\ tasks[t].status = "active"
               /\ \E status \in Terminal : tasks'[t] = [tasks[t] EXCEPT !.status = status]
  PROVE  TasksKept
  <1>1. tasks \in Seq(Task) /\ DOMAIN tasks = 1 .. Len(tasks) /\ Len(tasks) \in Nat
    BY DEF WatchersIInv
  <1>2. ASSUME NEW t \in DOMAIN tasks
        PROVE  /\ tasks'[t] \in Task /\ tasks'[t].by = tasks[t].by
               /\ tasks[t].status \in {"completed", "gone"}
                    => tasks'[t].status \in {"completed", "gone"}
    <2>1. tasks[t] \in Task
      BY <1>1
    <2> QED BY <2>1 DEF Task, Terminal
  <1>3. tasks' \in [1 .. Len(tasks) -> Task]
    BY <1>1, <1>2
  <1>4. tasks' \in Seq(Task) /\ Len(tasks') = Len(tasks)
    BY <1>1, <1>3, SeqDef
  <1> QED BY <1>1, <1>2, <1>4 DEF TasksKept, WatchersIInv, WatchersTypeOK

(* A new job is posted. *)
LEMMA TaskPosted ==
  ASSUME WatchersIInv, NEW r \in Repository, NEW who \in {"script", "window"},
         CanPost, NewTask(r, who), UNCHANGED askable
  PROVE  /\ TasksKept /\ Len(tasks') = Len(tasks) + 1 /\ Len(tasks') \in Nat
         /\ tasks'[Len(tasks')].by = who
  <1>1. tasks \in Seq(Task) /\ DOMAIN tasks = 1 .. Len(tasks) /\ Len(tasks) \in Nat
    BY DEF WatchersIInv
  <1> DEFINE new == [repository |-> r, status |-> "active", by |-> who]
  <1>2. new \in Task /\ new.by = who
    BY DEF Task
  <1> HIDE DEF new
  <1>3. tasks' = Append(tasks, new)
    BY DEF NewTask, new
  <1>4. /\ tasks' \in Seq(Task) /\ Len(tasks') = Len(tasks) + 1
        /\ tasks'[Len(tasks) + 1] = new
        /\ \A t \in 1 .. Len(tasks) : tasks'[t] = tasks[t]
    BY <1>1, <1>2, <1>3, AppendProperties
  <1>5. Len(tasks) + 1 <= MaxTasks
    BY <1>1, WatchersAssumption DEF CanPost
  <1> QED BY <1>1, <1>2, <1>4, <1>5 DEF TasksKept, WatchersIInv, WatchersTypeOK

(* What the script has polled remains its own while only others move. *)
LEMMA ScriptKeeps ==
  ASSUME WatchersIInv, TasksKept, script' = script
  PROVE  PollsItsOwn' /\ ExitZeroIsEarned'
  <1>1. tasks \in Seq(Task) /\ DOMAIN tasks = 1 .. Len(tasks) /\ Len(tasks) \in Nat
        /\ DOMAIN tasks' = 1 .. Len(tasks') /\ Len(tasks') \in Nat
    BY DEF WatchersIInv, TasksKept
  <1>2. DOMAIN tasks \subseteq DOMAIN tasks'
    BY <1>1 DEF TasksKept
  <1> QED
    BY <1>2 DEF WatchersIInv, TasksKept, PollsItsOwn, ExitZeroIsEarned, ClientsTellTheTruth

(* The script and the window rest while the server moves. *)
LEMMA ServerMoves ==
  ASSUME WatchersIInv, TasksKept, UNCHANGED <<script, window>>
  PROVE  WatchersIInv'
  <1>1. PollsItsOwn' /\ ExitZeroIsEarned'
    BY ScriptKeeps
  <1>2. Len(tasks) \in Nat /\ Len(tasks') \in Nat /\ window.watching \in Nat
    BY DEF WatchersIInv, TasksKept, WindowState
  <1> QED
    BY <1>1, <1>2 DEF WatchersIInv, WatchersTypeOK, TasksKept, AsksUnwatched,
       ClientsTellTheTruth, EvidenceIsOfSelection, NeverLockedOut, Idle

(* The script moves, and ends with zero only after its own job. *)
LEMMA ScriptMoves ==
  ASSUME WatchersIInv, TasksKept, window' = window, script' \in ScriptState,
         PollsItsOwn', ExitZeroIsEarned'
  PROVE  WatchersIInv'
  <1>1. Len(tasks) \in Nat /\ Len(tasks') \in Nat /\ window.watching \in Nat
    BY DEF WatchersIInv, TasksKept, WindowState
  <1> QED
    BY <1>1 DEF WatchersIInv, WatchersTypeOK, TasksKept, AsksUnwatched, ScriptState,
       ClientsTellTheTruth, EvidenceIsOfSelection, NeverLockedOut, Idle

(* The window moves. *)
LEMMA WindowMoves ==
  ASSUME WatchersIInv, TasksKept, script' = script, window' \in WindowState,
         window'.watching <= Len(tasks'), window'.selected \in window'.listed \union {Nobody},
         AsksUnwatched', EvidenceIsOfSelection', NeverLockedOut'
  PROVE  WatchersIInv'
  <1>1. PollsItsOwn' /\ ExitZeroIsEarned'
    BY ScriptKeeps
  <1>2. Len(tasks') \in Nat /\ window'.watching \in Nat /\ window'.listed \subseteq Repository
    BY DEF TasksKept, WindowState
  <1> QED
    BY <1>1, <1>2 DEF WatchersIInv, WatchersTypeOK, TasksKept, ClientsTellTheTruth

(* The server ends a job, goes down or up, or deletes for another client. *)
LEMMA ServerKeeps ==
  ASSUME WatchersIInv, TaskEnds \/ ApiFlips \/ \E r \in Repository : OtherDeletes(r)
  PROVE  WatchersIInv'
  <1>1. tasks \in Seq(Task) /\ DOMAIN tasks = 1 .. Len(tasks) /\ askable \subseteq Repository
    BY DEF WatchersIInv, WatchersTypeOK
  <1>2. CASE TaskEnds
    <2>1. PICK t \in DOMAIN tasks, status \in Terminal :
             /\ tasks[t].status = "active"
             /\ tasks' = [tasks EXCEPT ![t].status = status]
             /\ askable' \in {askable \union {tasks[t].repository},
                              askable \ {tasks[t].repository}, askable}
      BY <1>2 DEF TaskEnds
    <2>2. tasks[t].repository \in Repository
      <3>1. tasks[t] \in Task
        BY <1>1
      <3> QED BY <3>1 DEF Task
    <2>3. TasksKept
      BY <1>1, <2>1, <2>2, TasksRewritten
    <2> QED BY <1>2, <2>3, ServerMoves DEF TaskEnds
  <1>3. CASE ApiFlips
    <2>1. TasksKept
      BY <1>1, <1>3, TasksRewritten DEF ApiFlips, Terminal
    <2> QED BY <1>3, <2>1, ServerMoves DEF ApiFlips
  <1>4. CASE \E r \in Repository : OtherDeletes(r)
    <2>1. TasksKept
      BY <1>1, <1>4, TasksRewritten DEF OtherDeletes, Without
    <2> QED BY <1>4, <2>1, ServerMoves DEF OtherDeletes
  <1> QED BY <1>2, <1>3, <1>4

(* The script waits, posts or polls. *)
LEMMA ScriptStepKeeps ==
  ASSUME WatchersIInv, ScriptStep
  PROVE  WatchersIInv'
  <1>1. /\ script \in ScriptState /\ tasks \in Seq(Task) /\ DOMAIN tasks = 1 .. Len(tasks)
        /\ Len(tasks) \in Nat /\ PollsItsOwn /\ ExitZeroIsEarned
    BY DEF WatchersIInv, ClientsTellTheTruth
  <1>2. window' = window /\ askable' = askable
    BY DEF ScriptStep, WaitForHealth, ScriptPosts, PollJob, ScriptOnly
  <1>3. CASE WaitForHealth
    <2>1. tasks' = tasks /\ script.pc = "health"
      BY <1>3 DEF WaitForHealth
    <2>2. script' \in {[script EXCEPT !.pc = "post"], [script EXCEPT !.pc = "failed"],
                      [script EXCEPT !.polls = @ + 1]}
      BY <1>3 DEF WaitForHealth, ScriptAt
    <2>3. script' \in ScriptState /\ script'.pc \in {"post", "failed", "health"}
      BY <1>1, <2>1, <2>2 DEF ScriptState
    <2>4. PollsItsOwn' /\ ExitZeroIsEarned'
      BY <2>3 DEF PollsItsOwn, ExitZeroIsEarned
    <2> QED BY <1>2, <2>1, <2>3, <2>4, TasksStay, ScriptMoves
  <1>4. CASE ScriptPosts /\ apiUp /\ ~Busy(ScriptRepository)
    <2>1. /\ CanPost /\ NewTask(ScriptRepository, "script")
          /\ script' = [script EXCEPT !.pc = "poll", !.job = Len(tasks'), !.polls = 0]
      BY <1>4 DEF ScriptPosts
    <2>2. /\ TasksKept /\ Len(tasks') = Len(tasks) + 1 /\ Len(tasks') \in Nat
          /\ tasks'[Len(tasks')].by = "script"
      BY <1>2, <2>1, TaskPosted, WatchersAssumption
    <2>3. script' \in ScriptState /\ script'.pc = "poll" /\ script'.job = Len(tasks')
      BY <1>1, <2>1, <2>2 DEF ScriptState
    <2>4. DOMAIN tasks' = 1 .. Len(tasks') /\ Len(tasks') \in 1 .. Len(tasks')
      BY <1>1, <2>2 DEF TasksKept
    <2>5. PollsItsOwn' /\ ExitZeroIsEarned'
      BY <2>2, <2>3, <2>4 DEF PollsItsOwn, ExitZeroIsEarned
    <2> QED BY <1>2, <2>2, <2>3, <2>5, ScriptMoves
  <1>5. CASE ScriptPosts /\ ~(apiUp /\ ~Busy(ScriptRepository))
    <2>1. tasks' = tasks /\ script' = [script EXCEPT !.pc = "failed"]
      BY <1>5 DEF ScriptPosts, ScriptAt
    <2>2. script' \in ScriptState /\ script'.pc = "failed"
      BY <1>1, <2>1 DEF ScriptState
    <2>3. PollsItsOwn' /\ ExitZeroIsEarned'
      BY <2>2 DEF PollsItsOwn, ExitZeroIsEarned
    <2> QED BY <1>2, <2>1, <2>2, <2>3, TasksStay, ScriptMoves
  <1>6. CASE PollJob
    <2>1. tasks' = tasks /\ script.pc = "poll"
      BY <1>6 DEF PollJob
    <2>2. script.job \in DOMAIN tasks /\ tasks[script.job].by = "script"
      BY <1>1, <2>1 DEF PollsItsOwn
    <2>3. tasks[script.job] \in Task
      BY <1>1, <2>2
    <2>4. tasks[script.job].status \in {"completed", "partial", "failed", "active", "gone"}
      BY <2>3 DEF Task, Terminal
    <2>5. \/ script' = [script EXCEPT !.pc = "failed"] \/ script' = [script EXCEPT !.pc = "timeout"]
          \/ script' = [script EXCEPT !.polls = @ + 1]
          \/ /\ script' = [script EXCEPT !.pc = "ok"]
             /\ tasks[script.job].status = "completed"
      BY <1>6, <2>4 DEF PollJob, ScriptAt
    <2>6. /\ script' \in ScriptState /\ script'.job = script.job
          /\ script'.pc = "ok" => tasks[script.job].status = "completed"
      BY <1>1, <2>1, <2>5 DEF ScriptState
    <2>7. PollsItsOwn' /\ ExitZeroIsEarned'
      BY <2>1, <2>2, <2>6 DEF PollsItsOwn, ExitZeroIsEarned
    <2> QED BY <1>2, <2>1, <2>6, <2>7, TasksStay, ScriptMoves
  <1> QED BY <1>3, <1>4, <1>5, <1>6 DEF ScriptStep

(* The window posts a job: it watches it, unless the answer is lost. *)
LEMMA WindowIngestsKeeps ==
  ASSUME WatchersIInv, NEW r \in Repository, WindowIngests(r)
  PROVE  WatchersIInv'
  <1>1. /\ window \in WindowState /\ Len(tasks) \in Nat /\ Idle /\ script' = script
        /\ askable' = askable
    BY DEF WatchersIInv, WindowIngests, WindowOnly
  <1>2. CASE apiUp /\ ~Busy(r)
    <2>1. CanPost /\ NewTask(r, "window")
      BY <1>2 DEF WindowIngests
    <2>2. TasksKept /\ Len(tasks') = Len(tasks) + 1 /\ Len(tasks') \in Nat
      BY <1>1, <2>1, TaskPosted
    <2>3. CASE window' = window
      BY <1>1, <2>2, <2>3, ServerMoves
    <2>4. CASE window' = [window EXCEPT !.watching = Len(tasks'), !.controls = FALSE]
      <3>1. /\ window' \in WindowState /\ window'.watching = Len(tasks') /\ ~window'.controls
            /\ window'.listed = window.listed /\ window'.selected = window.selected
            /\ window'.evidence = window.evidence /\ window'.pc = "idle"
        BY <1>1, <2>2, <2>4 DEF WindowState, Idle
      <3>2. AsksUnwatched' /\ EvidenceIsOfSelection' /\ NeverLockedOut'
        BY <1>1, <2>2, <3>1 DEF AsksUnwatched, EvidenceIsOfSelection, NeverLockedOut, Idle,
           WatchersIInv, ClientsTellTheTruth
      <3> QED
        BY <1>1, <2>2, <3>1, <3>2, WindowMoves DEF WatchersIInv, WatchersTypeOK
    <2> QED BY <1>2, <2>3, <2>4 DEF WindowIngests
  <1>3. CASE ~(apiUp /\ ~Busy(r))
    <2>1. UNCHANGED <<tasks, askable, script, window>>
      BY <1>1, <1>3 DEF WindowIngests
    <2> QED BY <2>1, TasksStay, ServerMoves
  <1> QED BY <1>2, <1>3

(* What the window lists is of the repositories, and it selects what it lists. *)
LEMMA Known ==
  ASSUME WatchersIInv
  PROVE  KnownRepositories \subseteq Repository
  <1> SUFFICES ASSUME NEW t \in DOMAIN tasks
               PROVE  tasks[t].repository \in Repository
    BY DEF KnownRepositories
  <1>1. tasks[t] \in Task
    BY DEF WatchersIInv
  <1> QED BY <1>1 DEF Task

(* A refresh of the box selects an entry it lists, and shows no evidence of another one. *)
LEMMA RefreshedIs ==
  ASSUME WatchersIInv, NEW r
  PROVE  /\ Refreshed(window, r) \in WindowState
         /\ Refreshed(window, r).watching = window.watching
         /\ Refreshed(window, r).controls = window.controls
         /\ Refreshed(window, r).pc = window.pc
         /\ Refreshed(window, r).selected \in Refreshed(window, r).listed \union {Nobody}
         /\ Refreshed(window, r).evidence \in {Nobody, Refreshed(window, r).selected}
  <1> DEFINE now == SelectedAfter(window, r)
  <1>1. KnownRepositories = {} \/ FirstOf(KnownRepositories) \in KnownRepositories
    BY DEF FirstOf
  <1>2. now \in KnownRepositories \union {Nobody}
    <2>1. KnownRepositories = {} => FirstOf(KnownRepositories) = Nobody
      BY DEF FirstOf
    <2> QED BY <1>1, <2>1 DEF SelectedAfter
  <1>3. KnownRepositories \subseteq Repository
    BY Known
  <1>4. window \in WindowState /\ window.evidence \in {Nobody, window.selected}
    BY DEF WatchersIInv, ClientsTellTheTruth, EvidenceIsOfSelection
  <1>5. Refreshed(window, r) =
          [window EXCEPT !.listed = KnownRepositories, !.selected = now,
                         !.evidence = IF now = window.selected THEN @ ELSE Nobody]
    BY DEF Refreshed
  <1> HIDE DEF now
  <1> QED BY <1>2, <1>3, <1>4, <1>5 DEF WindowState

(* A poll of the window: the job it watches is there. *)
LEMMA WindowPollsKeeps ==
  ASSUME WatchersIInv, WindowPolls
  PROVE  WatchersIInv'
  <1> DEFINE r == tasks[window.watching].repository
  <1>1. /\ window.pc = "idle" /\ window.watching # 0 /\ UNCHANGED <<tasks, askable, script>>
        /\ \E w \in {window, Refreshed(window, r)} :
              window' = w \/ window' = [w EXCEPT !.watching = 0, !.controls = TRUE]
    BY DEF WindowPolls, WindowOnly, Idle
  <1> HIDE DEF r
  <1>0. PICK w \in {window, Refreshed(window, r)} :
              window' = w \/ window' = [w EXCEPT !.watching = 0, !.controls = TRUE]
    BY <1>1
  <1>2. /\ w \in WindowState /\ w.watching = window.watching /\ w.controls = window.controls
        /\ w.pc = "idle" /\ w.selected \in w.listed \union {Nobody}
        /\ w.evidence \in {Nobody, w.selected}
    BY <1>0, <1>1, RefreshedIs
       DEF WatchersIInv, WatchersTypeOK, ClientsTellTheTruth, EvidenceIsOfSelection
  <1>3. ~window.controls /\ window.watching <= Len(tasks) /\ Len(tasks) \in Nat
    BY <1>1 DEF WatchersIInv, WatchersTypeOK, ClientsTellTheTruth, NeverLockedOut
  <1>4. /\ window' \in WindowState /\ window'.watching <= Len(tasks')
        /\ window'.controls <=> window'.watching = 0
        /\ window'.pc = "idle" /\ window'.selected \in window'.listed \union {Nobody}
        /\ window'.evidence \in {Nobody, window'.selected}
    <2>1. CASE window' = w
      BY <1>1, <1>2, <1>3, <2>1
    <2>2. CASE window' = [w EXCEPT !.watching = 0, !.controls = TRUE]
      <3>1. /\ window' \in WindowState /\ window'.watching = 0 /\ window'.controls = TRUE
            /\ window'.listed = w.listed /\ window'.selected = w.selected
            /\ window'.evidence = w.evidence /\ window'.pc = w.pc
        BY <1>2, <2>2 DEF WindowState
      <3> QED BY <1>1, <1>2, <1>3, <3>1
    <2> QED BY <1>0, <2>1, <2>2
  <1>5. AsksUnwatched' /\ EvidenceIsOfSelection' /\ NeverLockedOut'
    BY <1>4 DEF AsksUnwatched, EvidenceIsOfSelection, NeverLockedOut, Idle
  <1> QED BY <1>1, <1>4, <1>5, TasksStay, WindowMoves

(* The window deletes or resets, refreshes or selects, asks or is answered. *)
LEMMA WindowRestKeeps ==
  ASSUME WatchersIInv,
         WindowResets \/ WindowDeletes \/ WindowSelects \/ WindowRefreshes
            \/ WindowAsks \/ WindowAnswered
  PROVE  WatchersIInv'
  <1>1. /\ window \in WindowState /\ Len(tasks) \in Nat /\ DOMAIN tasks = 1 .. Len(tasks)
        /\ window.watching <= Len(tasks) /\ window.selected \in window.listed \union {Nobody}
        /\ window.evidence \in {Nobody, window.selected} /\ askable \subseteq Repository
        /\ window.controls <=> window.watching = 0 /\ window.pc = "idle"
        /\ window.pc # "idle" => window.watching = 0
    BY DEF WatchersIInv, WatchersTypeOK, ClientsTellTheTruth, EvidenceIsOfSelection,
       NeverLockedOut, AsksUnwatched, Idle
  <1>2. ASSUME TasksKept, script' = script, window' \in WindowState,
               window'.watching = window.watching,
               window'.selected \in window'.listed \union {Nobody},
               window'.evidence \in {Nobody, window'.selected},
               window'.controls <=> window'.watching = 0 /\ window'.pc = "idle",
               window'.pc # "idle" => window'.watching = 0
        PROVE  WatchersIInv'
    <2>1. AsksUnwatched' /\ EvidenceIsOfSelection' /\ NeverLockedOut'
      BY <1>2 DEF AsksUnwatched, EvidenceIsOfSelection, NeverLockedOut, Idle
    <2>2. window'.watching <= Len(tasks')
      BY <1>1, <1>2 DEF TasksKept, WindowState
    <2> QED BY <1>2, <2>1, <2>2, WindowMoves
  <1>3. KnownRepositories \subseteq Repository
    BY Known
  <1>0. ASSUME NEW R \in SUBSET Repository, ClearedThenListed(R), TasksKept,
               script' = script, window.pc = "idle"
        PROVE  WatchersIInv'
    <2>1. FirstOf(R) \in R \union {Nobody}
      BY DEF FirstOf
    <2>2. /\ window' \in WindowState /\ window'.watching = window.watching
          /\ window'.controls = window.controls /\ window'.pc = window.pc
          /\ window'.selected \in window'.listed \union {Nobody}
          /\ window'.evidence = Nobody
      BY <1>0, <1>1, <2>1 DEF ClearedThenListed, Cleared, WindowState
    <2> QED BY <1>0, <1>1, <1>2, <2>2
  <1>4. CASE WindowResets
    <2>1. TasksKept
      BY <1>1, <1>4, TasksRewritten DEF WindowResets, Without
    <2> QED BY <1>0, <1>4, <2>1 DEF WindowResets, WindowOnly, Idle
  <1>5. CASE WindowDeletes
    <2> DEFINE rest == KnownRepositories \ {window.selected}
    <2>1. TasksKept
      BY <1>1, <1>5, TasksRewritten DEF WindowDeletes, Without
    <2>2. rest \in SUBSET Repository /\ ClearedThenListed(rest)
      BY <1>3, <1>5 DEF WindowDeletes
    <2> QED BY <1>0, <1>5, <2>1, <2>2 DEF WindowDeletes, WindowOnly, Idle
  <1>6. CASE WindowSelects
    <2>1. PICK r \in window.listed \ {window.selected} :
             window' = [window EXCEPT !.selected = r, !.evidence = Nobody]
      BY <1>6 DEF WindowSelects
    <2>2. r \in Repository
      BY <1>1, <2>1 DEF WindowState
    <2>3. /\ window' \in WindowState /\ window'.watching = window.watching
          /\ window'.controls = window.controls /\ window'.pc = window.pc
          /\ window'.listed = window.listed /\ window'.selected = r
          /\ window'.evidence = Nobody
      BY <1>1, <2>1, <2>2 DEF WindowState
    <2> QED BY <1>1, <1>2, <1>6, <2>1, <2>3, TasksStay DEF WindowSelects, WindowOnly
  <1>7. CASE WindowRefreshes
    <2>1. window' = Refreshed(window, Nobody)
      BY <1>7 DEF WindowRefreshes
    <2> QED BY <1>1, <1>2, <1>7, <2>1, RefreshedIs, TasksStay DEF WindowRefreshes, WindowOnly
  <1>8. CASE WindowAsks
    <2>1. window' = [window EXCEPT !.pc = "asking", !.controls = FALSE] /\ window.watching = 0
      BY <1>8 DEF WindowAsks
    <2>2. /\ window' \in WindowState /\ window'.watching = 0 /\ ~window'.controls
          /\ window'.pc = "asking" /\ window'.listed = window.listed
          /\ window'.selected = window.selected /\ window'.evidence = window.evidence
      BY <1>1, <2>1 DEF WindowState
    <2> QED BY <1>1, <1>2, <1>8, <2>1, <2>2, TasksStay DEF WindowAsks, WindowOnly
  <1>9. CASE WindowAnswered
    <2>1. \/ window' = [window EXCEPT !.pc = "idle", !.controls = TRUE,
                                      !.evidence = window.selected]
          \/ window' = [window EXCEPT !.pc = "idle", !.controls = TRUE]
          \/ window.pc = "asking" /\ window' = [window EXCEPT !.pc = "retrying"]
      BY <1>9 DEF WindowAnswered
    <2>2. window.pc # "idle" /\ window.watching = 0 /\ ~window.controls
      BY <1>1, <1>9 DEF WindowAnswered
    <2>3. /\ window' \in WindowState /\ window'.watching = 0
          /\ window'.controls <=> window'.pc = "idle"
          /\ window'.listed = window.listed /\ window'.selected = window.selected
          /\ window'.evidence \in {window.evidence, window.selected}
      BY <1>1, <2>1, <2>2 DEF WindowState
    <2> QED BY <1>1, <1>2, <1>9, <2>2, <2>3, TasksStay DEF WindowAnswered, WindowOnly
  <1> QED BY <1>4, <1>5, <1>6, <1>7, <1>8, <1>9

(* Each step keeps it. *)
LEMMA WatchersIsKept == WatchersIInv /\ [WatchersNext]_watchersVars => WatchersIInv'
  <1>1. CASE UNCHANGED watchersVars
    BY <1>1, TasksStay, ServerMoves DEF watchersVars
  <1> QED
    BY <1>1, ServerKeeps, ScriptStepKeeps, WindowIngestsKeeps, WindowPollsKeeps,
       WindowRestKeeps DEF WatchersNext

(* The inductive invariant of the clients: for any repositories and any number of jobs,
   polls, lost answers and restarts of the API. *)
THEOREM WatchersInvariance == WatchersSpec => []WatchersIInv
  <1>1. WatchersInit => WatchersIInv
    BY WatchersInitIInv
  <1>2. WatchersIInv /\ [WatchersNext]_watchersVars => WatchersIInv'
    BY WatchersIsKept
  <1> QED BY <1>1, <1>2, PTL DEF WatchersSpec

(* What scripts/trigger_repo_ingest.py and ui/main_window.py tell the operator is so: an
   exit code of zero was earned by the script's own job, the evidence is of the repository
   selected, and the controls are locked exactly while there is something to wait for. *)
THEOREM ClientsAreTruthful == WatchersSpec => []ClientsTellTheTruth
  <1>1. WatchersIInv => ClientsTellTheTruth
    BY DEF WatchersIInv
  <1> QED BY <1>1, WatchersInvariance, PTL

-----------------------------------------------------------------------------
(* The flow of a question. *)
LEMMA QueryInitIInv ==
  ASSUME QueryInit
  PROVE  QueryIInv
  <1>1. /\ ask \in Ask /\ Sensible(ask) /\ left \in 0 .. Budget /\ pc = "route"
        /\ answer = NoAnswer
    BY QueryAssumption DEF QueryInit
  <1>2. answer.kind = "none"
    BY <1>1 DEF NoAnswer
  <1> QED
    BY <1>1, <1>2 DEF QueryIInv, SearchAccounted, BehindVector, BehindLexical, QueryIsSound,
       ListingAccounted, AbsencesAreExplained, OnlySearchStoresAreFatal, AnswerIsVouchedFor, UsesWhatAnswers

(* A step after which there is no answer yet. *)
LEMMA GoesOn ==
  ASSUME QueryIInv, pc # "done", UNCHANGED <<ask, answer>>, left' \in 0 .. Budget,
         pc' # "done", pc' \in {"answer", "verify"} => evidence' # {}, SearchAccounted',
         pc' \notin {"scope", "page"} \/ ListingAccounted'
  PROVE  QueryIInv'
  <1>1. answer' = NoAnswer /\ answer'.kind = "none"
    BY DEF QueryIInv, NoAnswer
  <1> QED
    BY <1>1 DEF QueryIInv, QueryIsSound, AbsencesAreExplained, OnlySearchStoresAreFatal,
       AnswerIsVouchedFor, UsesWhatAnswers, Sensible, NoAnswer, ListingAccounted

(* A step that gives the answer. *)
LEMMA IsAnswered ==
  ASSUME QueryIInv, UNCHANGED <<ask, left>>, pc' = "done", QueryIsSound'
  PROVE  QueryIInv'
  BY DEF QueryIInv, Sensible, SearchAccounted, BehindVector, BehindLexical, ListingAccounted

(* What a call leaves on record. *)
LEMMA CallIsKept ==
  ASSUME NEW s, Calls(s)
  PROVE  missed \subseteq missed' /\ (s \notin up => s \in missed')
  BY DEF Calls

(* The stores come and go, and time passes. *)
LEMMA WorldKeeps ==
  ASSUME QueryIInv, Flip \/ Pass
  PROVE  QueryIInv'
  <1>1. /\ UNCHANGED <<ask, pc, chroma, found, evidence, graphContext, modules, answer, missed>>
        /\ pc # "done"
    BY DEF Flip, Pass
  <1>2. left' \in 0 .. Budget
    BY QueryAssumption DEF Flip, Pass, QueryIInv
  <1>3. SearchAccounted' /\ (pc' \in {"answer", "verify"} => evidence' # {})
    BY <1>1 DEF QueryIInv, SearchAccounted, VectorAccounted, LexicalAccounted
  <1>4. ListingAccounted'
    <2>1. left = 0 => left' = 0
      BY DEF Flip, Pass
    <2> QED BY <1>1, <2>1 DEF QueryIInv, ListingAccounted
  <1> QED BY <1>1, <1>2, <1>3, <1>4, GoesOn

(* The questions that the graph answers alone, and the code of a component. *)
LEMMA GraphRoutesKeep ==
  ASSUME QueryIInv,
         \/ Route \/ ResolveTargets \/ LookUp \/ FindComponent
         \/ ResolveScope \/ ListInventory \/ PageAnswer
  PROVE  QueryIInv'
  <1>1. ask' = ask /\ left' = left /\ left \in 0 .. Budget /\ evidence' = evidence
    BY DEF QueryIInv, Route, ResolveTargets, LookUp, FindComponent, ResolveScope, ListInventory,
       PageAnswer, world
  <1>2. CASE Route
    <2>1. /\ pc = "route" /\ answer' = answer
          /\ pc' \in {"targets", "scope", "component", "embed"}
          /\ ask.route = "hybrid" => pc' = "embed"
          /\ pc' = "scope" => ask.route = "inventory"
      BY <1>2 DEF Route, Stage
    <2>2. SearchAccounted' /\ ListingAccounted'
      BY <1>1, <2>1 DEF SearchAccounted, BehindVector, BehindLexical, ListingAccounted
    <2> QED BY <1>1, <2>1, <2>2, GoesOn
  <1>3. CASE ResolveTargets
    <2>1. /\ pc = "targets" /\ ask.route # "hybrid"
          /\ "graph" \notin up => "graph" \in missed'
      BY <1>3, CallIsKept DEF ResolveTargets, Stage, Done, QueryIInv, SearchAccounted
    <2>2. CASE Resolved = 1
      <3>1. pc' = "dependents" /\ answer' = answer
        BY <1>3, <2>2 DEF ResolveTargets, Stage
      <3>2. SearchAccounted'
        BY <1>1, <2>1, <3>1 DEF SearchAccounted, BehindVector, BehindLexical
      <3> QED BY <1>1, <2>1, <3>1, <3>2, GoesOn
    <2>3. CASE Resolved # 1
      <3>1. /\ pc' = "done"
            /\ answer' = Answer(IF Resolved = 0 THEN "unresolved" ELSE "ambiguous", "none")
        BY <1>3, <2>3 DEF ResolveTargets, Done, Stage
      <3>2. answer'.kind = IF Resolved = 0 THEN "unresolved" ELSE "ambiguous"
        BY <3>1 DEF Answer, NoAnswer
      <3>3. Resolved = 0 /\ ask.dependents # {} => "graph" \in missed'
        BY <2>1 DEF Resolved, QueryIInv, Sensible
      <3>4. QueryIsSound'
        BY <1>1, <2>1, <3>2, <3>3 DEF QueryIsSound, AbsencesAreExplained,
           OnlySearchStoresAreFatal, AnswerIsVouchedFor, UsesWhatAnswers
      <3> QED BY <1>1, <3>1, <3>4, IsAnswered
    <2> QED BY <2>2, <2>3
  <1>4. CASE LookUp
    <2>1. /\ pc = "dependents" /\ ask.route # "hybrid" /\ pc' = "done"
          /\ "graph" \notin up => "graph" \in missed'
          /\ found' = IF "graph" \in up THEN ask.dependents ELSE {}
          /\ answer' = Answer(IF found' = {} THEN "no_dependents" ELSE "dependents", "none")
      BY <1>4, CallIsKept DEF LookUp, Stage, Done, QueryIInv, SearchAccounted
    <2>2. answer'.kind = IF found' = {} THEN "no_dependents" ELSE "dependents"
      BY <2>1 DEF Answer, NoAnswer
    <2>3. QueryIsSound'
      BY <1>1, <2>1, <2>2 DEF QueryIsSound, AbsencesAreExplained,
         OnlySearchStoresAreFatal, AnswerIsVouchedFor, UsesWhatAnswers
    <2> QED BY <1>1, <2>1, <2>3, IsAnswered
  <1>5. CASE FindComponent
    <2>1. /\ pc = "component" /\ ask.route # "hybrid" /\ pc' = "done"
          /\ answer' \in {Answer("snippet", "none"), Answer("not_found", "none")}
      BY <1>5 DEF FindComponent, Stage, Done, QueryIInv, SearchAccounted
    <2>2. answer'.kind \in {"snippet", "not_found"}
      BY <2>1 DEF Answer, NoAnswer
    <2>3. QueryIsSound'
      BY <1>1, <2>1, <2>2 DEF QueryIsSound, AbsencesAreExplained,
         OnlySearchStoresAreFatal, AnswerIsVouchedFor, UsesWhatAnswers
    <2> QED BY <1>1, <2>1, <2>3, IsAnswered
  <1>6. CASE ResolveScope
    <2>1. pc = "scope" /\ pc' = "dependents" /\ answer' = answer /\ ask.route = "inventory"
      BY <1>6 DEF ResolveScope, Stage, QueryIInv, ListingAccounted
    <2>2. SearchAccounted'
      BY <1>1, <2>1 DEF SearchAccounted, BehindVector, BehindLexical
    <2> QED BY <1>1, <2>1, <2>2, GoesOn
  <1>7. CASE ListInventory
    <2>1. /\ pc = "dependents" /\ pc' = "page" /\ answer' = answer /\ ask.route = "inventory"
          /\ missed \subseteq missed' /\ (found' # ask.dependents => "graph" \in missed' \/ left = 0)
      BY <1>7, CallIsKept DEF ListInventory, Stage
    <2>2. SearchAccounted' /\ ListingAccounted'
      BY <1>1, <2>1 DEF SearchAccounted, BehindVector, BehindLexical, ListingAccounted
    <2> QED BY <1>1, <2>1, <2>2, GoesOn
  <1>8. CASE PageAnswer
    <2>1. /\ pc = "page" /\ pc' = "done" /\ ask.route = "inventory" /\ found' = found
          /\ missed \subseteq missed'
          /\ found # ask.dependents => "graph" \in missed \/ left = 0
          /\ answer' = Answer(IF found = {} THEN "no_dependents" ELSE "dependents",
                              IF left = 0 THEN "time_budget_exhausted" ELSE "none")
      BY <1>8, CallIsKept DEF PageAnswer, Done, Stage, QueryIInv, ListingAccounted
    <2>2. /\ answer'.kind = IF found = {} THEN "no_dependents" ELSE "dependents"
          /\ answer'.reason = IF left = 0 THEN "time_budget_exhausted" ELSE "none"
      BY <2>1 DEF Answer, NoAnswer
    <2>3. QueryIsSound'
      BY <1>1, <2>1, <2>2 DEF QueryIsSound, AbsencesAreExplained,
         OnlySearchStoresAreFatal, AnswerIsVouchedFor, UsesWhatAnswers
    <2> QED BY <1>1, <2>1, <2>3, IsAnswered
  <1> QED BY <1>2, <1>3, <1>4, <1>5, <1>6, <1>7, <1>8

(* An outage of Chroma or of the lexical store that ends the question. *)
LEMMA SearchFails ==
  ASSUME QueryIInv, UNCHANGED <<ask, left>>, pc' = "done",
         NEW s \in {"vector", "lexical"}, answer' = Answer("error", s), s \in missed'
  PROVE  QueryIInv'
  <1>1. answer'.kind = "error" /\ answer'.reason = s
    BY DEF Answer, NoAnswer
  <1>2. QueryIsSound'
    BY <1>1 DEF QueryIsSound, AbsencesAreExplained,
       OnlySearchStoresAreFatal, AnswerIsVouchedFor, UsesWhatAnswers
  <1> QED BY <1>2, IsAnswered

(* Embedding, vector search and its second pass. *)
LEMMA VectorSearchKeeps ==
  ASSUME QueryIInv,
         \/ Embed \/ Heal \/ Open("open", "search") \/ Open("reopen", "research")
         \/ SearchVector("search", "heal") \/ SearchVector("research", "lexical")
  PROVE  QueryIInv'
  <1>1. ask' = ask /\ left' = left /\ left \in 0 .. Budget
    BY DEF QueryIInv, Embed, Heal, Open, SearchVector, world
  <1>2. CASE Embed
    <2>1. /\ pc = "embed" /\ UNCHANGED <<answer, evidence>>
          /\ pc' = IF "embedding" \in up THEN "open" ELSE "lexical"
          /\ "embedding" \notin up => "embedding" \in missed'
      BY <1>2, CallIsKept DEF Embed, Stage
    <2>2. SearchAccounted'
      BY <1>1, <2>1 DEF SearchAccounted, BehindVector, BehindLexical, VectorAccounted
    <2> QED BY <1>1, <2>1, <2>2, GoesOn
  <1>3. CASE Heal
    <2>1. pc = "heal" /\ evidence' = evidence /\ missed \subseteq missed' /\ VectorAccounted
      BY <1>3, CallIsKept DEF Heal, Stage, Done, QueryIInv, SearchAccounted, BehindVector
    <2>2. CASE "lexical" \in up
      <3>1. pc' = "reopen" /\ answer' = answer
        BY <1>3, <2>2 DEF Heal, Stage
      <3>2. VectorAccounted'
        BY <1>1, <2>1 DEF VectorAccounted
      <3>3. SearchAccounted'
        BY <3>1, <3>2 DEF SearchAccounted, BehindVector, BehindLexical
      <3> QED BY <1>1, <2>1, <3>1, <3>3, GoesOn
    <2>3. CASE "lexical" \notin up
      BY <1>1, <1>3, <2>3, CallIsKept, SearchFails DEF Heal, Done, Stage
    <2> QED BY <2>2, <2>3
  <1>4. ASSUME NEW from, NEW to, Open(from, to),
               \/ from = "open" /\ to = "search"
               \/ from = "reopen" /\ to = "research"
        PROVE  QueryIInv'
    <2>1. /\ pc = from /\ evidence' = evidence /\ missed \subseteq missed'
          /\ from = "reopen" => VectorAccounted
      BY <1>4 DEF Open, Stage, Done, QueryIInv, SearchAccounted, BehindVector
    <2>2. CASE chroma'
      <3>1. pc' = to /\ answer' = answer
        BY <1>4, <2>2 DEF Open, Stage
      <3>2. from = "reopen" => VectorAccounted'
        BY <1>1, <2>1 DEF VectorAccounted
      <3>3. SearchAccounted'
        BY <1>4, <3>1, <3>2 DEF SearchAccounted, BehindVector, BehindLexical
      <3> QED BY <1>1, <1>4, <2>1, <3>1, <3>3, GoesOn
    <2>3. CASE ~chroma'
      <3>1. pc' = "done" /\ answer' = Answer("error", "vector") /\ "vector" \in missed'
        BY <1>4, <2>3 DEF Open, Done, Stage
      <3> QED BY <1>1, <3>1, SearchFails
    <2> QED BY <2>2, <2>3
  <1>5. ASSUME NEW from, NEW empty, SearchVector(from, empty),
               \/ from = "search" /\ empty = "heal"
               \/ from = "research" /\ empty = "lexical"
        PROVE  QueryIInv'
    <2>1. /\ pc = from /\ answer' = answer /\ pc' \in {"heal", "lexical"}
          /\ "vector" \notin up => "vector" \in missed'
          /\ evidence' = IF "vector" \in up /\ "vector" \in ask.matches THEN {"vector"} ELSE {}
      BY <1>5, CallIsKept DEF SearchVector, Stage
    <2>2. VectorAccounted'
      BY <1>1, <2>1 DEF VectorAccounted
    <2>3. SearchAccounted'
      BY <2>1, <2>2 DEF SearchAccounted, BehindVector, BehindLexical
    <2> QED BY <1>1, <1>5, <2>1, <2>3, GoesOn
  <1> QED BY <1>2, <1>3, <1>4, <1>5

(* The lexical search: it is the last one, and what it finds is added. *)
LEMMA LexicalSearchKeeps ==
  ASSUME QueryIInv, Lexical
  PROVE  QueryIInv'
  <1>1. /\ ask' = ask /\ left' = left /\ left \in 0 .. Budget /\ pc = "lexical"
        /\ missed \subseteq missed' /\ VectorAccounted
    BY CallIsKept DEF QueryIInv, Lexical, world, Stage, Done, SearchAccounted, BehindVector
  <1>2. CASE "lexical" \in up
    <2>1. /\ pc' = "seeds" /\ answer' = answer
          /\ evidence' = evidence \union (ask.matches \intersect {"lexical"})
      BY <1>2 DEF Lexical, Stage
    <2>2. VectorAccounted' /\ LexicalAccounted'
      BY <1>1, <2>1 DEF VectorAccounted, LexicalAccounted
    <2>3. SearchAccounted'
      BY <2>1, <2>2 DEF SearchAccounted
    <2> QED BY <1>1, <2>1, <2>3, GoesOn
  <1>3. CASE "lexical" \notin up
    BY <1>1, <1>3, CallIsKept, SearchFails DEF Lexical, Done, Stage
  <1> QED BY <1>2, <1>3

(* Behind the searches the evidence stays as it is, whatever more is missed. *)
LEMMA StillAccounted ==
  ASSUME QueryIInv, UNCHANGED <<ask, evidence>>, missed \subseteq missed', pc \in BehindLexical
  PROVE  VectorAccounted' /\ LexicalAccounted'
  BY DEF QueryIInv, SearchAccounted, BehindVector, VectorAccounted, LexicalAccounted

(* Behind the searches the evidence stays as it is, whatever the graph does. *)
LEMMA Assembling ==
  ASSUME QueryIInv,
         Seeds \/ Rerank \/ Expand \/ ExpandStructural \/ Discover \/ Assemble
  PROVE  QueryIInv'
  <1>1. /\ UNCHANGED <<ask, left, evidence>> /\ left \in 0 .. Budget
        /\ pc \in {"seeds", "rerank", "parallel"} /\ missed \subseteq missed'
    BY CallIsKept DEF QueryIInv, Seeds, Rerank, Expand, ExpandStructural, Discover, Assemble,
       world, Stage, Done
  <1>2. VectorAccounted' /\ LexicalAccounted'
    BY <1>1, StillAccounted DEF BehindLexical
  <1>3. CASE answer' = answer /\ pc' \in {"rerank", "parallel", "resolve"}
    <2>1. SearchAccounted'
      BY <1>2, <1>3 DEF SearchAccounted
    <2> QED BY <1>1, <1>3, <2>1, GoesOn
  <1>4. CASE pc' = "done" /\ answer' = Answer("chunks", "none")
    <2>1. answer'.kind = "chunks"
      BY <1>4 DEF Answer, NoAnswer
    <2>2. QueryIsSound'
      BY <1>2, <2>1 DEF QueryIsSound, AbsencesAreExplained, OnlySearchStoresAreFatal,
         AnswerIsVouchedFor, UsesWhatAnswers, VectorAccounted, LexicalAccounted
    <2> QED BY <1>1, <1>4, <2>2, IsAnswered
  <1> QED
    BY <1>1, <1>3, <1>4 DEF Seeds, Rerank, Expand, ExpandStructural, Discover, Assemble, Stage, Done

(* The answer of the LLM, or one without it. *)
LEMMA GeneratingKeeps ==
  ASSUME QueryIInv, ResolveAnswer \/ Generate \/ Verify
  PROVE  QueryIInv'
  <1>1. /\ UNCHANGED <<ask, left, evidence>> /\ left \in 0 .. Budget
        /\ pc \in {"resolve", "answer", "verify"} /\ missed \subseteq missed'
        /\ pc \in {"answer", "verify"} => evidence # {}
    BY CallIsKept DEF QueryIInv, ResolveAnswer, Generate, Verify, world, Stage, Done
  <1>2. VectorAccounted' /\ LexicalAccounted'
    BY <1>1, StillAccounted DEF BehindLexical
  <1>3. ASSUME answer' = answer, pc' \in {"answer", "verify"}, evidence # {}
        PROVE  QueryIInv'
    <2>1. SearchAccounted'
      BY <1>2, <1>3 DEF SearchAccounted
    <2> QED BY <1>1, <1>3, <2>1, GoesOn
  <1>4. ASSUME pc' = "done", answer'.kind = "extractive"
        PROVE  QueryIInv'
    <2>1. QueryIsSound'
      BY <1>2, <1>4 DEF QueryIsSound, AbsencesAreExplained, OnlySearchStoresAreFatal,
         AnswerIsVouchedFor, UsesWhatAnswers, VectorAccounted, LexicalAccounted
    <2> QED BY <1>1, <1>4, <2>1, IsAnswered
  <1>5. ASSUME pc' = "done", answer'.kind = "llm", evidence # {},
               \/ answer'.verify_valid = "true" /\ ~answer'.verify_skipped
               \/ answer'.verify_skipped /\ (~ask.verify \/ left = 0)
        PROVE  QueryIInv'
    <2>1. QueryIsSound'
      BY <1>1, <1>2, <1>5 DEF QueryIsSound, AbsencesAreExplained,
         OnlySearchStoresAreFatal, AnswerIsVouchedFor, UsesWhatAnswers, VectorAccounted,
         LexicalAccounted
    <2> QED BY <1>1, <1>5, <2>1, IsAnswered
  <1>6. \A reason : Fallback(reason).kind = "extractive"
    BY DEF Fallback, Answer, NoAnswer
  <1>7. CASE ResolveAnswer
    <2>1. \/ pc' = "done" /\ \E reason \in {"insufficient_context", "not_configured",
                                              "time_budget_exhausted"} :
                                answer' = Fallback(reason)
          \/ pc' = "answer" /\ answer' = answer /\ evidence # {}
      BY <1>7 DEF ResolveAnswer, Done, Stage
    <2> QED BY <1>3, <1>4, <1>6, <2>1
  <1>8. CASE Generate
    <2>1. pc = "answer" /\ evidence # {}
      BY <1>1, <1>8 DEF Generate, Done, Stage
    <2>2. \/ pc' = "done" /\ answer' = Fallback("generation_error")
          \/ pc' = "verify" /\ answer' = answer
          \/ /\ pc' = "done" /\ (~ask.verify \/ left = 0)
             /\ answer' = [Answer("llm", "none") EXCEPT !.verify_skipped = TRUE]
      BY <1>8 DEF Generate, Done, Stage
    <2>3. LET a == [Answer("llm", "none") EXCEPT !.verify_skipped = TRUE]
          IN  a.kind = "llm" /\ a.verify_skipped
      BY DEF Answer, NoAnswer
    <2> QED BY <1>3, <1>4, <1>5, <1>6, <2>1, <2>2, <2>3
  <1>9. CASE Verify
    <2>1. pc = "verify" /\ evidence # {} /\ pc' = "done"
      BY <1>1, <1>9 DEF Verify, Done, Stage
    <2>2. \/ answer' = Fallback("generation_error")
          \/ answer' = [Answer("llm", "none") EXCEPT !.verify_valid = "true"]
          \/ answer' = [Fallback("verification_failed") EXCEPT !.verify_valid = "false"]
      BY <1>9 DEF Verify, Done, Stage
    <2>3. LET a == [Answer("llm", "none") EXCEPT !.verify_valid = "true"]
          IN  a.kind = "llm" /\ a.verify_valid = "true" /\ ~a.verify_skipped
      BY DEF Answer, NoAnswer
    <2>4. [Fallback("verification_failed") EXCEPT !.verify_valid = "false"].kind = "extractive"
      BY DEF Fallback, Answer, NoAnswer
    <2> QED BY <1>4, <1>5, <1>6, <2>1, <2>2, <2>3, <2>4
  <1> QED BY <1>7, <1>8, <1>9

(* Each step keeps it. *)
LEMMA QueryIsKept == QueryIInv /\ [QueryNext]_queryVars => QueryIInv'
  <1>1. CASE UNCHANGED queryVars
    BY <1>1 DEF queryVars, QueryIInv, Sensible, SearchAccounted, VectorAccounted,
       LexicalAccounted, ListingAccounted, QueryIsSound, AbsencesAreExplained, OnlySearchStoresAreFatal,
       AnswerIsVouchedFor, UsesWhatAnswers
  <1> QED
    BY <1>1, WorldKeeps, GraphRoutesKeep, VectorSearchKeeps, LexicalSearchKeeps, Assembling,
       GeneratingKeeps DEF QueryNext, Step

(* The inductive invariant of a question: for any budget and any number of outages. *)
THEOREM QueryInvariance == QuerySpec => []QueryIInv
  <1>1. QueryInit => QueryIInv
    BY QueryInitIInv
  <1>2. QueryIInv /\ [QueryNext]_queryVars => QueryIInv'
    BY QueryIsKept
  <1> QED BY <1>1, <1>2, PTL DEF QuerySpec

(* What run_query and run_retrieval_query answer is so, whenever stores go down and come
   back: an absence is true, or the graph failed, or the budget of a listing was spent and
   the answer says so; only the search stores end a question, an answer of the LLM has
   evidence and the verifier's word where it was asked for, and every source that answered
   is used. *)
THEOREM QueriesAreSound == QuerySpec => []QueryIsSound
  <1>1. QueryIInv => QueryIsSound
    BY DEF QueryIInv
  <1> QED BY <1>1, QueryInvariance, PTL

-------------------------------------------------------------------------------
(* What each request finds out about the model. *)
LEMMA Refusals ==
  /\ \A req \in {"rest", "sdk", "legacy"} : ModelAnswers(req) <=> Model = "responses"
  /\ ModelAnswers("chat") <=> Model = "chat"
  /\ ModelAnswers("plain") <=> Model = "chat_default_temperature"
  /\ ModelAnswers("generate") <=> Model # "gone"
  BY DEF ModelAnswers

(* What stays as it is through a call, and the kind of the candidate. *)
LEMMA CallFacts ==
  ASSUME LlmIInv
  PROVE  /\ candidate \in 1 .. Len(Candidates) /\ Len(Candidates) \in Nat \ {0}
         /\ candidate \in DOMAIN Candidates /\ DOMAIN Candidates = 1 .. Len(Candidates)
         /\ \A i \in DOMAIN Candidates : kind[Candidates[i]] \in Kind
         /\ Model = kind[Candidates[candidate]] /\ Model \in Kind /\ timeouts \in Nat
  <1>1. Candidates \in Seq(STRING) /\ Candidates # <<>> /\ Kinds \subseteq Kind
    BY LlmAssumption
  <1>2. Len(Candidates) \in Nat \ {0} /\ DOMAIN Candidates = 1 .. Len(Candidates)
    BY <1>1
  <1>3. \A i \in DOMAIN Candidates : kind[Candidates[i]] \in Kind
    BY <1>1 DEF LlmIInv
  <1> QED BY <1>2, <1>3 DEF LlmIInv, Model

(* No candidate has been tried before the first call. *)
LEMMA LlmInitIInv == LlmInit => LlmIInv
  <1> SUFFICES ASSUME LlmInit
               PROVE  LlmIInv
    OBVIOUS
  <1>1. /\ phase = "asked" /\ candidate = 1 /\ timeouts = 0
        /\ nextRequest = IF provider = "openai" THEN "rest" ELSE "generate"
        /\ provider \in {"openai", "vertex", "gemini"}
    BY DEF LlmInit, First
  <1>2. candidate \in DOMAIN Candidates
    <2>1. Candidates \in Seq(STRING) /\ Candidates # <<>>
      BY LlmAssumption
    <2>2. 1 \in 1 .. Len(Candidates) /\ DOMAIN Candidates = 1 .. Len(Candidates)
      BY <2>1
    <2> QED BY <1>1, <2>2
  <1>3. WalkIsThorough /\ TimeoutsPassed /\ LlmIsSound
    BY <1>1 DEF WalkIsThorough, TimeoutsPassed, LlmIsSound, UsableModelIsReached, TimeoutsAreFew
  <1>4. nextRequest \in RequestsOf /\ timeouts \in Nat
    BY <1>1 DEF RequestsOf
  <1>5. /\ kind \in [{Candidates[i] : i \in DOMAIN Candidates} -> Kinds]
        /\ sdk \in {"none", "old_payload", "new_payload"} /\ (provider # "openai" => sdk = "none")
    BY DEF LlmInit
  <1> QED BY <1>1, <1>2, <1>3, <1>4, <1>5 DEF LlmIInv

(* A call goes on: the walk has come to a request, or to the next candidate, and says what it
   has found out. *)
LEMMA WalkGoesOn ==
  ASSUME LlmIInv, UNCHANGED <<fixed, phase>>, Calling, candidate' \in DOMAIN Candidates,
         provider = "gemini" => candidate' = 1, nextRequest' \in RequestsOf, timeouts' \in Nat,
         WalkIsThorough', TimeoutsPassed'
  PROVE  LlmIInv'
  <1>1. /\ UNCHANGED <<provider, kind, sdk, phase>> /\ Calling'
        /\ phase \in {"answer", "verify"} /\ RequestsOf' = RequestsOf
    BY DEF fixed, Calling, RequestsOf
  <1>2. candidate' \in Nat
    BY CallFacts
  <1>3. LlmIsSound'
    BY <1>1, <1>2 DEF LlmIsSound, UsableModelIsReached, TimeoutsAreFew, TimeoutsPassed
  <1> QED BY <1>1, <1>3 DEF LlmIInv

(* A call fails, and by then it has waited for one more request at most; without a fault every
   candidate is known to be unusable. *)
LEMMA CallFails ==
  ASSUME LlmIInv, Calling, NEW err, RaiseError(err), timeouts' \in {timeouts, timeouts + 1},
         err = "selection" => IF provider = "gemini" THEN Model = "gone"
                              ELSE candidate = Len(Candidates) /\ Unusable(candidate)
  PROVE  LlmIInv'
  <1>1. /\ UNCHANGED <<provider, kind, sdk, candidate, nextRequest>> /\ phase' = "raised"
        /\ error' = err /\ ~Calling' /\ RequestsOf' = RequestsOf
    BY DEF RaiseError, fixed, Calling, RequestsOf
  <1>2. timeouts' \in Nat /\ candidate \in Nat
    BY CallFacts
  <1>3. TimeoutsAreFew'
    <2>1. timeouts <= (IF provider = "openai" THEN candidate ELSE 0)
      BY <1>2, CallFacts DEF LlmIInv, TimeoutsPassed
    <2>2. timeouts \in Nat
      BY CallFacts
    <2> QED BY <1>1, <1>2, <2>1, <2>2 DEF TimeoutsAreFew
  <1>4. UsableModelIsReached'
    <2> SUFFICES ASSUME err = "selection"
                 PROVE  IF provider = "gemini" THEN kind[Candidates[1]] = "gone"
                        ELSE \A i \in DOMAIN Candidates : Unusable(i)
      BY <1>1 DEF UsableModelIsReached, Unusable
    <2>1. CASE provider = "gemini"
      BY <2>1, CallFacts DEF LlmIInv
    <2>2. CASE provider # "gemini"
      <3>1. \A i \in 1 .. candidate - 1 : Unusable(i)
        BY DEF LlmIInv, WalkIsThorough
      <3> QED BY <2>2, <3>1, CallFacts
    <2> QED BY <2>1, <2>2
  <1>5. WalkIsThorough' /\ TimeoutsPassed'
    BY <1>1 DEF WalkIsThorough, TimeoutsPassed
  <1> QED BY <1>1, <1>2, <1>3, <1>4, <1>5 DEF LlmIInv, LlmIsSound

(* The next request for the same candidate. *)
LEMMA SameCandidate ==
  ASSUME LlmIInv, Calling, NEW next \in RequestsOf \ {"rest"}, NEW err, Try(next, err),
         \/ nextRequest = "rest" /\ timeouts' \in {timeouts, timeouts + 1}
         \/ timeouts' = timeouts,
         next = "sdk" => sdk # "none",
         next = "legacy" => Model = "responses",
         next = "chat" => sdk = "none" \/ Model # "responses",
         next = "plain" => Model = "chat_default_temperature"
  PROVE  LlmIInv'
  <1>1. /\ UNCHANGED <<provider, kind, sdk, phase, candidate>> /\ nextRequest' = next
        /\ UNCHANGED <<fixed, phase>> /\ Model' = Model
    BY DEF Try, fixed, Model
  <1>2. WalkIsThorough'
    BY <1>1 DEF LlmIInv, WalkIsThorough, Calling, Unusable
  <1>3. TimeoutsPassed' /\ timeouts' \in Nat
    BY <1>1, CallFacts DEF LlmIInv, TimeoutsPassed, RequestsOf
  <1> QED BY <1>1, <1>2, <1>3, WalkGoesOn DEF LlmIInv

(* The candidate cannot answer: the next one, or the end of the call. *)
LEMMA NextCandidate ==
  ASSUME LlmIInv, Calling, TryNext, provider # "gemini", Unusable(candidate),
         timeouts' = timeouts
  PROVE  LlmIInv'
  <1>1. CASE candidate < Len(Candidates)
    <2>1. /\ UNCHANGED <<provider, kind, sdk, phase>> /\ UNCHANGED <<fixed, phase>>
          /\ candidate' = candidate + 1 /\ candidate' \in DOMAIN Candidates
          /\ nextRequest' = First(provider)
      BY <1>1, CallFacts DEF TryNext, fixed
    <2>2. nextRequest' \in RequestsOf /\ nextRequest' \in {"rest", "generate"}
          /\ (provider = "openai" => nextRequest' = "rest")
      BY <2>1 DEF First, RequestsOf
    <2>3. WalkIsThorough'
      <3>1. \A i \in 1 .. candidate : Unusable(i)
        BY CallFacts DEF LlmIInv, WalkIsThorough
      <3>2. \A i \in 1 .. candidate' - 1 : Unusable(i)'
        BY <2>1, <3>1, CallFacts DEF Unusable
      <3> QED BY <2>2, <3>2 DEF WalkIsThorough
    <2>4. TimeoutsPassed'
      <3>1. timeouts <= (IF provider = "openai" THEN candidate ELSE 0)
        BY CallFacts DEF LlmIInv, TimeoutsPassed
      <3> QED BY <2>1, <2>2, <3>1, CallFacts DEF TimeoutsPassed
    <2> QED BY <2>1, <2>2, <2>3, <2>4, WalkGoesOn, CallFacts
  <1>2. CASE ~(candidate < Len(Candidates))
    <2>1. RaiseError("selection") /\ candidate = Len(Candidates)
      BY <1>2, CallFacts DEF TryNext
    <2> QED BY <2>1, CallFails
  <1> QED BY <1>1, <1>2

(* A call ends: nothing is said of its walk any more. *)
LEMMA ReturnKeeps ==
  ASSUME LlmIInv, phase' = "returned",
         UNCHANGED <<fixed, candidate, nextRequest, error, allowed, timeouts>>
  PROVE  LlmIInv'
  <1>1. /\ UNCHANGED <<provider, kind, sdk, candidate, nextRequest, timeouts>> /\ ~Calling'
        /\ RequestsOf' = RequestsOf
    BY DEF fixed, Calling, RequestsOf
  <1>2. WalkIsThorough' /\ TimeoutsPassed'
    BY <1>1 DEF WalkIsThorough, TimeoutsPassed
  <1>3. LlmIsSound'
    BY <1>1 DEF LlmIInv, LlmIsSound, UsableModelIsReached, TimeoutsAreFew
  <1> QED BY <1>1, <1>2, <1>3 DEF LlmIInv

(* A call starts with the first candidate, or not at all. *)
LEMMA StartKeeps ==
  ASSUME LlmIInv, NEW p \in {"answer", "verify"}, StartCall(p)
  PROVE  LlmIInv'
  <1>1. UNCHANGED <<provider, kind, sdk>> /\ UNCHANGED fixed
    BY DEF StartCall, fixed
  <1>2. CASE /\ phase' = p /\ candidate' = 1 /\ nextRequest' = First(provider)
             /\ timeouts' = 0
    <2>1. /\ nextRequest' \in RequestsOf' /\ nextRequest' \in {"rest", "generate"}
          /\ (provider = "openai" => nextRequest' = "rest") /\ candidate' \in DOMAIN Candidates
      BY <1>1, <1>2, CallFacts DEF First, RequestsOf, LlmIInv
    <2>2. WalkIsThorough' /\ TimeoutsPassed' /\ LlmIsSound'
      BY <1>1, <1>2, <2>1 DEF WalkIsThorough, TimeoutsPassed, LlmIsSound, UsableModelIsReached,
         TimeoutsAreFew
    <2> QED BY <1>1, <1>2, <2>1, <2>2 DEF LlmIInv
  <1>3. CASE phase' = "returned" /\ UNCHANGED <<candidate, nextRequest, error, allowed, timeouts>>
    BY <1>1, <1>3, ReturnKeeps
  <1> QED BY <1>2, <1>3 DEF StartCall

(* A model answers: the call returns, or the verification starts over with the candidates. *)
LEMMA WorksKeeps ==
  ASSUME LlmIInv, Works
  PROVE  LlmIInv'
  <1>1. CASE phase = "answer"
    BY <1>1, StartKeeps DEF Works, Succeed
  <1>2. CASE phase # "answer"
    BY <1>2, ReturnKeeps DEF Works, Succeed
  <1> QED BY <1>1, <1>2

(* A model is refused at once, on either interface: the next request of the chain, or model. *)
LEMMA RefusalsKeep ==
  ASSUME LlmIInv, RestRefused \/ SdkRefused \/ ChatRefused \/ GenerateRefused
  PROVE  LlmIInv'
  <1>1. Calling /\ timeouts' = timeouts
    BY DEF RestRefused, SdkRefused, ChatRefused, GenerateRefused, Instantly
  <1>2. nextRequest \in RequestsOf
    BY DEF LlmIInv
  <1>3. CASE RestRefused
    <2>1. /\ nextRequest = "rest" /\ provider = "openai"
          /\ \E err : Try(AfterRest, err)
          /\ (AfterRest = "chat" /\ sdk = "none") \/ (AfterRest = "sdk" /\ sdk # "none")
      BY <1>2, <1>3 DEF RestRefused, AfterRest, RequestsOf
    <2>2. AfterRest \in RequestsOf \ {"rest"}
      BY <2>1 DEF RequestsOf
    <2> QED BY <1>1, <2>1, <2>2, SameCandidate
  <1>4. CASE SdkRefused
    <2>1. /\ nextRequest \in {"sdk", "legacy"} /\ provider = "openai"
          /\ \/ Try("legacy", "selection") /\ Model = "responses"
             \/ Try("chat", "selection") /\ Model # "responses"
      BY <1>2, <1>4, Refusals DEF SdkRefused, PayloadError, RequestsOf
    <2>2. "legacy" \in RequestsOf \ {"rest"} /\ "chat" \in RequestsOf \ {"rest"}
      BY <2>1 DEF RequestsOf
    <2> QED BY <1>1, <2>1, <2>2, SameCandidate
  <1>5. CASE ChatRefused
    <2>1. nextRequest = "chat" /\ provider = "openai" /\ Model # "chat"
      BY <1>2, <1>5, Refusals DEF ChatRefused, RequestsOf
    <2>2. CASE Model = "chat_default_temperature"
      <3>1. Try("plain", "selection") /\ "plain" \in RequestsOf \ {"rest"}
        BY <1>5, <2>1, <2>2 DEF ChatRefused, RequestsOf
      <3> QED BY <1>1, <2>2, <3>1, SameCandidate
    <2>3. CASE Model # "chat_default_temperature"
      <3>1. sdk = "none" \/ Model # "responses"
        BY <1>1, <2>1 DEF LlmIInv, WalkIsThorough
      <3>2. Unusable(candidate)
        BY <2>1, <2>3, <3>1, CallFacts DEF Unusable, Kind
      <3>3. TryNext
        BY <1>5, <2>3 DEF ChatRefused
      <3> QED BY <1>1, <2>1, <3>2, <3>3, NextCandidate
    <2> QED BY <2>2, <2>3
  <1>6. CASE GenerateRefused
    <2>1. nextRequest = "generate" /\ provider # "openai" /\ Model = "gone"
      BY <1>2, <1>6, Refusals DEF GenerateRefused, RequestsOf
    <2>2. CASE provider = "vertex"
      <3>1. TryNext /\ Unusable(candidate)
        BY <1>6, <2>1, <2>2, CallFacts DEF GenerateRefused, Unusable
      <3> QED BY <1>1, <2>2, <3>1, NextCandidate
    <2>3. CASE provider # "vertex"
      <3>1. RaiseError("selection") /\ provider = "gemini"
        BY <1>6, <2>1, <2>3 DEF GenerateRefused, LlmIInv
      <3> QED BY <1>1, <2>1, <3>1, CallFails
    <2> QED BY <2>2, <2>3
  <1> QED BY <1>3, <1>4, <1>5, <1>6

(* A request fails in any other way, a timeout among them. *)
LEMMA FaultKeeps ==
  ASSUME LlmIInv, Fault
  PROVE  LlmIInv'
  <1>1. Calling /\ timeouts' \in {timeouts, timeouts + 1} /\ nextRequest \in RequestsOf
    BY DEF Fault, LlmIInv
  <1>2. CASE nextRequest = "rest"
    <2>1. /\ Try(AfterRest, "fault") /\ provider = "openai"
          /\ (AfterRest = "chat" /\ sdk = "none") \/ (AfterRest = "sdk" /\ sdk # "none")
      BY <1>1, <1>2 DEF Fault, AfterRest, RequestsOf
    <2>2. AfterRest \in RequestsOf \ {"rest"}
      BY <2>1 DEF RequestsOf
    <2> QED BY <1>1, <1>2, <2>1, <2>2, SameCandidate
  <1>3. CASE nextRequest # "rest"
    <2>1. RaiseError("fault")
      BY <1>3 DEF Fault
    <2> QED BY <1>1, <2>1, CallFails
  <1> QED BY <1>2, <1>3

(* Each step keeps it. *)
LEMMA LlmIsKept == LlmIInv /\ [LlmNext]_llmVars => LlmIInv'
  <1>1. CASE UNCHANGED llmVars
    BY <1>1 DEF llmVars, fixed, LlmIInv, WalkIsThorough, Calling, Unusable, Model, RequestsOf,
       TimeoutsPassed, LlmIsSound, UsableModelIsReached, TimeoutsAreFew
  <1> QED
    BY <1>1, StartKeeps, WorksKeeps, RefusalsKeep, FaultKeeps DEF LlmNext, LlmStep, AskLlm

(* The inductive invariant of a call of the LLM: for any candidates, kinds of model, budget
   and number of faults. *)
THEOREM LlmInvariance == LlmSpec => []LlmIInv
  <1>1. LlmInit => LlmIInv
    BY LlmInitIInv
  <1>2. LlmIInv /\ [LlmNext]_llmVars => LlmIInv'
    BY LlmIsKept
  <1> QED BY <1>1, <1>2, PTL DEF LlmSpec

(* A call of the LLM that no fault cut short fails only if none of its candidates could have
   answered, and it has waited for one request of each candidate and one more at most. *)
THEOREM LlmCallsAreSound == LlmSpec => []LlmIsSound
  <1>1. LlmIInv => LlmIsSound
    BY DEF LlmIInv
  <1> QED BY <1>1, LlmInvariance, PTL

-------------------------------------------------------------------------------
(* What _select_unambiguous_candidate selects: one definition at most, of which the two facts
   of NeverGuesses are true. *)
LEMMA SelectedIsNoGuess ==
  ASSUME NEW name \in DOMAIN Definition, NEW d \in Selected(Definition[name])
  PROVE  /\ Selected(Definition[name]) = {d}
         /\ Cardinality({e \in Definition[name] : ~e.test}) <= 1
         /\ (\E e \in Definition[name] : e.path = d.path /\ e.test)
               => Cardinality(Definition[name]) = 1
  <1> DEFINE defs == Definition[name]
             production == {e \in defs : ~e.test}
  <1>1. /\ IsFiniteSet(defs) /\ Cardinality(defs) \in Nat
        /\ IsFiniteSet(production) /\ Cardinality(production) \in Nat
        /\ Cardinality(production) <= Cardinality(defs)
    <2>1. IsFiniteSet(defs) /\ production \in SUBSET defs
      BY LiteralAssumption
    <2> HIDE DEF defs, production
    <2> QED BY <2>1, FS_Subset, FS_CardinalityType
  <1>2. CASE Cardinality(defs) = 1
    <2>1. Selected(defs) = defs
      BY <1>2 DEF Selected
    <2>2. Cardinality(production) <= 1
      BY <1>1, <1>2
    <2>3. PICK x : defs = {x}
      BY <1>1, <1>2, FS_Singleton
    <2> QED BY <1>2, <2>1, <2>2, <2>3
  <1>3. CASE Cardinality(defs) # 1
    <2>1. Selected(defs) = production /\ Cardinality(production) = 1
      BY <1>3 DEF Selected
    <2>2. PICK x : production = {x}
      BY <1>1, <2>1, FS_Singleton
    <2>3. d \in production /\ Selected(defs) = {d} /\ Cardinality(production) <= 1
      BY <2>1, <2>2
    <2>4. ASSUME NEW e \in defs, e.path = d.path, e.test
          PROVE  FALSE
      BY <2>3, <2>4, LiteralAssumption
    <2> QED BY <2>3, <2>4
  <1> QED BY <1>2, <1>3

(* The domain and the elements of a sequence. *)
LEMMA SequenceFacts ==
  ASSUME NEW S, NEW s \in Seq(S)
  PROVE  /\ Len(s) \in Nat /\ DOMAIN s = 1 .. Len(s)
         /\ \A i \in 1 .. Len(s) : s[i] \in S
  OBVIOUS

(* The names of the question, and how many are tried. *)
LEMMA NamesFacts ==
  ASSUME LiteralIInv
  PROVE  /\ wanted.files \in Seq(STRING) /\ wanted.symbols \in Seq(DOMAIN Definition)
         /\ Len(wanted.files) \in Nat /\ DOMAIN wanted.files = 1 .. Len(wanted.files)
         /\ Len(wanted.symbols) \in Nat /\ DOMAIN wanted.symbols = 1 .. Len(wanted.symbols)
         /\ \A i \in 1 .. Len(wanted.symbols) : wanted.symbols[i] \in DOMAIN Definition
         /\ Names \in Nat /\ Names = Len(wanted.files) + Len(wanted.symbols)
         /\ tries \in Nat /\ tries <= Names
  <1> DEFINE files == wanted.files
             symbols == wanted.symbols
  <1>1. files \in Seq(STRING) /\ symbols \in Seq(DOMAIN Definition) /\ tries \in 0 .. Names
    BY DEF LiteralIInv
  <1>2. /\ Len(files) \in Nat /\ DOMAIN files = 1 .. Len(files)
        /\ Len(symbols) \in Nat /\ DOMAIN symbols = 1 .. Len(symbols)
        /\ \A i \in 1 .. Len(symbols) : symbols[i] \in DOMAIN Definition
    <2> HIDE DEF files, symbols
    <2> QED BY <1>1, SequenceFacts
  <1>3. Names = Len(files) + Len(symbols)
    BY DEF Names
  <1>4. Names \in Nat /\ tries \in Nat /\ tries <= Names
    <2> HIDE DEF files, symbols
    <2> QED BY <1>1, <1>2, <1>3
  <1> QED BY <1>1, <1>2, <1>3, <1>4

(* Nothing is passed over before the first name is tried. *)
LEMMA LiteralInitIInv == LiteralInit \/ LiteralStart(NoQuestion, <<>>) => LiteralIInv
  <1> SUFFICES ASSUME LiteralInit \/ LiteralStart(NoQuestion, <<>>)
               PROVE  LiteralIInv
    OBVIOUS
  <1>1. tries = 0 /\ reply.status = "none"
    BY DEF LiteralInit, LiteralStart, Unresolved
  <1>2. wanted.files \in Seq(STRING) /\ wanted.symbols \in Seq(DOMAIN Definition)
    <2>1. \/ wanted \in Questions
          \/ wanted = [files |-> <<>>, symbols |-> <<>>]
      BY DEF LiteralInit, LiteralStart, NoQuestion
    <2>2. <<>> \in Seq(STRING) /\ <<>> \in Seq(DOMAIN Definition)
      OBVIOUS
    <2>3. CASE wanted = [files |-> <<>>, symbols |-> <<>>]
      <3>1. wanted.files = <<>> /\ wanted.symbols = <<>>
        BY <2>3
      <3> QED BY <2>2, <3>1
    <2>4. CASE wanted \in Questions
      BY <2>4, LiteralAssumption
    <2> QED BY <2>1, <2>3, <2>4
  <1>4. PassedOver /\ tries \in 0 .. Names
    <2>1. Len(wanted.files) \in Nat /\ Len(wanted.symbols) \in Nat
      BY <1>2, SequenceFacts
    <2>2. Names \in Nat
      <3>1. \A a, b \in Nat : a + b \in Nat
        OBVIOUS
      <3> QED BY <2>1, <3>1, Zenon DEF Names
    <2>3. /\ \A i \in 1 .. Len(wanted.files) : ~(i <= tries)
          /\ \A i \in 1 .. Len(wanted.symbols) : ~(Len(wanted.files) + i <= tries)
      BY <1>1, <2>1
    <2> QED BY <1>1, <2>2, <2>3 DEF PassedOver
  <1>3. LiteralIsSound
    BY <1>1 DEF LiteralIsSound, FirstNameIsAnswered, NeverGuesses, NotFoundIsTrueOrOutage
  <1> QED BY <1>1, <1>2, <1>3, <1>4 DEF LiteralIInv

(* The next name is passed over, if it cannot be answered or its lookup failed. *)
LEMMA NameIsPassedOver ==
  ASSUME LiteralIInv, Pending, tries < Names, Miss, lookupFailed \subseteq lookupFailed',
         tries < Len(wanted.files) /\ FileAnswers(wanted.files[tries + 1])
             => wanted.files[tries + 1] \in lookupFailed',
         tries >= Len(wanted.files)
             => LET name == wanted.symbols[tries + 1 - Len(wanted.files)]
                IN  SymbolAnswers(name) => name \in lookupFailed'
  PROVE  LiteralIInv'
  <1>1. /\ wanted' = wanted /\ reply' = reply /\ tries' = tries + 1 /\ tries \in Nat
        /\ Len(wanted.files) \in Nat /\ Len(wanted.symbols) \in Nat
        /\ Names \in Nat /\ PassedOver
    BY NamesFacts DEF Miss, LiteralIInv
  <1> Names' = Names
    BY <1>1 DEF Names
  <1>2. \A i \in 1 .. Len(wanted.files) :
            i <= tries + 1 /\ FileAnswers(wanted.files[i]) => wanted.files[i] \in lookupFailed'
    <2> TAKE i \in 1 .. Len(wanted.files)
    <2>1. i <= tries \/ i = tries + 1 \/ i > tries + 1
      BY <1>1
    <2>2. CASE i <= tries
      <3>1. FileAnswers(wanted.files[i]) => wanted.files[i] \in lookupFailed
        BY <1>1, <2>2 DEF PassedOver
      <3> QED BY <3>1
    <2>3. CASE i = tries + 1
      <3>1. tries < Len(wanted.files)
        BY <1>1, <2>3
      <3> QED BY <2>3, <3>1
    <2>4. CASE i > tries + 1
      BY <1>1, <2>4
    <2> QED BY <2>1, <2>2, <2>3, <2>4
  <1>3. \A i \in 1 .. Len(wanted.symbols) :
            Len(wanted.files) + i <= tries + 1 /\ SymbolAnswers(wanted.symbols[i])
                => wanted.symbols[i] \in lookupFailed'
    <2> TAKE i \in 1 .. Len(wanted.symbols)
    <2>1. \/ Len(wanted.files) + i <= tries
          \/ Len(wanted.files) + i = tries + 1
          \/ Len(wanted.files) + i > tries + 1
      BY <1>1
    <2>2. CASE Len(wanted.files) + i = tries + 1
      <3>1. i = tries + 1 - Len(wanted.files) /\ tries >= Len(wanted.files)
        BY <1>1, <2>2
      <3> QED BY <3>1
    <2>3. CASE Len(wanted.files) + i <= tries
      <3>1. SymbolAnswers(wanted.symbols[i]) => wanted.symbols[i] \in lookupFailed
        BY <1>1, <2>3 DEF PassedOver
      <3> QED BY <3>1
    <2>4. CASE Len(wanted.files) + i > tries + 1
      BY <1>1, <2>4
    <2> QED BY <2>1, <2>2, <2>3, <2>4
  <1>4. PassedOver'
    BY <1>1, <1>2, <1>3 DEF PassedOver, FileAnswers, SymbolAnswers
  <1>5. tries' \in 0 .. Names'
    BY <1>1
  <1>6. LiteralIsSound'
    <2>1. reply'.status = "none"
      BY <1>1 DEF Pending, Unresolved
    <2> QED
      BY <2>1 DEF LiteralIsSound, FirstNameIsAnswered, NeverGuesses, NotFoundIsTrueOrOutage
  <1> QED BY <1>1, <1>4, <1>5, <1>6 DEF LiteralIInv

(* The next file of the question is answered, or passed over. *)
LEMMA TryFileKeeps ==
  ASSUME LiteralIInv, TryFile
  PROVE  LiteralIInv'
  <1> DEFINE path == wanted.files[tries + 1]
  <1>1. /\ Pending /\ tries < Len(wanted.files) /\ PassedOver /\ tries \in Nat
        /\ wanted.files \in Seq(STRING) /\ wanted.symbols \in Seq(DOMAIN Definition)
    BY NamesFacts DEF TryFile, LiteralIInv
  <1> /\ Len(wanted.files) \in Nat /\ DOMAIN wanted.files = 1 .. Len(wanted.files)
      /\ Len(wanted.symbols) \in Nat /\ Names = Len(wanted.files) + Len(wanted.symbols)
    BY NamesFacts
  <1> tries < Names /\ ~(tries >= Len(wanted.files))
    <2>1. \A a, b \in Nat : tries < a => tries < a + b /\ ~(tries >= a)
      BY <1>1
    <2> QED BY <1>1, <2>1, Zenon
  <1>2. CASE LookupRaises(path) \/ (path \notin FullText /\ LookupAnswers /\ Miss)
    <2>1. Miss /\ lookupFailed \subseteq lookupFailed'
      BY <1>2 DEF LookupRaises, LookupAnswers
    <2>2. FileAnswers(path) => path \in lookupFailed'
      BY <1>2 DEF LookupRaises, FileAnswers
    <2> QED BY <1>1, <2>1, <2>2, NameIsPassedOver
  <1>3. CASE /\ path \in FullText /\ LookupAnswers
             /\ tries' = tries + 1 /\ Located(path, "none")
             /\ UNCHANGED <<wanted, source>>
    <2>1. /\ wanted' = wanted /\ lookupFailed' = lookupFailed /\ tries' = tries + 1
          /\ reply'.status = "resolved" /\ reply'.path = path /\ reply'.symbol = "none"
          /\ reply' # Unresolved
      BY <1>3 DEF LookupAnswers, Located, Unresolved
    <2>2. tries' \in 0 .. Names' /\ PassedOver'
      <3>1. Names' = Names /\ ~Pending'
        BY <2>1 DEF Names, Pending, Unresolved
      <3>2. tries + 1 \in 0 .. Names
        <4>1. Names \in Nat
          BY NamesFacts
        <4>2. \A n \in Nat : tries < n => tries + 1 \in 0 .. n
          BY <1>1
        <4> QED BY <1>1, <4>1, <4>2, Zenon
      <3> QED BY <2>1, <3>1, <3>2 DEF PassedOver
    <2>3. FirstNameIsAnswered'
      <3>1. ASSUME NEW i \in DOMAIN wanted.files, FileAnswers(wanted.files[i]),
                   wanted.files[i] \notin lookupFailed
            PROVE  \E j \in 1 .. i : path = wanted.files[j]
        <4>1. i \in 1 .. Len(wanted.files) /\ ~(i <= tries)
          BY <1>1, <3>1 DEF PassedOver
        <4>2. tries + 1 \in 1 .. i
          BY <1>1, <4>1
        <4> QED BY <4>2
      <3> QED BY <2>1, <3>1 DEF FirstNameIsAnswered, FileAnswers
    <2>4. NeverGuesses' /\ NotFoundIsTrueOrOutage'
      BY <2>1 DEF NeverGuesses, NotFoundIsTrueOrOutage
    <2> QED BY <1>1, <2>1, <2>2, <2>3, <2>4 DEF LiteralIInv, LiteralIsSound
  <1> QED BY <1>2, <1>3 DEF TryFile

(* The next symbol is answered, is ambiguous, or is passed over. *)
LEMMA TrySymbolKeeps ==
  ASSUME LiteralIInv, TrySymbol
  PROVE  LiteralIInv'
  <1> DEFINE here == tries + 1 - Len(wanted.files)
             name == wanted.symbols[here]
             defs == Definition[name]
  <1>1. /\ Pending /\ tries >= Len(wanted.files) /\ tries < Names /\ PassedOver
        /\ wanted.files \in Seq(STRING) /\ wanted.symbols \in Seq(DOMAIN Definition)
        /\ tries \in Nat
    BY NamesFacts DEF TrySymbol, LiteralIInv
  <1> /\ Len(wanted.files) \in Nat /\ DOMAIN wanted.files = 1 .. Len(wanted.files)
      /\ Len(wanted.symbols) \in Nat /\ DOMAIN wanted.symbols = 1 .. Len(wanted.symbols)
      /\ Names = Len(wanted.files) + Len(wanted.symbols)
    BY NamesFacts
  <1> ~(tries < Len(wanted.files))
    BY <1>1
  <1>2. here \in 1 .. Len(wanted.symbols) /\ name \in DOMAIN Definition
    <2>1. here \in 1 .. Len(wanted.symbols)
      <3>1. \A a, b \in Nat : tries >= a /\ tries < a + b => tries + 1 - a \in 1 .. b
        BY <1>1
      <3> QED BY <1>1, <3>1, Zenon
    <2> HIDE DEF here
    <2> QED BY <2>1, NamesFacts
  <1>3. CASE \/ LookupRaises(name)
             \/ defs = {} /\ LookupAnswers /\ Miss
             \/ \E d \in Selected(defs) :
                    <<d.path, name>> \notin SymbolText /\ LookupAnswers /\ Miss
    <2>1. Miss /\ lookupFailed \subseteq lookupFailed'
      BY <1>3 DEF LookupRaises, LookupAnswers
    <2>2. CASE LookupRaises(name)
      <3>1. name \in lookupFailed'
        BY <2>2 DEF LookupRaises
      <3> QED BY <1>1, <2>1, <3>1, NameIsPassedOver
    <2>3. CASE defs = {}
      <3>1. ~SymbolAnswers(name)
        <4>1. Selected(defs) \subseteq defs
          BY DEF Selected
        <4> QED BY <2>3, <4>1 DEF SymbolAnswers
      <3> QED BY <1>1, <2>1, <3>1, NameIsPassedOver
    <2>4. CASE \E d \in Selected(defs) : <<d.path, name>> \notin SymbolText
      <3>1. PICK d \in Selected(defs) : <<d.path, name>> \notin SymbolText
        BY <2>4
      <3>2. Selected(defs) = {d}
        BY <1>2, SelectedIsNoGuess
      <3>3. ~SymbolAnswers(name)
        BY <3>1, <3>2 DEF SymbolAnswers
      <3> QED BY <1>1, <2>1, <3>3, NameIsPassedOver
    <2> QED BY <1>3, <2>2, <2>3, <2>4
  <1>4. CASE /\ reply' = [Unresolved EXCEPT !.status = "ambiguous_component"]
             /\ UNCHANGED <<wanted, tries, source>> /\ LookupAnswers
    <2>1. /\ reply'.status = "ambiguous_component" /\ reply' # Unresolved
          /\ wanted' = wanted /\ tries' = tries
      BY <1>4 DEF Unresolved
    <2>2. tries' \in 0 .. Names' /\ PassedOver'
      <3>1. Names' = Names /\ ~Pending'
        BY <2>1 DEF Names, Pending, Unresolved
      <3>2. tries \in 0 .. Names
        BY DEF LiteralIInv
      <3> QED BY <2>1, <3>1, <3>2 DEF PassedOver
    <2> QED
      BY <1>1, <2>1, <2>2 DEF LiteralIInv, LiteralIsSound, FirstNameIsAnswered, NeverGuesses,
         NotFoundIsTrueOrOutage
  <1>5. ASSUME NEW d \in Selected(defs), <<d.path, name>> \in SymbolText, LookupAnswers,
               tries' = tries + 1, Located(d.path, name), UNCHANGED <<wanted, source>>
        PROVE  LiteralIInv'
    <2>1. /\ wanted' = wanted /\ lookupFailed' = lookupFailed
          /\ reply'.status = "resolved" /\ reply'.path = d.path /\ reply'.symbol = name
          /\ reply' # Unresolved
      BY <1>5 DEF LookupAnswers, Located, Unresolved
    <2>2. tries' \in 0 .. Names' /\ PassedOver'
      <3>1. Names' = Names /\ ~Pending'
        BY <1>5, <2>1 DEF Names, Pending, Unresolved
      <3>2. tries' \in 0 .. Names
        <4>1. Names \in Nat
          BY NamesFacts
        <4>2. \A n \in Nat : tries < n => tries + 1 \in 0 .. n
          BY <1>1
        <4> QED BY <1>1, <1>5, <4>1, <4>2, Zenon
      <3> QED BY <3>1, <3>2 DEF PassedOver
    <2>3. FirstNameIsAnswered'
      <3>1. \A i \in DOMAIN wanted.files :
                ~(FileAnswers(wanted.files[i]) /\ wanted.files[i] \notin lookupFailed)
        BY <1>1 DEF PassedOver
      <3>2. ASSUME NEW i \in DOMAIN wanted.symbols, SymbolAnswers(wanted.symbols[i]),
                   wanted.symbols[i] \notin lookupFailed
            PROVE  \E j \in 1 .. i : name = wanted.symbols[j]
        <4>1. i \in 1 .. Len(wanted.symbols) /\ ~(Len(wanted.files) + i <= tries)
          BY <1>1, <3>2 DEF PassedOver
        <4>2. here \in 1 .. i
          <5>1. i \in Nat /\ ~(Len(wanted.files) + i <= tries)
            BY <4>1
          <5>2. \A a \in Nat : tries >= a /\ ~(a + i <= tries) => tries + 1 - a \in 1 .. i
            BY <1>1, <5>1
          <5> QED BY <1>1, <5>1, <5>2, Zenon
        <4> HIDE DEF here
        <4> QED BY <4>2
      <3> QED BY <2>1, <3>1, <3>2 DEF FirstNameIsAnswered, FileAnswers, SymbolAnswers
    <2>4. NeverGuesses' /\ NotFoundIsTrueOrOutage'
      <3>1. /\ Cardinality({e \in defs : ~e.test}) <= 1
            /\ (\E e \in defs : e.path = d.path /\ e.test) => Cardinality(defs) = 1
        BY <1>2, <1>5, SelectedIsNoGuess
      <3> QED BY <2>1, <3>1 DEF NeverGuesses, NotFoundIsTrueOrOutage
    <2> QED BY <1>1, <2>1, <2>2, <2>3, <2>4 DEF LiteralIInv, LiteralIsSound
  <1> QED BY <1>3, <1>4, <1>5 DEF TrySymbol

(* The question is refused when every name was tried. *)
LEMMA GiveUpKeeps ==
  ASSUME LiteralIInv, GiveUp
  PROVE  LiteralIInv'
  <1>1. /\ UNCHANGED <<wanted, tries, lookupFailed>> /\ Pending /\ PassedOver
        /\ tries = Len(wanted.files) + Len(wanted.symbols)
        /\ reply'.status \in {"file_not_found", "component_not_found"}
        /\ reply' # Unresolved
        /\ wanted.files \in Seq(STRING) /\ wanted.symbols \in Seq(DOMAIN Definition)
        /\ tries \in 0 .. Names
    BY DEF GiveUp, Names, LiteralIInv, Unresolved
  <1>2. NotFoundIsTrueOrOutage'
    <2>1. /\ Len(wanted.files) \in Nat /\ DOMAIN wanted.files = 1 .. Len(wanted.files)
          /\ Len(wanted.symbols) \in Nat /\ DOMAIN wanted.symbols = 1 .. Len(wanted.symbols)
      BY NamesFacts
    <2>2. \A a, b \in Nat : /\ \A i \in 1 .. a : i <= a + b
                            /\ \A i \in 1 .. b : a + i <= a + b
      OBVIOUS
    <2>3. /\ \A i \in 1 .. Len(wanted.files) : i <= tries
          /\ \A i \in 1 .. Len(wanted.symbols) : Len(wanted.files) + i <= tries
      BY <1>1, <2>1, <2>2, Zenon
    <2>4. /\ \A i \in 1 .. Len(wanted.files) :
                FileAnswers(wanted.files[i]) => wanted.files[i] \in lookupFailed
          /\ \A i \in 1 .. Len(wanted.symbols) :
                SymbolAnswers(wanted.symbols[i]) => wanted.symbols[i] \in lookupFailed
      BY <1>1, <2>3, Zenon DEF PassedOver
    <2> QED BY <1>1, <2>1, <2>4 DEF NotFoundIsTrueOrOutage, FileAnswers, SymbolAnswers
  <1>3. PassedOver' /\ tries' \in 0 .. Names'
    BY <1>1 DEF PassedOver, Pending, Unresolved, Names
  <1> QED
    BY <1>1, <1>2, <1>3 DEF LiteralIInv, LiteralIsSound, FirstNameIsAnswered, NeverGuesses

(* Each step keeps it. *)
LEMMA LiteralIsKept == LiteralIInv /\ [LiteralNext]_literalVars => LiteralIInv'
  <1>1. CASE UNCHANGED literalVars
    BY <1>1 DEF literalVars, LiteralIInv, Names, PassedOver, Pending, LiteralIsSound,
       FirstNameIsAnswered, NeverGuesses, NotFoundIsTrueOrOutage, FileAnswers, SymbolAnswers
  <1> QED
    BY <1>1, TryFileKeeps, TrySymbolKeeps, GiveUpKeeps DEF LiteralNext

(* The inductive invariant of a literal answer: for any names, definitions and outages. *)
THEOREM LiteralInvariance == LiteralSpec => []LiteralIInv
  <1>1. LiteralInit => LiteralIInv
    BY LiteralInitIInv
  <1>2. LiteralIInv /\ [LiteralNext]_literalVars => LiteralIInv'
    BY LiteralIsKept
  <1> QED BY <1>1, <1>2, PTL DEF LiteralSpec

(* The code that is shown in the place of an answer is that of the first name of the question
   the index can answer, it is never picked out of several candidates, and "not found" is
   true of every name whose lookup did not fail. *)
THEOREM LiteralAnswersAreSound == LiteralSpec => []LiteralIsSound
  <1>1. LiteralIInv => LiteralIsSound
    BY DEF LiteralIInv
  <1> QED BY <1>1, LiteralInvariance, PTL
-------------------------------------------------------------------------------
(* The lines of a symbol: what the loops of brace_block_end compute is the line on which
   the first brace is closed. By induction over the lines, and over the characters of
   each. *)
(* Up to a bound. *)
LEMMA InductionUpTo ==
  ASSUME NEW n \in Nat, NEW G, 0 \in G, \A k \in 0 .. n - 1 : k \in G => k + 1 \in G
  PROVE  \A k \in 0 .. n : k \in G
  <1> DEFINE H == {k \in Nat : k <= n => k \in G}
  <1>1. ASSUME NEW k \in H PROVE k + 1 \in H
    <2> SUFFICES ASSUME k + 1 <= n PROVE k + 1 \in G
      OBVIOUS
    <2>1. k \in 0 .. n - 1 /\ k \in G
      OBVIOUS
    <2> QED BY <2>1
  <1>2. 0 \in H /\ H \in SUBSET Nat
    OBVIOUS
  <1> HIDE DEF H
  <1>3. H = Nat
    BY <1>1, <1>2, Induction
  <1> QED BY <1>3 DEF H

(* A function on 0 .. n given by its first value and by each from the one before. *)
LEMMA Recursion ==
  ASSUME NEW V, NEW b \in V, NEW n \in Nat, NEW T \in [1 .. n -> [V -> V]]
  PROVE  \E f \in [0 .. n -> V] : f[0] = b /\ \A k \in 1 .. n : f[k] = T[k][f[k - 1]]
  <1> DEFINE Good(f, m) == \A k \in 0 .. m : f[k] = IF k = 0 THEN b ELSE T[k][f[k - 1]]
             G == {m \in Nat : \E f \in [0 .. n -> V] : Good(f, m)}
  <1>1. 0 \in G
    <2>1. [k \in 0 .. n |-> b] \in [0 .. n -> V]
      OBVIOUS
    <2>2. Good([k \in 0 .. n |-> b], 0)
      OBVIOUS
    <2> QED BY <2>1, <2>2
  <1>2. ASSUME NEW m \in 0 .. n - 1, m \in G
        PROVE  m + 1 \in G
    <2>1. PICK f \in [0 .. n -> V] : Good(f, m)
      BY <1>2
    <2>2. m \in 0 .. n /\ m + 1 \in 1 .. n /\ (m + 1) - 1 = m
      BY <1>2
    <2>3. T[m + 1][f[m]] \in V
      BY <2>1, <2>2
    <2> DEFINE h == [k \in 0 .. n |-> IF k = m + 1 THEN T[m + 1][f[m]] ELSE f[k]]
    <2>4. h \in [0 .. n -> V]
      BY <2>3
    <2>5. ASSUME NEW k \in 0 .. m + 1
          PROVE  h[k] = IF k = 0 THEN b ELSE T[k][h[k - 1]]
      <3>1. CASE k = m + 1
        <4>1. k \in 0 .. n /\ k - 1 = m /\ k # 0 /\ m \in 0 .. n /\ m # m + 1
          BY <2>2, <3>1
        <4>2. h[k] = T[m + 1][f[m]] /\ h[m] = f[m]
          BY <3>1, <4>1
        <4> QED BY <3>1, <4>1, <4>2
      <3>2. CASE k # m + 1
        <4>1. k \in 0 .. m /\ k \in 0 .. n
          BY <2>2, <3>2
        <4>2. h[k] = f[k]
          BY <3>2, <4>1
        <4>3. k # 0 => k - 1 \in 0 .. n /\ k - 1 # m + 1
          BY <2>2, <4>1
        <4>4. k # 0 => h[k - 1] = f[k - 1]
          BY <4>3
        <4> QED BY <2>1, <4>1, <4>2, <4>4
      <3> QED BY <3>1, <3>2
    <2> HIDE DEF h
    <2> QED BY <2>2, <2>4, <2>5
  <1> HIDE DEF G
  <1>3. n \in G
    <2>1. \A k \in 0 .. n : k \in G
      BY <1>1, <1>2, InductionUpTo
    <2> QED BY <2>1
  <1>4. PICK f \in [0 .. n -> V] : Good(f, n)
    BY <1>3 DEF G
  <1>5. f[0] = b /\ \A k \in 1 .. n : f[k] = T[k][f[k - 1]]
    BY <1>4
  <1> QED BY <1>5

-----------------------------------------------------------------------------
Char == {"{", "}", "x"}
ScanState == [balance : Int, opened : BOOLEAN, end : Nat]

(* One character read. *)
LEMMA ReadIs ==
  ASSUME NEW s \in ScanState, NEW c \in Char, NEW i \in Nat
  PROVE  /\ Read(s, c, i) \in ScanState
         /\ s.end # 0 => Read(s, c, i) = s
         /\ s.end = 0 /\ c = "{" => /\ Read(s, c, i).balance = s.balance + 1
                                    /\ Read(s, c, i).opened = TRUE /\ Read(s, c, i).end = 0
         /\ s.end = 0 /\ c = "}" /\ s.opened =>
              /\ Read(s, c, i).balance = s.balance - 1 /\ Read(s, c, i).opened = TRUE
              /\ Read(s, c, i).end = IF s.balance <= 1 THEN i ELSE 0
         /\ s.end = 0 /\ c = "}" /\ ~s.opened => Read(s, c, i) = s
         /\ s.end = 0 /\ c = "x" => Read(s, c, i) = s
  <1>1. c # "{" \/ c # "}"
    OBVIOUS
  <1>2. s \in [balance : Int, opened : BOOLEAN, end : Nat]
    BY DEF ScanState
  <1>3. CASE s.end = 0 /\ c = "{"
    <2> DEFINE b == s.balance + 1
    <2>0. Read(s, c, i) = [s EXCEPT !.balance = s.balance + 1, !.opened = TRUE]
      BY <1>3 DEF Read
    <2>1. b \in Int /\ Read(s, c, i) = [s EXCEPT !.balance = b, !.opened = TRUE]
      BY <1>2, <2>0
    <2> HIDE DEF b
    <2>2. /\ Read(s, c, i) \in [balance : Int, opened : BOOLEAN, end : Nat]
          /\ Read(s, c, i).balance = b /\ Read(s, c, i).opened = TRUE /\ Read(s, c, i).end = s.end
      BY <1>2, <2>1
    <2> QED BY <1>1, <1>3, <2>2 DEF ScanState, b
  <1>4. CASE s.end = 0 /\ c = "}" /\ s.opened
    <2> DEFINE b == s.balance - 1
               e == IF s.balance <= 1 THEN i ELSE 0
    <2>0. Read(s, c, i) = [s EXCEPT !.balance = s.balance - 1,
                                    !.end = IF s.balance <= 1 THEN i ELSE 0]
      BY <1>4 DEF Read
    <2>1. b \in Int /\ e \in Nat /\ Read(s, c, i) = [s EXCEPT !.balance = b, !.end = e]
      BY <1>2, <2>0
    <2> HIDE DEF b, e
    <2>2. /\ Read(s, c, i) \in [balance : Int, opened : BOOLEAN, end : Nat]
          /\ Read(s, c, i).balance = b /\ Read(s, c, i).opened = s.opened /\ Read(s, c, i).end = e
      BY <1>2, <2>1
    <2> QED BY <1>1, <1>2, <1>4, <2>2 DEF ScanState, b, e
  <1>5. CASE ~(s.end = 0 /\ c = "{") /\ ~(s.end = 0 /\ c = "}" /\ s.opened)
    <2>1. Read(s, c, i) = s
      BY <1>5 DEF Read
    <2> QED BY <1>5, <2>1
  <1> QED BY <1>3, <1>4, <1>5

LEMMA ScanStates ==
  ASSUME NEW s \in ScanState, NEW m \in Nat, NEW U \in [1 .. m -> [ScanState -> ScanState]]
  PROVE  \E f \in [0 .. m -> ScanState] :
            f[0] = s /\ \A k \in 1 .. m : f[k] = U[k][f[k - 1]]
  BY Recursion

(* The loop over the characters of a line. *)
LEMMA ScanLineIs ==
  ASSUME NEW s \in ScanState, NEW line \in Seq(Char), NEW i \in Nat
  PROVE  \E u \in [0 .. Len(line) -> ScanState] :
            /\ ScanLine(s, line, i) = u[Len(line)]
            /\ u[0] = s
            /\ \A k \in 1 .. Len(line) : u[k] = Read(u[k - 1], line[k], i)
  <1> DEFINE n == Len(line)
             T == [k \in 1 .. n |-> [v \in ScanState |-> Read(v, line[k], i)]]
             F == CHOOSE f : f = [k \in 0 .. n |-> IF k = 0 THEN s ELSE Read(f[k - 1], line[k], i)]
  <1>1. n \in Nat /\ \A k \in 1 .. n : line[k] \in Char
    BY LenProperties, ElementOfSeq
  <1> HIDE DEF n
  <1>2. T \in [1 .. n -> [ScanState -> ScanState]]
    BY <1>1, ReadIs
  <1>3. PICK f \in [0 .. n -> ScanState] : f[0] = s /\ \A k \in 1 .. n : f[k] = T[k][f[k - 1]]
    <2> HIDE DEF T
    <2> QED BY <1>1, <1>2, ScanStates
  <1>4. \A k \in 1 .. n : k - 1 \in 0 .. n /\ f[k - 1] \in ScanState
    BY <1>1
  <1>5. \A k \in 1 .. n : T[k][f[k - 1]] = Read(f[k - 1], line[k], i)
    BY <1>4
  <1> HIDE DEF T
  <1>6. f = [k \in 0 .. n |-> IF k = 0 THEN s ELSE Read(f[k - 1], line[k], i)]
    <2>1. \A k \in 0 .. n : k # 0 => k \in 1 .. n
      BY <1>1
    <2>2. \A k \in 0 .. n : f[k] = IF k = 0 THEN s ELSE Read(f[k - 1], line[k], i)
      BY <1>3, <1>5, <2>1
    <2> QED BY <2>2
  <1>7. F = [k \in 0 .. n |-> IF k = 0 THEN s ELSE Read(F[k - 1], line[k], i)]
    BY <1>6
  <1> HIDE DEF F
  <1>8. F \in [0 .. n -> ScanState]
    <2> DEFINE G == {k \in Nat : F[k] \in ScanState}
    <2>1. 0 \in G
      <3>1. F[0] = s
        BY <1>1, <1>7
      <3> QED BY <3>1
    <2>2. ASSUME NEW k \in 0 .. n - 1, k \in G
          PROVE  k + 1 \in G
      <3>1. k + 1 \in 0 .. n /\ k + 1 \in 1 .. n /\ k + 1 # 0 /\ (k + 1) - 1 = k
        BY <1>1
      <3>2. F[k + 1] = Read(F[k], line[k + 1], i)
        BY <1>7, <3>1
      <3>3. F[k] \in ScanState /\ line[k + 1] \in Char
        BY <1>1, <2>2, <3>1
      <3> DEFINE v == F[k]
                 c == line[k + 1]
      <3>4. v \in ScanState /\ c \in Char /\ F[k + 1] = Read(v, c, i)
        BY <3>2, <3>3
      <3> HIDE DEF v, c
      <3>5. Read(v, c, i) \in ScanState
        BY <3>4, ReadIs, Zenon
      <3>6. F[k + 1] \in ScanState
        BY <3>4, <3>5
      <3> QED BY <3>1, <3>6
    <2> HIDE DEF G
    <2>3. \A k \in 0 .. n : k \in G
      BY <1>1, <2>1, <2>2, InductionUpTo
    <2>4. \A k \in 0 .. n : F[k] \in ScanState
      BY <2>3 DEF G
    <2> QED BY <1>7, <2>4
  <1>9. ScanLine(s, line, i) = F[n]
    BY DEF ScanLine, F, n
  <1>10. F[0] = s /\ \A k \in 1 .. n : F[k] = Read(F[k - 1], line[k], i)
    BY <1>1, <1>7
  <1> QED BY <1>8, <1>9, <1>10 DEF n

LEMMA ScanLineType ==
  ASSUME NEW s \in ScanState, NEW line \in Seq(Char), NEW i \in Nat
  PROVE  ScanLine(s, line, i) \in ScanState
  <1>1. Len(line) \in Nat
    BY LenProperties
  <1> QED BY <1>1, ScanLineIs

(* What holds first and is kept by every step holds to the end. *)
LEMMA Stays ==
  ASSUME NEW V, NEW n \in Nat, NEW g, g[0] \in V,
         \A k \in 0 .. n - 1 : g[k] \in V => g[k + 1] \in V
  PROVE  \A k \in 0 .. n : g[k] \in V
  <1> DEFINE H == {k \in 0 .. n : g[k] \in V}
  <1>1. 0 \in H /\ \A k \in 0 .. n - 1 : k \in H => k + 1 \in H
    OBVIOUS
  <1> HIDE DEF H
  <1>2. \A k \in 0 .. n : k \in H
    BY <1>1, InductionUpTo
  <1> QED BY <1>2 DEF H

(* The loop over the lines. *)
LEMMA ScanIs ==
  ASSUME NEW lines \in Seq(Seq(Char))
  PROVE  \E u \in [0 .. Len(lines) -> ScanState] :
            /\ Scan(lines) = u[Len(lines)]
            /\ u[0] = Unopened
            /\ \A k \in 1 .. Len(lines) : u[k] = ScanLine(u[k - 1], lines[k], k)
  <1> DEFINE n == Len(lines)
             Y == [k \in 1 .. n |-> [v \in ScanState |-> ScanLine(v, lines[k], k)]]
             F == CHOOSE f : f = [k \in 0 .. n |-> IF k = 0 THEN Unopened
                                                 ELSE ScanLine(f[k - 1], lines[k], k)]
  <1>1. n \in Nat /\ \A k \in 1 .. n : lines[k] \in Seq(Char)
    BY LenProperties, ElementOfSeq
  <1> HIDE DEF n
  <1>2. Y \in [1 .. n -> [ScanState -> ScanState]]
    BY <1>1, ScanLineType
  <1>0. Unopened \in ScanState
    BY DEF Unopened, ScanState
  <1>3. PICK f \in [0 .. n -> ScanState] : f[0] = Unopened /\ \A k \in 1 .. n : f[k] = Y[k][f[k - 1]]
    <2> HIDE DEF Y
    <2> QED BY <1>0, <1>1, <1>2, ScanStates
  <1>4. \A k \in 1 .. n : k - 1 \in 0 .. n /\ f[k - 1] \in ScanState
    BY <1>1
  <1>5. \A k \in 1 .. n : Y[k][f[k - 1]] = ScanLine(f[k - 1], lines[k], k)
    BY <1>4
  <1> HIDE DEF Y
  <1>6. f = [k \in 0 .. n |-> IF k = 0 THEN Unopened ELSE ScanLine(f[k - 1], lines[k], k)]
    <2>1. \A k \in 0 .. n : k # 0 => k \in 1 .. n
      BY <1>1
    <2>2. \A k \in 0 .. n : f[k] = IF k = 0 THEN Unopened ELSE ScanLine(f[k - 1], lines[k], k)
      BY <1>3, <1>5, <2>1
    <2> QED BY <2>2
  <1>7. F = [k \in 0 .. n |-> IF k = 0 THEN Unopened ELSE ScanLine(F[k - 1], lines[k], k)]
    BY <1>6
  <1>9. Scan(lines) = F[n]
    BY DEF Scan, F, n
  <1> HIDE DEF F
  <1>10. F[0] = Unopened /\ \A k \in 1 .. n : F[k] = ScanLine(F[k - 1], lines[k], k)
    BY <1>1, <1>7
  <1>8. F \in [0 .. n -> ScanState]
    <2>1. ASSUME NEW k \in 0 .. n - 1, F[k] \in ScanState
          PROVE  F[k + 1] \in ScanState
      <3>1. k + 1 \in 1 .. n /\ (k + 1) - 1 = k /\ k + 1 \in Nat
        BY <1>1
      <3>2. F[k + 1] = ScanLine(F[k], lines[k + 1], k + 1)
        BY <1>10, <3>1
      <3> QED BY <1>1, <2>1, <3>1, <3>2, ScanLineType
    <2>2. \A k \in 0 .. n : F[k] \in ScanState
      BY <1>0, <1>1, <1>10, <2>1, Stays
    <2> QED BY <1>7, <2>2
  <1> QED BY <1>8, <1>9, <1>10 DEF n

(* The text up to the end of each line. *)
Text == Seq(Char)

LEMMA Concatenations ==
  ASSUME NEW s \in Text, NEW m \in Nat, NEW U \in [1 .. m -> [Text -> Text]]
  PROVE  \E f \in [0 .. m -> Text] :
            f[0] = s /\ \A k \in 1 .. m : f[k] = U[k][f[k - 1]]
  BY Recursion

LEMMA FlatIs ==
  ASSUME NEW lines \in Seq(Seq(Char))
  PROVE  /\ Flat(lines) \in [0 .. Len(lines) -> Seq(Char)]
         /\ Flat(lines)[0] = <<>>
         /\ \A k \in 1 .. Len(lines) : Flat(lines)[k] = Flat(lines)[k - 1] \o lines[k]
  <1> DEFINE n == Len(lines)
             Y == [k \in 1 .. n |-> [v \in Seq(Char) |-> v \o lines[k]]]
             F == CHOOSE f : f = [k \in 0 .. n |-> IF k = 0 THEN <<>> ELSE f[k - 1] \o lines[k]]
  <1>1. n \in Nat /\ \A k \in 1 .. n : lines[k] \in Seq(Char)
    BY LenProperties, ElementOfSeq
  <1> HIDE DEF n
  <1>2. Y \in [1 .. n -> [Seq(Char) -> Seq(Char)]]
    <2>1. \A k \in 1 .. n : \A v \in Seq(Char) : v \o lines[k] \in Seq(Char)
      BY <1>1, ConcatProperties
    <2> QED BY <2>1
  <1>0. <<>> \in Seq(Char)
    OBVIOUS
  <1>3. PICK f \in [0 .. n -> Seq(Char)] : f[0] = <<>> /\ \A k \in 1 .. n : f[k] = Y[k][f[k - 1]]
    <2> HIDE DEF Y
    <2>1. <<>> \in Text /\ Y \in [1 .. n -> [Text -> Text]]
      BY <1>0, <1>2 DEF Text
    <2>2. \E f \in [0 .. n -> Text] : f[0] = <<>> /\ \A k \in 1 .. n : f[k] = Y[k][f[k - 1]]
      BY <1>1, <2>1, Concatenations
    <2> QED BY <2>2 DEF Text
  <1>4. \A k \in 1 .. n : k - 1 \in 0 .. n /\ f[k - 1] \in Seq(Char)
    BY <1>1
  <1>5. \A k \in 1 .. n : Y[k][f[k - 1]] = f[k - 1] \o lines[k]
    BY <1>4
  <1> HIDE DEF Y
  <1>6. f = [k \in 0 .. n |-> IF k = 0 THEN <<>> ELSE f[k - 1] \o lines[k]]
    <2>1. \A k \in 0 .. n : k # 0 => k \in 1 .. n
      BY <1>1
    <2>2. \A k \in 0 .. n : f[k] = IF k = 0 THEN <<>> ELSE f[k - 1] \o lines[k]
      BY <1>3, <1>5, <2>1
    <2> QED BY <2>2
  <1>7. F = [k \in 0 .. n |-> IF k = 0 THEN <<>> ELSE F[k - 1] \o lines[k]]
    BY <1>6
  <1>9. Flat(lines) = F
    BY DEF Flat, F, n
  <1> HIDE DEF F
  <1>10. F[0] = <<>> /\ \A k \in 1 .. n : F[k] = F[k - 1] \o lines[k]
    <2>1. 0 \in 0 .. n /\ \A k \in 1 .. n : k \in 0 .. n /\ k # 0
      BY <1>1
    <2> QED BY <1>7, <2>1, Zenon
  <1>8. F \in [0 .. n -> Seq(Char)]
    <2>1. ASSUME NEW k \in 0 .. n - 1, F[k] \in Seq(Char)
          PROVE  F[k + 1] \in Seq(Char)
      <3>1. k + 1 \in 1 .. n /\ (k + 1) - 1 = k
        BY <1>1
      <3>2. F[k + 1] = F[k] \o lines[k + 1]
        BY <1>10, <3>1
      <3> QED BY <1>1, <2>1, <3>1, <3>2, ConcatProperties
    <2>2. \A k \in 0 .. n : F[k] \in Seq(Char)
      BY <1>0, <1>1, <1>10, <2>1, Stays
    <2> QED BY <1>7, <2>2
  <1> QED BY <1>8, <1>9, <1>10 DEF n

-----------------------------------------------------------------------------
(* The braces of one kind between two characters, and how deep the second one is. *)
Braces(t, c, f, l) == Cardinality({i \in f .. l : t[i] = c})
Opens == "{"
Shuts == "}"
Depth(t, f, l) == Braces(t, Opens, f, l) - Braces(t, Shuts, f, l)
FirstOpen(t, f) == f \in 1 .. Len(t) /\ t[f] = "{" /\ \A i \in 1 .. f - 1 : t[i] # "{"

(* What the state of the scan says of the characters it has read. *)
Reads(t, s) ==
    IF s.opened
    THEN \E f \in 1 .. Len(t) : /\ FirstOpen(t, f)
                                /\ \A l \in f .. Len(t) : Depth(t, f, l) >= 1
                                /\ s.balance = Depth(t, f, Len(t))
    ELSE s.balance = 0 /\ \A i \in 1 .. Len(t) : t[i] # "{"

Reading(t, s) == s.end = 0 /\ Reads(t, s)
Tells(t, s, i) == /\ s.end = 0 => Reads(t, s)
                  /\ s.end # 0 => s.end = i /\ Closed(t)

LEMMA BracesAre ==
  ASSUME NEW t, NEW c, NEW f \in Nat, NEW l \in Nat
  PROVE  /\ IsFiniteSet({i \in f .. l : t[i] = c}) /\ Braces(t, c, f, l) \in Nat
         /\ l < f => Braces(t, c, f, l) = 0
  <1> DEFINE B == {i \in f .. l : t[i] = c}
  <1>1. IsFiniteSet(f .. l) /\ B \in SUBSET (f .. l)
    BY FS_Interval
  <1>2. IsFiniteSet(B) /\ Cardinality(B) \in Nat
    BY <1>1, FS_Subset, FS_CardinalityType
  <1>3. l < f => B = {}
    OBVIOUS
  <1>4. l < f => Cardinality(B) = 0
    BY <1>3, FS_EmptySet
  <1> QED BY <1>2, <1>4 DEF Braces

LEMMA OneMore ==
  ASSUME NEW t, NEW c, NEW f \in Nat, NEW l \in Nat, f <= l + 1
  PROVE  /\ t[l + 1] = c => Braces(t, c, f, l + 1) = Braces(t, c, f, l) + 1
         /\ t[l + 1] # c => Braces(t, c, f, l + 1) = Braces(t, c, f, l)
  <1> DEFINE B == {i \in f .. l : t[i] = c}
             D == {i \in f .. l + 1 : t[i] = c}
  <1>1. IsFiniteSet(B)
    BY BracesAre
  <1>2. l + 1 \notin B
    OBVIOUS
  <1>3. f .. l + 1 = (f .. l) \cup {l + 1}
    OBVIOUS
  <1>4. t[l + 1] = c => D = B \cup {l + 1}
    BY <1>3
  <1>5. t[l + 1] # c => D = B
    BY <1>3
  <1>6. Braces(t, c, f, l + 1) = Cardinality(D) /\ Braces(t, c, f, l) = Cardinality(B)
    BY DEF Braces
  <1> HIDE DEF B, D
  <1>7. Cardinality(B \cup {l + 1}) = Cardinality(B) + 1
    BY <1>1, <1>2, FS_AddElement
  <1> QED BY <1>4, <1>5, <1>6, <1>7

LEMMA BracesSame ==
  ASSUME NEW t, NEW w, NEW c, NEW f \in Nat, NEW l \in Nat, \A i \in f .. l : t[i] = w[i]
  PROVE  Braces(t, c, f, l) = Braces(w, c, f, l)
  <1>1. {i \in f .. l : t[i] = c} = {i \in f .. l : w[i] = c}
    OBVIOUS
  <1> QED BY <1>1 DEF Braces

LEMMA DepthIs ==
  ASSUME NEW t, NEW f \in Nat, NEW l \in Nat
  PROVE  /\ Depth(t, f, l) \in Int
         /\ Depth(t, f, l) = 0 <=> Braces(t, Opens, f, l) = Braces(t, Shuts, f, l)
         /\ l < f => Depth(t, f, l) = 0
  <1> DEFINE a == Braces(t, Opens, f, l)
             b == Braces(t, Shuts, f, l)
  <1>1. a \in Nat /\ b \in Nat
    BY BracesAre
  <1>2. l < f => a = 0 /\ b = 0
    BY BracesAre
  <1>3. Depth(t, f, l) = a - b
    BY DEF Depth
  <1> HIDE DEF a, b
  <1>4. a - b \in Int /\ (a - b = 0 <=> a = b) /\ (l < f => a - b = 0)
    BY <1>1, <1>2
  <1> QED BY <1>3, <1>4 DEF a, b

LEMMA Deeper ==
  ASSUME NEW t, NEW f \in Nat, NEW l \in Nat, f <= l + 1
  PROVE  /\ t[l + 1] = Opens => Depth(t, f, l + 1) = Depth(t, f, l) + 1
         /\ t[l + 1] = Shuts => Depth(t, f, l + 1) = Depth(t, f, l) - 1
         /\ t[l + 1] # Opens /\ t[l + 1] # Shuts => Depth(t, f, l + 1) = Depth(t, f, l)
  <1> DEFINE a == Braces(t, Opens, f, l)
             b == Braces(t, Shuts, f, l)
             x == Braces(t, Opens, f, l + 1)
             y == Braces(t, Shuts, f, l + 1)
  <1>1. a \in Nat /\ b \in Nat
    BY BracesAre
  <1>2. /\ t[l + 1] = Opens => x = a + 1
        /\ t[l + 1] # Opens => x = a
    BY OneMore
  <1>3. /\ t[l + 1] = Shuts => y = b + 1
        /\ t[l + 1] # Shuts => y = b
    BY OneMore
  <1>4. Depth(t, f, l) = a - b /\ Depth(t, f, l + 1) = x - y
    BY DEF Depth
  <1> HIDE DEF a, b, x, y
  <1>5. Opens # Shuts
    BY DEF Opens, Shuts
  <1>6. CASE t[l + 1] = Opens
    <2>1. x = a + 1 /\ y = b
      BY <1>2, <1>3, <1>5, <1>6
    <2>2. x - y = (a - b) + 1
      BY <1>1, <2>1
    <2> QED BY <1>4, <1>5, <1>6, <2>2
  <1>7. CASE t[l + 1] = Shuts
    <2>1. x = a /\ y = b + 1
      BY <1>2, <1>3, <1>5, <1>7
    <2>2. x - y = (a - b) - 1
      BY <1>1, <2>1
    <2> QED BY <1>4, <1>5, <1>7, <2>2
  <1>8. CASE t[l + 1] # Opens /\ t[l + 1] # Shuts
    <2>1. x = a /\ y = b
      BY <1>2, <1>3, <1>5, <1>8
    <2> QED BY <1>4, <1>5, <1>8, <2>1
  <1> QED BY <1>6, <1>7, <1>8

LEMMA DepthSame ==
  ASSUME NEW t, NEW w, NEW f \in Nat, NEW l \in Nat, \A i \in f .. l : t[i] = w[i]
  PROVE  Depth(t, f, l) = Depth(w, f, l)
  <1>1. Braces(t, Opens, f, l) = Braces(w, Opens, f, l)
    BY BracesSame
  <1>2. Braces(t, Shuts, f, l) = Braces(w, Shuts, f, l)
    BY BracesSame
  <1> QED BY <1>1, <1>2 DEF Depth

(* A text is closed where as many braces are shut as opened from its first one on. *)
LEMMA ClosedIs ==
  ASSUME NEW t \in Seq(Char)
  PROVE  Closed(t) <=> \E f, l \in 1 .. Len(t) : f < l /\ FirstOpen(t, f) /\ Depth(t, f, l) = 0
  <1>1. Len(t) \in Nat /\ DOMAIN t = 1 .. Len(t)
    BY LenProperties
  <1>2. \A f, l \in 1 .. Len(t) :
           Depth(t, f, l) = 0 <=> Cardinality({i \in f .. l : t[i] = "{"})
                                  = Cardinality({i \in f .. l : t[i] = "}"})
    <2> SUFFICES ASSUME NEW f \in 1 .. Len(t), NEW l \in 1 .. Len(t)
                 PROVE  Depth(t, f, l) = 0 <=> Cardinality({i \in f .. l : t[i] = "{"})
                                               = Cardinality({i \in f .. l : t[i] = "}"})
      OBVIOUS
    <2>1. f \in Nat /\ l \in Nat
      BY <1>1
    <2>2. Depth(t, f, l) = 0 <=> Braces(t, Opens, f, l) = Braces(t, Shuts, f, l)
      BY <2>1, DepthIs
    <2> QED BY <2>2, Zenon DEF Braces, Opens, Shuts
  <1>3. Closed(t) <=> \E f, l \in 1 .. Len(t) :
                         /\ f < l /\ t[f] = "{" /\ \A i \in 1 .. f - 1 : t[i] # "{"
                         /\ Cardinality({i \in f .. l : t[i] = "{"})
                              = Cardinality({i \in f .. l : t[i] = "}"})
    BY <1>1, Zenon DEF Closed
  <1> QED BY <1>2, <1>3, Zenon DEF FirstOpen

LEMMA NotYetClosed ==
  ASSUME NEW t \in Seq(Char), NEW s \in ScanState, Reads(t, s)
  PROVE  ~Closed(t)
  <1>1. Len(t) \in Nat
    BY LenProperties
  <1> SUFFICES ASSUME NEW g \in 1 .. Len(t), NEW l \in 1 .. Len(t), g < l,
                      FirstOpen(t, g), Depth(t, g, l) = 0
               PROVE  FALSE
    BY ClosedIs
  <1>2. s.opened
    BY DEF FirstOpen, Reads
  <1>3. PICK f \in 1 .. Len(t) : FirstOpen(t, f) /\ \A k \in f .. Len(t) : Depth(t, f, k) >= 1
    BY <1>2 DEF Reads
  <1>4. f = g
    <2>1. t[f] = "{" /\ \A i \in 1 .. f - 1 : t[i] # "{"
      BY <1>3 DEF FirstOpen
    <2>2. t[g] = "{" /\ \A i \in 1 .. g - 1 : t[i] # "{"
      BY DEF FirstOpen
    <2>3. ~(f < g) /\ ~(g < f)
      <3>1. f < g => f \in 1 .. g - 1
        BY <1>1
      <3>2. g < f => g \in 1 .. f - 1
        BY <1>1
      <3> QED BY <2>1, <2>2, <3>1, <3>2
    <2> QED BY <1>1, <2>3
  <1> QED BY <1>1, <1>3, <1>4

(* What is closed stays closed with what follows. *)
LEMMA StaysClosed ==
  ASSUME NEW t \in Seq(Char), NEW w \in Seq(Char), Len(t) <= Len(w),
         \A j \in 1 .. Len(t) : w[j] = t[j], Closed(t)
  PROVE  Closed(w)
  <1>1. Len(t) \in Nat /\ Len(w) \in Nat
    BY LenProperties
  <1>2. PICK f \in 1 .. Len(t), l \in 1 .. Len(t) :
               f < l /\ FirstOpen(t, f) /\ Depth(t, f, l) = 0
    BY ClosedIs
  <1>3. f \in Nat /\ l \in Nat /\ f \in 1 .. Len(w) /\ l \in 1 .. Len(w)
    BY <1>1
  <1>4. \A j \in f .. l : t[j] = w[j]
    BY <1>1
  <1>5. Depth(w, f, l) = 0
    BY <1>2, <1>3, <1>4, DepthSame
  <1>6. FirstOpen(w, f)
    <2>1. \A j \in 1 .. f - 1 : j \in 1 .. Len(t)
      BY <1>1
    <2> QED BY <1>2, <1>3, <2>1 DEF FirstOpen
  <1> QED BY <1>2, <1>3, <1>5, <1>6, ClosedIs

(* One more character. *)
LEMMA ReadKeeps ==
  ASSUME NEW t \in Seq(Char), NEW w \in Seq(Char), NEW c \in Char,
         Len(w) = Len(t) + 1, \A j \in 1 .. Len(t) : w[j] = t[j], w[Len(t) + 1] = c,
         NEW s \in ScanState, Reading(t, s), NEW i \in Nat \ {0}
  PROVE  Tells(w, Read(s, c, i), i)
  <1> DEFINE n == Len(t)
             r == Read(s, c, i)
  <1>1. n \in Nat /\ Len(w) = n + 1 /\ w[n + 1] = c /\ i \in Nat /\ i # 0
    BY LenProperties
  <1>0. s.end = 0 /\ Reads(t, s)
    BY DEF Reading
  <1>2. c = "{" \/ c = "}" \/ c = "x"
    BY DEF Char
  <1>3. s.balance \in Int /\ s.opened \in BOOLEAN
    BY DEF ScanState
  <1>d. ASSUME NEW f \in Nat, f <= n + 1
        PROVE  /\ c = "{" => Depth(w, f, n + 1) = Depth(w, f, n) + 1
               /\ c = "}" => Depth(w, f, n + 1) = Depth(w, f, n) - 1
               /\ c = "x" => Depth(w, f, n + 1) = Depth(w, f, n)
    <2>1. /\ w[n + 1] = Opens => Depth(w, f, n + 1) = Depth(w, f, n) + 1
          /\ w[n + 1] = Shuts => Depth(w, f, n + 1) = Depth(w, f, n) - 1
          /\ w[n + 1] # Opens /\ w[n + 1] # Shuts => Depth(w, f, n + 1) = Depth(w, f, n)
      BY <1>1, <1>d, Deeper
    <2> QED BY <1>1, <2>1 DEF Opens, Shuts
  <1>4. "{" # "}" /\ "x" # "{" /\ "x" # "}"
    OBVIOUS
  <1>a. c = "{" => r.balance = s.balance + 1 /\ r.opened = TRUE /\ r.end = 0
    BY <1>0, <1>1, ReadIs, Zenon
  <1>b. c = "}" /\ s.opened =>
          /\ r.balance = s.balance - 1 /\ r.opened = TRUE
          /\ r.end = IF s.balance <= 1 THEN i ELSE 0
    BY <1>0, <1>1, ReadIs, Zenon
  <1>c. c = "x" \/ (c = "}" /\ ~s.opened) => r = s
    BY <1>0, <1>1, ReadIs, Zenon
  <1>w. \A j \in 1 .. n : w[j] = t[j]
    OBVIOUS
  <1> HIDE DEF r, n
  <1>5. ASSUME NEW f \in 1 .. n, NEW l \in f .. n
        PROVE  Depth(w, f, l) = Depth(t, f, l)
    <2>1. f \in Nat /\ l \in Nat /\ \A j \in f .. l : t[j] = w[j]
      BY <1>1, <1>w
    <2> QED BY <2>1, DepthSame
  <1>6. ASSUME NEW f \in 1 .. n, FirstOpen(t, f)
        PROVE  FirstOpen(w, f)
    <2>1. f \in 1 .. n + 1 /\ \A j \in 1 .. f - 1 : j \in 1 .. n
      BY <1>1
    <2> QED BY <1>1, <1>6, <1>w, <2>1 DEF FirstOpen
  <1>7. ASSUME ~s.opened
        PROVE  (r.end = 0 => Reads(w, r)) /\ (r.end # 0 => r.end = i /\ Closed(w))
    <2>1. s.balance = 0 /\ \A j \in 1 .. n : t[j] # "{"
      BY <1>0, <1>7 DEF Reads, n
    <2>2. CASE c = "{"
      <3>0. s.balance + 1 = 1
        <4>1. s.balance = 0
          BY <2>1
        <4>2. \A b : b = 0 => b + 1 = 1
          OBVIOUS
        <4> QED BY <4>1, <4>2, Zenon
      <3>1. r.balance = 1 /\ r.opened = TRUE /\ r.end = 0
        BY <1>a, <2>2, <3>0, Zenon
      <3>2. FirstOpen(w, n + 1)
        <4>1. n + 1 \in 1 .. Len(w) /\ (n + 1) - 1 = n
          BY <1>1
        <4> QED BY <1>1, <1>w, <2>1, <2>2, <4>1 DEF FirstOpen
      <3>3. Depth(w, n + 1, n + 1) = 1
        <4>1. n + 1 \in Nat /\ n < n + 1 /\ n + 1 <= n + 1
          BY <1>1
        <4>2. Depth(w, n + 1, n) = 0
          BY <1>1, <4>1, DepthIs
        <4>4. Depth(w, n + 1, n + 1) = Depth(w, n + 1, n) + 1
          BY <1>d, <2>2, <4>1
        <4> QED BY <4>2, <4>4
      <3>4. n + 1 \in 1 .. Len(w) /\ \A l \in n + 1 .. Len(w) : l = n + 1
        BY <1>1
      <3>5. /\ \A l \in n + 1 .. Len(w) : Depth(w, n + 1, l) >= 1
            /\ r.balance = Depth(w, n + 1, Len(w))
        BY <1>1, <3>1, <3>3, <3>4
      <3>6. Reads(w, r)
        BY <3>1, <3>2, <3>4, <3>5, Zenon DEF Reads
      <3> QED BY <3>1, <3>6
    <2>3. CASE c # "{"
      <3>1. r = s
        BY <1>2, <1>7, <1>c, <2>3
      <3>2. \A j \in 1 .. Len(w) : w[j] # "{"
        <4>1. \A j \in 1 .. Len(w) : j \in 1 .. n \/ j = n + 1
          BY <1>1
        <4> QED BY <1>1, <1>w, <2>1, <2>3, <4>1
      <3>3. Reads(w, r)
        BY <1>7, <2>1, <3>1, <3>2 DEF Reads
      <3> QED BY <1>0, <3>1, <3>3
    <2> QED BY <2>2, <2>3
  <1>8. ASSUME s.opened
        PROVE  (r.end = 0 => Reads(w, r)) /\ (r.end # 0 => r.end = i /\ Closed(w))
    <2>1. PICK f \in 1 .. n : /\ FirstOpen(t, f)
                              /\ \A l \in f .. n : Depth(t, f, l) >= 1
                              /\ s.balance = Depth(t, f, n)
      BY <1>0, <1>8 DEF Reads, n
    <2>2. f \in 1 .. Len(w) /\ n \in f .. n /\ f \in Nat /\ f <= n + 1 /\ f < n + 1
      BY <1>1
    <2>0. FirstOpen(w, f)
      BY <1>6, <2>1
    <2>3. s.balance >= 1 /\ Depth(w, f, n) = s.balance
      BY <1>5, <2>1, <2>2
    <2>4. ASSUME Depth(w, f, n + 1) >= 1, r.opened, r.balance = Depth(w, f, n + 1)
          PROVE  Reads(w, r)
      <3>1. \A l \in f .. n + 1 : Depth(w, f, l) >= 1
        <4> SUFFICES ASSUME NEW l \in f .. n + 1 PROVE Depth(w, f, l) >= 1
          OBVIOUS
        <4>1. l = n + 1 \/ l \in f .. n
          BY <1>1
        <4>2. CASE l \in f .. n
          BY <1>5, <2>1, <4>2
        <4> QED BY <2>4, <4>1, <4>2
      <3> QED BY <1>1, <2>0, <2>2, <2>4, <3>1 DEF Reads
    <2>5. CASE c = "{"
      <3>1. r.balance = s.balance + 1 /\ r.opened = TRUE /\ r.end = 0
        BY <1>a, <2>5
      <3>2. Depth(w, f, n + 1) = s.balance + 1
        <4>2. Depth(w, f, n + 1) = Depth(w, f, n) + 1
          BY <1>d, <2>2, <2>5
        <4> QED BY <2>3, <4>2
      <3>3. s.balance + 1 >= 1
        BY <1>3, <2>3
      <3> QED BY <2>4, <3>1, <3>2, <3>3
    <2>6. CASE c = "}"
      <3>1. /\ r.balance = s.balance - 1 /\ r.opened = TRUE
            /\ r.end = IF s.balance <= 1 THEN i ELSE 0
        BY <1>8, <1>b, <2>6
      <3>2. Depth(w, f, n + 1) = s.balance - 1
        <4>2. Depth(w, f, n + 1) = Depth(w, f, n) - 1
          BY <1>d, <2>2, <2>6
        <4> QED BY <2>3, <4>2
      <3>3. CASE s.balance <= 1
        <4>1. Depth(w, f, n + 1) = 0 /\ r.end = i /\ i # 0
          BY <1>1, <1>3, <2>3, <3>1, <3>2, <3>3
        <4>2. n + 1 \in 1 .. Len(w) /\ f < n + 1
          BY <1>1
        <4>3. Closed(w)
          BY <2>0, <2>2, <4>1, <4>2, ClosedIs
        <4> QED BY <4>1, <4>3
      <3>4. CASE ~(s.balance <= 1)
        <4>1. s.balance - 1 >= 1 /\ r.end = 0
          BY <1>3, <3>1, <3>4
        <4> QED BY <2>4, <3>1, <3>2, <4>1
      <3> QED BY <3>3, <3>4
    <2>7. CASE c = "x"
      <3>1. r = s
        BY <1>c, <2>7
      <3>2. Depth(w, f, n + 1) = s.balance
        <4>2. Depth(w, f, n + 1) = Depth(w, f, n)
          BY <1>d, <2>2, <2>7
        <4> QED BY <2>3, <4>2
      <3> QED BY <1>0, <1>8, <2>3, <2>4, <3>1, <3>2
    <2> QED BY <1>2, <2>5, <2>6, <2>7
  <1> QED BY <1>3, <1>7, <1>8 DEF r, Tells

(* A line. *)
LEMMA LineKeeps ==
  ASSUME NEW t \in Seq(Char), NEW s \in ScanState, Reading(t, s),
         NEW line \in Seq(Char), NEW i \in Nat \ {0}
  PROVE  Tells(t \o line, ScanLine(s, line, i), i)
  <1>1. PICK u \in [0 .. Len(line) -> ScanState] :
               /\ ScanLine(s, line, i) = u[Len(line)]
               /\ u[0] = s
               /\ \A k \in 1 .. Len(line) : u[k] = Read(u[k - 1], line[k], i)
    <2>1. i \in Nat
      OBVIOUS
    <2> QED BY <2>1, ScanLineIs
  <1> DEFINE n == Len(line)
             w(k) == t \o SubSeq(line, 1, k)
             G == {k \in 0 .. n : Tells(w(k), u[k], i)}
  <1>2. n \in Nat /\ i \in Nat /\ i # 0
    BY LenProperties
  <1>3. ASSUME NEW k \in 0 .. n
        PROVE  /\ w(k) \in Seq(Char) /\ Len(w(k)) = Len(t) + k
               /\ \A j \in 1 .. Len(t) + k :
                     w(k)[j] = IF j <= Len(t) THEN t[j] ELSE line[j - Len(t)]
    <2> DEFINE x == SubSeq(line, 1, k)
    <2>1. \A j \in 1 .. k : line[j] \in Char
      BY <1>2, ElementOfSeq
    <2>2. x \in Seq(Char) /\ Len(x) = k /\ \A j \in 1 .. k : x[j] = line[j]
      <3>1. 1 \in Int /\ k \in Int /\ k - 1 + 1 = k /\ (1 <= k <=> k # 0)
        BY <1>2
      <3>2. /\ SubSeq(line, 1, k) \in Seq(Char)
            /\ Len(SubSeq(line, 1, k)) = IF 1 <= k THEN k - 1 + 1 ELSE 0
            /\ \A j \in 1 .. k - 1 + 1 : SubSeq(line, 1, k)[j] = line[1 + j - 1]
        BY <2>1, <3>1, SubSeqProperties
      <3> QED BY <1>2, <3>1, <3>2
    <2> HIDE DEF x
    <2>3. /\ t \o x \in Seq(Char)
          /\ Len(t \o x) = Len(t) + Len(x)
          /\ \A j \in 1 .. Len(t) + Len(x) :
                (t \o x)[j] = IF j <= Len(t) THEN t[j] ELSE x[j - Len(t)]
      BY <2>2, ConcatProperties, Zenon
    <2>4. Len(t) \in Nat
      BY LenProperties
    <2>5. \A j \in 1 .. Len(t) + k : ~(j <= Len(t)) => j - Len(t) \in 1 .. k
      BY <1>2, <2>4
    <2>6. w(k) = t \o x
      BY DEF x
    <2> HIDE DEF w
    <2> QED BY <2>2, <2>3, <2>5, <2>6
  <1>4. w(0) = t
    <2>1. SubSeq(line, 1, 0) = <<>>
      BY SubSeqEmpty
    <2> QED BY <2>1, ConcatEmptySeq
  <1>5. w(n) = t \o line
    BY SubSeqFull
  <1> HIDE DEF w
  <1>6. 0 \in G
    <2>1. Tells(w(0), u[0], i)
      BY <1>1, <1>4 DEF Reading, Tells
    <2> QED BY <1>2, <2>1
  <1>7. ASSUME NEW k \in 0 .. n - 1, k \in G
        PROVE  k + 1 \in G
    <2>1. k \in 0 .. n /\ k + 1 \in 0 .. n /\ k + 1 \in 1 .. n /\ (k + 1) - 1 = k
      BY <1>2
    <2> DEFINE v == u[k]
               c == line[k + 1]
               r == Read(v, c, i)
    <2>2. v \in ScanState /\ c \in Char /\ u[k + 1] = r
      BY <1>1, <1>2, <2>1, ElementOfSeq
    <2>3. Tells(w(k), v, i)
      BY <1>7
    <2>4. /\ w(k) \in Seq(Char) /\ w(k + 1) \in Seq(Char)
          /\ Len(w(k + 1)) = Len(w(k)) + 1
          /\ \A j \in 1 .. Len(w(k)) : w(k + 1)[j] = w(k)[j]
          /\ w(k + 1)[Len(w(k)) + 1] = c
      <3>1. Len(t) \in Nat
        BY LenProperties
      <3>2. Len(w(k)) = Len(t) + k /\ Len(w(k + 1)) = Len(t) + (k + 1)
        BY <1>3, <2>1
      <3>3. Len(t) + (k + 1) = (Len(t) + k) + 1
        BY <1>2, <3>1
      <3>4. \A j \in 1 .. Len(t) + k : j \in 1 .. Len(t) + (k + 1)
        BY <1>2, <3>1
      <3>5. (Len(t) + k) + 1 \in 1 .. Len(t) + (k + 1) /\ ~((Len(t) + k) + 1 <= Len(t))
            /\ ((Len(t) + k) + 1) - Len(t) = k + 1
        BY <1>2, <3>1
      <3>6. w(k + 1)[(Len(t) + k) + 1] = line[k + 1]
        BY <1>3, <2>1, <3>5
      <3>7. \A j \in 1 .. Len(t) + k : w(k + 1)[j] = w(k)[j]
        BY <1>3, <2>1, <3>4
      <3> QED BY <1>3, <2>1, <3>2, <3>3, <3>6, <3>7
    <2> DEFINE p == w(k)
               q == w(k + 1)
    <2>5. ASSUME v.end = 0 PROVE k + 1 \in G
      <3>1. Reading(p, v)
        BY <2>3, <2>5 DEF Reading, Tells
      <3>2. /\ p \in Seq(Char) /\ q \in Seq(Char)
            /\ Len(q) = Len(p) + 1 /\ \A j \in 1 .. Len(p) : q[j] = p[j]
            /\ q[Len(p) + 1] = c
        BY <2>4
      <3> HIDE DEF p, q, v, c, r
      <3>3. Tells(q, Read(v, c, i), i)
        <4>1. v \in ScanState /\ c \in Char /\ i \in Nat \ {0}
          BY <1>2, <2>2
        <4> QED BY <3>1, <3>2, <4>1, ReadKeeps
      <3>4. Tells(w(k + 1), u[k + 1], i)
        BY <2>2, <3>3 DEF r, q
      <3> QED BY <2>1, <3>4
    <2>6. ASSUME v.end # 0 PROVE k + 1 \in G
      <3>1. r = v
        BY <1>2, <2>2, <2>6, ReadIs
      <3>2. Closed(w(k)) /\ v.end = i
        BY <2>3, <2>6 DEF Tells
      <3>3. Closed(q)
        <4>1. Closed(p) /\ Len(p) \in Nat
          BY <2>4, <3>2, LenProperties
        <4>2. /\ p \in Seq(Char) /\ q \in Seq(Char) /\ Len(q) = Len(p) + 1
              /\ \A j \in 1 .. Len(p) : q[j] = p[j]
          BY <2>4
        <4> HIDE DEF p, q
        <4>3. Len(p) <= Len(q)
          BY <4>1, <4>2
        <4> QED BY <4>1, <4>2, <4>3, StaysClosed
      <3>4. u[k + 1] = v
        BY <2>2, <3>1
      <3> HIDE DEF v
      <3>5. Tells(w(k + 1), u[k + 1], i)
        BY <2>6, <3>2, <3>3, <3>4 DEF Tells
      <3> QED BY <2>1, <3>5
    <2> QED BY <2>5, <2>6
  <1> HIDE DEF G
  <1>8. n \in G
    <2>1. \A k \in 0 .. n : k \in G
      BY <1>2, <1>6, <1>7, InductionUpTo
    <2> QED BY <1>2, <2>1
  <1> QED BY <1>1, <1>5, <1>8 DEF G

(* After the end nothing is read. *)
LEMMA EndedLine ==
  ASSUME NEW s \in ScanState, s.end # 0, NEW line \in Seq(Char), NEW i \in Nat
  PROVE  ScanLine(s, line, i) = s
  <1>1. PICK u \in [0 .. Len(line) -> ScanState] :
               /\ ScanLine(s, line, i) = u[Len(line)]
               /\ u[0] = s
               /\ \A k \in 1 .. Len(line) : u[k] = Read(u[k - 1], line[k], i)
    BY ScanLineIs
  <1> DEFINE n == Len(line)
             G == {k \in 0 .. n : u[k] = s}
  <1>2. n \in Nat /\ \A k \in 1 .. n : line[k] \in Char
    BY LenProperties, ElementOfSeq
  <1>3. 0 \in G
    BY <1>1, <1>2
  <1>4. ASSUME NEW k \in 0 .. n - 1, k \in G
        PROVE  k + 1 \in G
    <2>1. k + 1 \in 0 .. n /\ k + 1 \in 1 .. n /\ (k + 1) - 1 = k
      BY <1>2
    <2>2. u[k] = s
      BY <1>4
    <2>3. u[k + 1] = Read(s, line[k + 1], i)
      BY <1>1, <2>1, <2>2
    <2> DEFINE c == line[k + 1]
    <2>4. c \in Char
      BY <1>2, <2>1
    <2> HIDE DEF c
    <2>5. Read(s, c, i) = s
      BY <2>4, ReadIs
    <2> QED BY <2>1, <2>3, <2>5 DEF c
  <1> HIDE DEF G
  <1>5. n \in G
    <2>1. \A k \in 0 .. n : k \in G
      BY <1>2, <1>3, <1>4, InductionUpTo
    <2> QED BY <1>2, <2>1
  <1> QED BY <1>1, <1>5 DEF G

(* The lines up to n. *)
Sees(t, s, n) ==
    IF s.end = 0 THEN Reads(t[n], s) /\ \A m \in 0 .. n : ~Closed(t[m])
    ELSE s.end \in 1 .. n /\ Closed(t[s.end]) /\ \A m \in 0 .. s.end - 1 : ~Closed(t[m])

LEMMA ScanSees ==
  ASSUME NEW lines \in Seq(Seq(Char))
  PROVE  Sees(Flat(lines), Scan(lines), Len(lines))
  <1>1. PICK u \in [0 .. Len(lines) -> ScanState] :
               /\ Scan(lines) = u[Len(lines)]
               /\ u[0] = Unopened
               /\ \A k \in 1 .. Len(lines) : u[k] = ScanLine(u[k - 1], lines[k], k)
    BY ScanIs
  <1> DEFINE n == Len(lines)
             t == Flat(lines)
             G == {k \in 0 .. n : Sees(t, u[k], k)}
  <1>2. n \in Nat /\ \A k \in 1 .. n : lines[k] \in Seq(Char)
    BY LenProperties, ElementOfSeq
  <1>3. /\ t \in [0 .. n -> Seq(Char)] /\ t[0] = <<>>
        /\ \A k \in 1 .. n : t[k] = t[k - 1] \o lines[k]
    BY FlatIs
  <1> HIDE DEF t
  <1>4. 0 \in G
    <2>1. Unopened.end = 0 /\ Unopened.balance = 0 /\ ~Unopened.opened
      BY DEF Unopened
    <2>2. Len(<<>>) = 0 /\ \A i \in 1 .. 0 : FALSE
      OBVIOUS
    <2>3. Reads(<<>>, Unopened)
      BY <2>1, <2>2 DEF Reads
    <2>4. Unopened \in ScanState /\ <<>> \in Seq(Char)
      BY DEF Unopened, ScanState
    <2>5. ~Closed(<<>>)
      BY <2>3, <2>4, NotYetClosed
    <2>6. \A m \in 0 .. 0 : m = 0
      OBVIOUS
    <2>7. Sees(t, Unopened, 0)
      BY <1>3, <2>1, <2>3, <2>5, <2>6 DEF Sees
    <2> QED BY <1>1, <1>2, <2>7
  <1>5. ASSUME NEW k \in 0 .. n - 1, k \in G
        PROVE  k + 1 \in G
    <2>1. /\ k \in 0 .. n /\ k + 1 \in 0 .. n /\ k + 1 \in 1 .. n /\ (k + 1) - 1 = k
          /\ k + 1 \in Nat \ {0} /\ k \in Nat
      BY <1>2
    <2> DEFINE v == u[k]
               r == u[k + 1]
               p == t[k]
               q == t[k + 1]
               l == lines[k + 1]
    <2>2. /\ v \in ScanState /\ r \in ScanState /\ l \in Seq(Char)
          /\ r = ScanLine(v, l, k + 1)
          /\ p \in Seq(Char) /\ q \in Seq(Char) /\ q = p \o l
      BY <1>1, <1>2, <1>3, <2>1
    <2>3. Sees(t, v, k)
      BY <1>5
    <2>4. ASSUME v.end = 0 PROVE Sees(t, r, k + 1)
      <3>1. Reading(p, v) /\ \A m \in 0 .. k : ~Closed(t[m])
        BY <2>3, <2>4 DEF Sees, Reading
      <3>2. Tells(q, r, k + 1)
        <4> HIDE DEF v, r, p, q, l
        <4> QED BY <2>1, <2>2, <3>1, LineKeeps
      <3>3. ASSUME r.end = 0 PROVE Sees(t, r, k + 1)
        <4>1. Reads(q, r)
          BY <3>2, <3>3 DEF Tells
        <4>2. ~Closed(q)
          <5> HIDE DEF q, r
          <5> QED BY <2>2, <4>1, NotYetClosed
        <4>3. \A m \in 0 .. k + 1 : m \in 0 .. k \/ m = k + 1
          BY <2>1
        <4> QED BY <3>1, <3>3, <4>1, <4>2, <4>3 DEF Sees
      <3>4. ASSUME r.end # 0 PROVE Sees(t, r, k + 1)
        <4>1. r.end = k + 1 /\ Closed(q)
          BY <3>2, <3>4 DEF Tells
        <4>2. k + 1 \in 1 .. k + 1
          BY <2>1
        <4> QED BY <2>1, <3>1, <3>4, <4>1, <4>2 DEF Sees
      <3> QED BY <3>3, <3>4
    <2>5. ASSUME v.end # 0 PROVE Sees(t, r, k + 1)
      <3>1. r = v
        <4> HIDE DEF v, r, l
        <4> QED BY <2>1, <2>2, <2>5, EndedLine
      <3>2. v.end \in 1 .. k /\ Closed(t[v.end]) /\ \A m \in 0 .. v.end - 1 : ~Closed(t[m])
        BY <2>3, <2>5 DEF Sees
      <3>3. v.end \in 1 .. k + 1
        BY <2>1, <3>2
      <3> QED BY <2>5, <3>1, <3>2, <3>3 DEF Sees
    <2>6. Sees(t, r, k + 1)
      BY <2>4, <2>5
    <2> QED BY <2>1, <2>6
  <1> HIDE DEF G
  <1>6. n \in G
    <2>1. \A k \in 0 .. n : k \in G
      BY <1>2, <1>4, <1>5, InductionUpTo
    <2> QED BY <1>2, <2>1
  <1> QED BY <1>1, <1>6 DEF G, t

LEMMA ElementsOfConcat ==
  ASSUME NEW t \in Seq(Char), NEW x \in Seq(Char)
  PROVE  ToSet(t \o x) = ToSet(t) \cup ToSet(x)
  <1>1. Len(t) \in Nat /\ Len(x) \in Nat /\ DOMAIN t = 1 .. Len(t) /\ DOMAIN x = 1 .. Len(x)
    BY LenProperties
  <1>2. /\ DOMAIN (t \o x) = 1 .. Len(t) + Len(x)
        /\ \A j \in 1 .. Len(t) + Len(x) :
              (t \o x)[j] = IF j <= Len(t) THEN t[j] ELSE x[j - Len(t)]
    BY ConcatProperties, LenProperties
  <1>3. ASSUME NEW j \in 1 .. Len(t) PROVE t[j] \in ToSet(t \o x)
    <2>1. j \in 1 .. Len(t) + Len(x) /\ j <= Len(t)
      BY <1>1
    <2> QED BY <1>2, <2>1 DEF ToSet
  <1>4. ASSUME NEW j \in 1 .. Len(x) PROVE x[j] \in ToSet(t \o x)
    <2>1. /\ Len(t) + j \in 1 .. Len(t) + Len(x) /\ ~(Len(t) + j <= Len(t))
          /\ (Len(t) + j) - Len(t) = j
      BY <1>1
    <2>2. (t \o x)[Len(t) + j] = x[j]
      BY <1>2, <2>1
    <2> QED BY <1>2, <2>1, <2>2 DEF ToSet
  <1>5. ASSUME NEW j \in 1 .. Len(t) + Len(x) PROVE (t \o x)[j] \in ToSet(t) \cup ToSet(x)
    <2>1. CASE j <= Len(t)
      <3>1. j \in 1 .. Len(t) /\ (t \o x)[j] = t[j]
        BY <1>1, <1>2, <2>1
      <3> QED BY <1>1, <3>1 DEF ToSet
    <2>2. CASE ~(j <= Len(t))
      <3>1. j - Len(t) \in 1 .. Len(x) /\ (t \o x)[j] = x[j - Len(t)]
        BY <1>1, <1>2, <2>2
      <3> QED BY <1>1, <3>1 DEF ToSet
    <2> QED BY <2>1, <2>2
  <1>6. ToSet(t \o x) \subseteq ToSet(t) \cup ToSet(x)
    BY <1>2, <1>5 DEF ToSet
  <1>7. ToSet(t) \subseteq ToSet(t \o x) /\ ToSet(x) \subseteq ToSet(t \o x)
    <2>1. ToSet(t) = {t[j] : j \in 1 .. Len(t)} /\ ToSet(x) = {x[j] : j \in 1 .. Len(x)}
      BY <1>1 DEF ToSet
    <2> QED BY <1>3, <1>4, <2>1
  <1> QED BY <1>6, <1>7

(* What is shown of a source ends on the line that closes its first brace. *)
LEMMA BlockEnds ==
  ASSUME source \in Seq(Seq(Char))
  PROVE  BlockIsBalanced
  <1> SUFFICES ASSUME source # <<>> PROVE BlockIsBalanced
    BY DEF BlockIsBalanced
  <1> DEFINE n == Len(source)
             t == Flat(source)
             e == Scan(source).end
             closing == {k \in DOMAIN source : Closed(Flat(source)[k])}
             begins == \E k \in DOMAIN source : k <= 2 /\ "{" \in ToSet(Flat(source)[k])
  <1>1. n \in Nat /\ n >= 1 /\ DOMAIN source = 1 .. n /\ \A k \in 1 .. n : source[k] \in Seq(Char)
    <2>1. n \in Nat /\ n # 0 /\ DOMAIN source = 1 .. n
      BY LenProperties, EmptySeq
    <2>2. \A k \in 1 .. n : source[k] \in Seq(Char)
      BY ElementOfSeq
    <2> QED BY <2>1, <2>2
  <1>2. /\ t \in [0 .. n -> Seq(Char)] /\ t[0] = <<>>
        /\ \A k \in 1 .. n : t[k] = t[k - 1] \o source[k]
    BY FlatIs
  <1>3. Sees(t, Scan(source), n)
    BY ScanSees
  <1>4. e = 0 => closing = {}
    <2>1. e = 0 => \A m \in 0 .. n : ~Closed(t[m])
      BY <1>3 DEF Sees
    <2> QED BY <1>1, <2>1
  <1>5. e # 0 => e \in closing /\ \A m \in closing : e <= m
    <2> SUFFICES ASSUME e # 0 PROVE e \in closing /\ \A m \in closing : e <= m
      OBVIOUS
    <2>1. e \in 1 .. n /\ Closed(t[e]) /\ \A m \in 0 .. e - 1 : ~Closed(t[m])
      BY <1>3 DEF Sees
    <2>2. \A m \in 1 .. n : m \in 0 .. e - 1 \/ e <= m
      BY <1>1, <2>1
    <2> QED BY <1>1, <2>1, <2>2
  <1>6. ToSet(t[1]) = ToSet(source[1])
    <2>0. 1 \in 1 .. n /\ 1 - 1 = 0
      BY <1>1
    <2>1. t[1] = <<>> \o source[1] /\ source[1] \in Seq(Char)
      BY <1>1, <1>2, <2>0, Zenon
    <2>2. t[1] = source[1]
      BY <2>1, ConcatEmptySeq
    <2> QED BY <2>2
  <1>7. n >= 2 => ToSet(t[2]) = ToSet(source[1]) \cup ToSet(source[2])
    <2> SUFFICES ASSUME n >= 2 PROVE ToSet(t[2]) = ToSet(source[1]) \cup ToSet(source[2])
      OBVIOUS
    <2>0. 2 \in 1 .. n /\ 2 - 1 = 1 /\ 1 \in 0 .. n
      BY <1>1
    <2>1. /\ t[2] = t[1] \o source[2] /\ t[1] \in Seq(Char) /\ source[2] \in Seq(Char)
      <3>1. t[2] = t[2 - 1] \o source[2]
        BY <1>2, <2>0, Zenon
      <3> QED BY <1>1, <1>2, <2>0, <3>1
    <2> HIDE DEF t
    <2>2. ToSet(t[1] \o source[2]) = ToSet(t[1]) \cup ToSet(source[2])
      BY <2>1, ElementsOfConcat
    <2> QED BY <1>6, <2>1, <2>2
  <1>8. begins <=> HasBrace(source[1]) \/ (n > 1 /\ HasBrace(source[2]))
    <2>1. 1 \in 1 .. n /\ (2 \in 1 .. n <=> n > 1) /\ (n > 1 <=> n >= 2)
          /\ \A k \in 1 .. n : k <= 2 <=> k = 1 \/ k = 2
      BY <1>1
    <2>2. begins <=> "{" \in ToSet(t[1]) \/ (n > 1 /\ "{" \in ToSet(t[2]))
      BY <1>1, <2>1
    <2> HIDE DEF begins, t
    <2> QED BY <1>6, <1>7, <2>1, <2>2 DEF HasBrace
  <1>9. SpanEnd(source) = IF begins THEN (IF e = 0 THEN 1 ELSE e) ELSE 1
    BY <1>8 DEF SpanEnd, BraceBlockEnd
  <1> HIDE DEF begins, closing, e
  <1>10. IF closing = {} \/ ~begins THEN SpanEnd(source) = 1
         ELSE SpanEnd(source) \in closing /\ \A m \in closing : SpanEnd(source) <= m
    BY <1>4, <1>5, <1>9
  <1> QED BY <1>10 DEF BlockIsBalanced, closing, begins

(* The source of a question is the text of a file of the workspace, and no step changes it. *)
SourceIsText == source \in Seq(Seq(Char))

LEMMA SourceStays ==
  /\ LiteralInit \/ LiteralStart(NoQuestion, <<>>) => SourceIsText
  /\ SourceIsText /\ [LiteralNext]_literalVars => SourceIsText'
  <1>1. LiteralInit \/ LiteralStart(NoQuestion, <<>>) => source = <<>> \/ source \in Sources
    BY DEF LiteralInit, LiteralStart
  <1>2. <<>> \in Seq(Seq(Char)) /\ Sources \subseteq Seq(Seq(Char))
    <2>1. <<>> \in Seq(Seq(Char))
      OBVIOUS
    <2>2. \A lines \in Sources : lines \in Seq(Seq(Char))
      BY LiteralAssumption, Zenon DEF LiteralAssumption, Char
    <2> QED BY <2>1, <2>2
  <1>3. [LiteralNext]_literalVars => source' = source
    BY DEF LiteralNext, TryFile, TrySymbol, GiveUp, LookupRaises, Miss, literalVars
  <1> QED BY <1>1, <1>2, <1>3 DEF SourceIsText

(* The code that is shown of a symbol ends where its first brace is closed, if it begins with
   one, and is its first line otherwise: for every text, of any length and depth. *)
THEOREM SourcesAreBalanced == LiteralSpec => []BlockIsBalanced
  <1>1. SourceIsText => BlockIsBalanced
    BY BlockEnds DEF SourceIsText
  <1>2. LiteralInit => SourceIsText
    BY SourceStays
  <1>3. SourceIsText /\ [LiteralNext]_literalVars => SourceIsText'
    BY SourceStays
  <1> QED BY <1>1, <1>2, <1>3, PTL DEF LiteralSpec

-------------------------------------------------------------------------------
(* Ages grow by a tick at most. *)
LEMMA AgeGrows ==
  ASSUME NEW n \in Nat
  PROVE  Age(n) \in Nat /\ Age(n) <= n + 1
  <1>1. Old \in Nat
    BY HealthAssumption DEF Old
  <1>2. \E m \in {n + 1, Old} : \A k \in {n + 1, Old} : m <= k
    BY <1>1
  <1>3. Age(n) \in {n + 1, Old} /\ \A k \in {n + 1, Old} : Age(n) <= k
    BY <1>2 DEF Age, Min
  <1> QED BY <1>1, <1>3

(* What is critical is a component. *)
LEMMA CriticalAreComponents == \A x : Critical(x) \subseteq Component
  BY DEF Critical, Component

(* The answers of ensure_storage_ready and of /health. *)
Answers == {"none", "admitted", "refused", "healthy", "degraded", "unhealthy"}

(* A verdict is one of the answers. *)
LEMMA VerdictIsOne == \A x, failed : Verdict(x, failed) \in Answers
  BY DEF Verdict, Answers

(* A request that was answered is idle and keeps its answer. *)
LEMMA AnsweredIs ==
  ASSUME NEW x \in Context \union {"health"}, NEW v \in Answers
  PROVE  /\ Answered(x, v) \in HealthState
         /\ Answered(x, v).pc = "idle" /\ Answered(x, v).answer = v
         /\ Answered(x, v).context = x
  BY DEF Answered, HealthState, Answers

(* Everything is up at the start and no report is kept. *)
LEMMA HealthInitIInv == HealthInit => HealthIInv
  <1> SUFFICES ASSUME HealthInit
               PROVE  HealthIInv
    OBVIOUS
  <1>1. Old \in Nat /\ ~(Old <= TTL)
    BY HealthAssumption DEF Old
  <1>2. /\ reachable = Component /\ sinceUp \in [Component -> Nat]
        /\ sinceDown \in [Component -> Nat]
        /\ \A c \in Component : sinceUp[c] = 0
    BY <1>1 DEF HealthInit
  <1>3. /\ reports \in [Context -> [failed : SUBSET Component, kept : Nat]]
        /\ \A x \in Context : ~(reports[x].kept <= TTL)
    BY <1>1 DEF HealthInit, Empty
  <1>4. requests \in [Request -> HealthState] /\ \A r \in Request : requests[r].pc = "idle"
    BY AnsweredIs DEF HealthInit, Answers
  <1> QED
    BY <1>2, <1>3, <1>4 DEF HealthIInv, NowIsNoTick, ProbesAreRecent, ReportsAreRecent

(* A request arrives, or answers: the ages and the reports of others stay. *)
LEMMA ArriveKeeps ==
  ASSUME HealthIInv, NEW r \in Request, NEW x \in Context, Arrive(r, x)
  PROVE  HealthIInv'
  <1>1. UNCHANGED <<reachable, sinceUp, sinceDown, reports>>
    BY DEF Arrive
  <1>2. PICK q : /\ requests' = [requests EXCEPT ![r] = q]
                 /\ q \in HealthState
                 /\ q.pc = "probing" =>
                      /\ q.answer = "none" /\ q.age = 0 /\ q.context = x
                      /\ q.failed = {} /\ q.pending = Flaky
    <2>1. LET a == Answered(x, Verdict(x, reports[x].failed))
          IN  a \in HealthState /\ a.pc = "idle"
      BY VerdictIsOne, AnsweredIs
    <2>3. LET q == [Answered(x, "none") EXCEPT !.pc = "probing", !.pending = Flaky]
          IN  /\ q \in HealthState /\ q.answer = "none" /\ q.age = 0 /\ q.context = x
              /\ q.failed = {} /\ q.pending = Flaky
      BY HealthAssumption DEF Answered, HealthState
    <2> QED BY <2>1, <2>3 DEF Arrive
  <1>3. requests' \in [Request -> HealthState]
    BY <1>2 DEF HealthIInv
  <1>4. q.pc = "probing" => WasSo({}, Component \ Flaky, 0)
    BY DEF HealthIInv, NowIsNoTick, WasSo
  <1>5. ProbesAreRecent'
    <2> SUFFICES ASSUME NEW s \in Request, requests'[s].pc = "probing"
                 PROVE  /\ requests'[s].answer = "none" /\ requests'[s].age <= ProbeTimeout
                        /\ requests'[s].context \in Context
                        /\ requests'[s].pending \intersect requests'[s].failed = {}
                        /\ WasSo(requests'[s].failed, Component \ requests'[s].pending,
                                 requests'[s].age)
      BY <1>1 DEF ProbesAreRecent, WasSo
    <2>1. CASE s = r
      <3>1. requests'[s] = q
        BY <1>2, <2>1 DEF HealthIInv
      <3> QED BY <1>2, <1>4, <3>1, HealthAssumption
    <2>2. CASE s # r
      <3>1. requests'[s] = requests[s]
        BY <1>2, <2>2 DEF HealthIInv
      <3> QED BY <3>1 DEF HealthIInv, ProbesAreRecent
    <2> QED BY <2>1, <2>2
  <1>6. NowIsNoTick' /\ ReportsAreRecent'
    BY <1>1 DEF HealthIInv, NowIsNoTick, ReportsAreRecent, WasSo
  <1> QED BY <1>1, <1>3, <1>5, <1>6 DEF HealthIInv

(* A probe finds what is so now. *)
LEMMA ProbeKeeps ==
  ASSUME HealthIInv, NEW r \in Request, Probe(r)
  PROVE  HealthIInv'
  <1>1. UNCHANGED <<reachable, sinceUp, sinceDown, reports>> /\ requests[r].pc = "probing"
    BY DEF Probe
  <1>2. PICK c \in requests[r].pending :
          requests' = [requests EXCEPT ![r].pending = @ \ {c},
                         ![r].failed = IF c \in reachable THEN @ ELSE @ \union {c}]
    BY DEF Probe
  <1> DEFINE q == requests[r]
  <1>3. q \in HealthState /\ c \in Component
    BY <1>2 DEF HealthIInv, HealthState
  <1>4. /\ requests'[r] = [q EXCEPT !.pending = @ \ {c},
                             !.failed = IF c \in reachable THEN @ ELSE @ \union {c}]
        /\ \A s \in Request \ {r} : requests'[s] = requests[s]
        /\ DOMAIN requests' = Request /\ requests' = [s \in Request |-> requests'[s]]
    BY <1>2 DEF HealthIInv
  <1>d. WasSo(q.failed, Component \ q.pending, q.age) /\ q.pending \intersect q.failed = {}
    BY <1>1 DEF HealthIInv, ProbesAreRecent
  <1>5. /\ requests'[r].pc = q.pc /\ requests'[r].answer = q.answer
        /\ requests'[r].age = q.age /\ requests'[r].context = q.context
        /\ requests'[r].pending = q.pending \ {c}
        /\ requests'[r].failed = IF c \in reachable THEN q.failed ELSE q.failed \union {c}
        /\ requests'[r] \in HealthState
    <2> DEFINE f == IF c \in reachable THEN q.failed ELSE q.failed \union {c}
               s == q.pending \ {c}
    <2>1. f \in SUBSET Component /\ s \in SUBSET Component
      BY <1>3 DEF HealthState
    <2>2. requests'[r] = [q EXCEPT !.pending = s, !.failed = f]
      BY <1>4
    <2> HIDE DEF f, s
    <2>3. /\ requests'[r].pc = q.pc /\ requests'[r].answer = q.answer
          /\ requests'[r].age = q.age /\ requests'[r].context = q.context
          /\ requests'[r].pending = s /\ requests'[r].failed = f
          /\ requests'[r] \in HealthState
      BY <1>3, <2>1, <2>2 DEF HealthState
    <2> QED BY <2>3 DEF f, s
  <1>6. requests' \in [Request -> HealthState]
    BY <1>4, <1>5 DEF HealthIInv
  <1>7. WasSo(q.failed, Component \ q.pending, q.age) /\ q.age \in Nat
    BY <1>3, <1>d DEF HealthState
  <1>8. WasSo(requests'[r].failed, Component \ requests'[r].pending, q.age)
    <2> SUFFICES ASSUME NEW d \in Component \ requests'[r].pending
                 PROVE  IF d \in requests'[r].failed THEN sinceDown[d] <= q.age
                                                     ELSE sinceUp[d] <= q.age
      BY DEF WasSo
    <2>1. CASE d = c
      <3>1. IF c \in reachable THEN sinceUp[c] = 0 ELSE sinceDown[c] = 0
        BY <1>3 DEF HealthIInv, NowIsNoTick
      <3>2. c \in requests'[r].failed <=> c \notin reachable
        <4>1. c \in q.pending /\ c \notin q.failed
          BY <1>2, <1>d
        <4> HIDE DEF q
        <4> QED BY <4>1, <1>5
      <3> QED BY <1>7, <2>1, <3>1, <3>2
    <2>2. CASE d # c
      BY <1>5, <1>7, <2>2 DEF WasSo
    <2> QED BY <2>1, <2>2
  <1>9. ProbesAreRecent'
    <2> SUFFICES ASSUME NEW s \in Request, requests'[s].pc = "probing"
                 PROVE  /\ requests'[s].answer = "none" /\ requests'[s].age <= ProbeTimeout
                        /\ requests'[s].context \in Context
                        /\ requests'[s].pending \intersect requests'[s].failed = {}
                        /\ WasSo(requests'[s].failed, Component \ requests'[s].pending,
                                 requests'[s].age)
      BY <1>1 DEF ProbesAreRecent, WasSo
    <2>1. CASE s = r
      <3>1. requests'[r].pending \intersect requests'[r].failed = {}
        BY <1>5, <1>d
      <3> QED BY <1>1, <1>5, <1>8, <2>1, <3>1 DEF HealthIInv, ProbesAreRecent
    <2>2. CASE s # r
      BY <1>4, <2>2 DEF HealthIInv, ProbesAreRecent
    <2> QED BY <2>1, <2>2
  <1>10. NowIsNoTick' /\ ReportsAreRecent'
    BY <1>1 DEF HealthIInv, NowIsNoTick, ReportsAreRecent, WasSo
  <1> QED BY <1>1, <1>6, <1>9, <1>10 DEF HealthIInv

(* A report is as old as the preflight it comes from. *)
LEMMA ReportKeeps ==
  ASSUME HealthIInv, NEW r \in Request, Report(r)
  PROVE  HealthIInv'
  <1> DEFINE q == requests[r]
             x == q.context
             fresh == [failed |-> q.failed, kept |-> 0]
  <1>1. /\ UNCHANGED <<reachable, sinceUp, sinceDown>>
        /\ q.pc = "probing" /\ q.pending = {} /\ q \in HealthState /\ x \in Context
        /\ reports' = [reports EXCEPT ![x] = fresh]
        /\ requests' = [requests EXCEPT ![r] = Answered(x, Verdict(x, q.failed))]
    BY DEF Report, HealthIInv, ProbesAreRecent
  <1>2. WasSo(q.failed, Component, q.age) /\ q.age <= ProbeTimeout /\ q.age \in Nat
    <2>1. Component \ q.pending = Component /\ q.age \in Nat
      BY <1>1 DEF HealthState
    <2> QED BY <1>1, <2>1 DEF HealthIInv, ProbesAreRecent
  <1>3. WasSo(q.failed, Component, ProbeTimeout)
    BY <1>2, HealthAssumption DEF WasSo, HealthIInv
  <1>4. reports' \in [Context -> [failed : SUBSET Component, kept : Nat]]
    BY <1>1 DEF HealthIInv, HealthState
  <1>5. /\ requests' \in [Request -> HealthState]
        /\ \A s \in Request : requests'[s].pc = "probing" => s # r /\ requests'[s] = requests[s]
    <2>2. Answered(x, Verdict(x, q.failed)) \in HealthState
          /\ Answered(x, Verdict(x, q.failed)).pc = "idle"
      BY <1>1, VerdictIsOne, AnsweredIs
    <2> QED BY <1>1, <2>2 DEF HealthIInv
  <1>6. ReportsAreRecent'
    <2> SUFFICES ASSUME NEW y \in Context, reports'[y].kept <= TTL
                 PROVE  WasSo(reports'[y].failed, Component, reports'[y].kept + ProbeTimeout)
      BY <1>1 DEF ReportsAreRecent, WasSo
    <2>1. CASE y = x
      <3>1. reports'[y] = fresh /\ 0 + ProbeTimeout = ProbeTimeout
        BY <1>1, <2>1, HealthAssumption DEF HealthIInv
      <3> QED BY <1>3, <3>1
    <2>2. CASE y # x
      <3>1. reports'[y] = reports[y]
        BY <1>1, <2>2 DEF HealthIInv
      <3> QED BY <3>1 DEF HealthIInv, ReportsAreRecent
    <2> QED BY <2>1, <2>2
  <1>7. NowIsNoTick' /\ ProbesAreRecent'
    BY <1>1, <1>5 DEF HealthIInv, NowIsNoTick, ProbesAreRecent, WasSo
  <1> QED BY <1>1, <1>4, <1>5, <1>6, <1>7 DEF HealthIInv

(* A component goes down, or comes back. *)
LEMMA FlipKeeps ==
  ASSUME HealthIInv, NEW c \in Flaky, GoesDown(c) \/ ComesBack(c)
  PROVE  HealthIInv'
  <1>1. UNCHANGED <<reports, requests>> /\ c \in Component
    BY HealthAssumption DEF GoesDown, ComesBack
  <1>2. /\ sinceUp' \in [Component -> Nat] /\ sinceDown' \in [Component -> Nat]
        /\ \A d \in Component : /\ sinceUp'[d] \in {0, sinceUp[d]}
                                /\ sinceDown'[d] \in {0, sinceDown[d]}
    BY <1>1 DEF GoesDown, ComesBack, HealthIInv
  <1>3. /\ reachable' \subseteq Component /\ Component \ Flaky \subseteq reachable'
        /\ NowIsNoTick'
    BY <1>1 DEF GoesDown, ComesBack, HealthIInv, NowIsNoTick
  <1>4. ASSUME NEW failed, NEW components \in SUBSET Component, NEW ticks \in Nat,
               WasSo(failed, components, ticks)
        PROVE  WasSo(failed, components, ticks)'
    BY <1>2, <1>4 DEF WasSo, HealthIInv
  <1>5. ProbesAreRecent'
    <2> SUFFICES ASSUME NEW r \in Request, requests[r].pc = "probing"
                 PROVE  WasSo(requests[r].failed, Component \ requests[r].pending,
                              requests[r].age)'
      BY <1>1 DEF HealthIInv, ProbesAreRecent
    <2>1. requests[r].age \in Nat
      BY DEF HealthIInv, HealthState
    <2>2. WasSo(requests[r].failed, Component \ requests[r].pending, requests[r].age)
      BY DEF HealthIInv, ProbesAreRecent
    <2> QED BY <1>1, <1>2, <2>1, <2>2 DEF WasSo, HealthIInv
  <1>6. ReportsAreRecent'
    <2> SUFFICES ASSUME NEW x \in Context, reports[x].kept <= TTL
                 PROVE  WasSo(reports[x].failed, Component, reports[x].kept + ProbeTimeout)'
      BY <1>1 DEF ReportsAreRecent
    <2>1. reports[x].kept + ProbeTimeout \in Nat
      BY HealthAssumption DEF HealthIInv
    <2>2. WasSo(reports[x].failed, Component, reports[x].kept + ProbeTimeout)
      BY DEF HealthIInv, ReportsAreRecent
    <2> QED BY <1>1, <1>2, <2>1, <2>2 DEF WasSo, HealthIInv
  <1> QED BY <1>1, <1>2, <1>3, <1>5, <1>6 DEF HealthIInv

(* Time passes for everybody alike. *)
LEMMA TickKeeps ==
  ASSUME HealthIInv, Tick
  PROVE  HealthIInv'
  <1>1. /\ sinceUp' \in [Component -> Nat] /\ sinceDown' \in [Component -> Nat]
        /\ \A c \in Component : /\ sinceUp'[c] <= sinceUp[c] + 1
                                /\ sinceDown'[c] <= sinceDown[c] + 1
                                /\ IF c \in reachable THEN sinceUp'[c] = 0 ELSE sinceDown'[c] = 0
        /\ reachable' = reachable
    BY AgeGrows DEF Tick, HealthIInv
  <1>2. ASSUME NEW failed, NEW components \in SUBSET Component, NEW n \in Nat,
               WasSo(failed, components, n), NEW c \in components
        PROVE  IF c \in failed THEN sinceDown'[c] <= n + 1 ELSE sinceUp'[c] <= n + 1
    BY <1>1, <1>2 DEF WasSo, HealthIInv
  <1>3. requests' \in [Request -> HealthState] /\ ProbesAreRecent'
    <2>1. ASSUME NEW r \in Request
          PROVE  /\ requests'[r] \in HealthState
                 /\ requests'[r].pc = "probing" =>
                      /\ requests'[r].answer = "none" /\ requests'[r].age <= ProbeTimeout
                      /\ requests'[r].context \in Context
                      /\ requests[r].pending \intersect requests[r].failed = {}
                      /\ WasSo(requests[r].failed, Component \ requests[r].pending,
                               requests[r].age)
                      /\ requests'[r].age = requests[r].age + 1
                      /\ requests'[r].failed = requests[r].failed
                      /\ requests'[r].pending = requests[r].pending
      <3>1. requests[r] \in HealthState /\ requests[r].age \in Nat
        BY DEF HealthIInv, HealthState
      <3>2. requests'[r] = IF requests[r].pc = "probing"
                           THEN [requests[r] EXCEPT !.age = @ + 1] ELSE requests[r]
        BY DEF Tick
      <3>3. requests[r].pc = "probing" => requests[r].age < ProbeTimeout
        BY DEF Tick
      <3>4. CASE requests[r].pc # "probing"
        BY <3>1, <3>2, <3>4
      <3>5. CASE requests[r].pc = "probing"
        <4>1. /\ requests'[r].answer = requests[r].answer
              /\ requests'[r].context = requests[r].context
              /\ requests'[r].age = requests[r].age + 1
              /\ requests'[r].failed = requests[r].failed
              /\ requests'[r].pending = requests[r].pending
              /\ requests'[r] \in HealthState
          BY <3>1, <3>2, <3>5 DEF HealthState
        <4>2. requests'[r].age <= ProbeTimeout
          BY <3>1, <3>3, <3>5, <4>1, HealthAssumption
        <4> QED BY <3>5, <4>1, <4>2 DEF HealthIInv, ProbesAreRecent
      <3> QED BY <3>4, <3>5
    <2>2. requests' \in [Request -> HealthState]
      BY <2>1 DEF Tick
    <2>3. ASSUME NEW r \in Request, requests'[r].pc = "probing",
                 NEW c \in Component \ requests'[r].pending
          PROVE  IF c \in requests'[r].failed THEN sinceDown'[c] <= requests'[r].age
                                              ELSE sinceUp'[c] <= requests'[r].age
      <3>1. requests[r].age \in Nat /\ Component \ requests[r].pending \in SUBSET Component
        BY DEF HealthIInv, HealthState
      <3>2. /\ WasSo(requests[r].failed, Component \ requests[r].pending, requests[r].age)
            /\ requests'[r].age = requests[r].age + 1
            /\ requests'[r].failed = requests[r].failed
            /\ c \in Component \ requests[r].pending
        BY <2>1, <2>3
      <3> QED BY <1>2, <3>1, <3>2
    <2> QED BY <2>1, <2>2, <2>3 DEF ProbesAreRecent, WasSo
  <1>4. reports' \in [Context -> [failed : SUBSET Component, kept : Nat]] /\ ReportsAreRecent'
    <2>1. ASSUME NEW x \in Context
          PROVE  /\ reports'[x] \in [failed : SUBSET Component, kept : Nat]
                 /\ reports'[x].kept <= TTL =>
                      /\ reports[x].kept <= TTL /\ reports'[x].kept = reports[x].kept + 1
                      /\ reports'[x].failed = reports[x].failed
      <3>1. Old \in Nat /\ ~(Old <= TTL)
        BY HealthAssumption DEF Old
      <3>2. reports'[x] = IF reports[x].kept >= TTL THEN Empty
                          ELSE [reports[x] EXCEPT !.kept = @ + 1]
        BY DEF Tick
      <3>3. reports[x] \in [failed : SUBSET Component, kept : Nat]
        BY DEF HealthIInv
      <3> QED BY <3>1, <3>2, <3>3, HealthAssumption DEF Empty
    <2>2. reports' \in [Context -> [failed : SUBSET Component, kept : Nat]]
      BY <2>1 DEF Tick
    <2>3. ASSUME NEW x \in Context, reports'[x].kept <= TTL, NEW c \in Component
          PROVE  IF c \in reports'[x].failed
                 THEN sinceDown'[c] <= reports'[x].kept + ProbeTimeout
                 ELSE sinceUp'[c] <= reports'[x].kept + ProbeTimeout
      <3>1. reports[x].kept + ProbeTimeout \in Nat /\ reports[x].kept \in Nat
        BY HealthAssumption DEF HealthIInv
      <3>2. WasSo(reports[x].failed, Component, reports[x].kept + ProbeTimeout)
        BY <2>1, <2>3 DEF HealthIInv, ReportsAreRecent
      <3>3. IF c \in reports[x].failed
            THEN sinceDown'[c] <= (reports[x].kept + ProbeTimeout) + 1
            ELSE sinceUp'[c] <= (reports[x].kept + ProbeTimeout) + 1
        BY <1>2, <3>1, <3>2
      <3> QED BY <2>1, <2>3, <3>1, <3>3, HealthAssumption
    <2> QED BY <2>2, <2>3 DEF ReportsAreRecent, WasSo
  <1>5. NowIsNoTick'
    BY <1>1 DEF NowIsNoTick
  <1> QED BY <1>1, <1>3, <1>4, <1>5 DEF HealthIInv

(* Each step keeps it. *)
LEMMA HealthIsKept == HealthIInv /\ [HealthNext]_healthVars => HealthIInv'
  <1>1. CASE UNCHANGED healthVars
    BY <1>1 DEF healthVars, HealthIInv, NowIsNoTick, ProbesAreRecent, ReportsAreRecent, WasSo
  <1> QED
    BY <1>1, ArriveKeeps, ProbeKeeps, ReportKeeps, FlipKeeps, TickKeeps DEF HealthNext

(* The inductive invariant of the preflights: for any requests, contexts, components that flip
   and times to live. *)
THEOREM HealthInvariance == HealthSpec => []HealthIInv
  <1>1. HealthInit => HealthIInv
    BY HealthInitIInv
  <1>2. HealthIInv /\ [HealthNext]_healthVars => HealthIInv'
    BY HealthIsKept
  <1> QED BY <1>1, <1>2, PTL DEF HealthSpec

(* The two verdicts on what was so. *)
LEMMA VerdictFits ==
  ASSUME HealthIInv, NEW x \in Context, NEW failed \in SUBSET Component, NEW ticks \in Nat,
         WasSo(failed, Component, ticks), ticks <= Staleness(x)
  PROVE  LET given == Verdict(x, failed)
         IN  /\ given \in {"healthy", "degraded"} \/ (Strict /\ given = "admitted")
                  => \A c \in Critical(x) : sinceUp[c] <= Staleness(x)
             /\ given \in {"refused", "unhealthy"}
                  => \E c \in Critical(x) : sinceDown[c] <= Staleness(x)
  <1>1. Critical(x) \subseteq Component /\ Staleness(x) \in Nat
    BY CriticalAreComponents, HealthAssumption DEF Staleness
  <1>2. \A c \in Critical(x) : IF c \in failed THEN sinceDown[c] <= Staleness(x)
                                               ELSE sinceUp[c] <= Staleness(x)
    BY <1>1 DEF WasSo, HealthIInv
  <1> QED BY <1>2 DEF Verdict

(* Whoever is answered is answered from the cache, or from probes of its own. *)
LEMMA AnswersAreRecent ==
  ASSUME HealthIInv, [HealthNext]_healthVars, NEW r \in Request, RequestAnswered(r)
  PROVE  \E x \in Context, failed \in SUBSET Component, ticks \in Nat :
            /\ WasSo(failed, Component, ticks) /\ ticks <= Staleness(x)
            /\ requests'[r].answer = Verdict(x, failed) /\ requests'[r].context = x
  <1>1. requests \in [Request -> HealthState]
    BY DEF HealthIInv
  <1>2. ASSUME NEW s \in Request, NEW x \in Context, Arrive(s, x)
        PROVE  \E y \in Context, failed \in SUBSET Component, ticks \in Nat :
                  /\ WasSo(failed, Component, ticks) /\ ticks <= Staleness(y)
                  /\ requests'[r].answer = Verdict(y, failed) /\ requests'[r].context = y
    <2>1. s = r /\ ~Forced(x) /\ reports[x].kept <= TTL
          /\ requests'[r] = Answered(x, Verdict(x, reports[x].failed))
      <3>1. s = r
        BY <1>1, <1>2 DEF Arrive, RequestAnswered
      <3>2. requests'[r] = IF ~Forced(x) /\ reports[x].kept <= TTL
                           THEN Answered(x, Verdict(x, reports[x].failed))
                           ELSE [Answered(x, "none") EXCEPT !.pc = "probing", !.pending = Flaky]
        BY <1>1, <1>2, <3>1 DEF Arrive
      <3>3. [Answered(x, "none") EXCEPT !.pc = "probing", !.pending = Flaky].answer = "none"
        BY DEF Answered
      <3> QED BY <3>1, <3>2, <3>3 DEF RequestAnswered
    <2>2. /\ requests'[r].answer = Verdict(x, reports[x].failed) /\ requests'[r].context = x
      BY <2>1 DEF Answered
    <2>3. reports[x].failed \in SUBSET Component /\ reports[x].kept \in Nat
      BY DEF HealthIInv
    <2>4. /\ WasSo(reports[x].failed, Component, reports[x].kept + ProbeTimeout)
          /\ reports[x].kept + ProbeTimeout \in Nat
          /\ reports[x].kept + ProbeTimeout <= Staleness(x)
      BY <2>1, <2>3, HealthAssumption DEF HealthIInv, ReportsAreRecent, Staleness
    <2> QED BY <2>2, <2>3, <2>4
  <1>3. ASSUME NEW s \in Request, Report(s)
        PROVE  \E y \in Context, failed \in SUBSET Component, ticks \in Nat :
                  /\ WasSo(failed, Component, ticks) /\ ticks <= Staleness(y)
                  /\ requests'[r].answer = Verdict(y, failed) /\ requests'[r].context = y
    <2> DEFINE q == requests[r]
    <2>1. s = r
      BY <1>1, <1>3 DEF Report, RequestAnswered
    <2>2. /\ q.pc = "probing" /\ q.pending = {} /\ q \in HealthState
          /\ requests'[r] = Answered(q.context, Verdict(q.context, q.failed))
      BY <1>1, <1>3, <2>1 DEF Report
    <2>3. /\ requests'[r].answer = Verdict(q.context, q.failed)
          /\ requests'[r].context = q.context
      BY <2>2 DEF Answered
    <2>4. /\ q.context \in Context /\ q.failed \in SUBSET Component /\ q.age \in Nat
          /\ WasSo(q.failed, Component, q.age) /\ q.age <= ProbeTimeout
      <3>1. Component \ q.pending = Component /\ q.failed \in SUBSET Component /\ q.age \in Nat
        BY <2>2 DEF HealthState
      <3> QED BY <2>2, <3>1 DEF HealthIInv, ProbesAreRecent
    <2>5. q.age <= Staleness(q.context)
      BY <2>4, HealthAssumption DEF Staleness
    <2> QED BY <2>3, <2>4, <2>5
  <1>4. ASSUME NEW s \in Request, Probe(s)
        PROVE  FALSE
    <2>1. requests[s].answer = "none"
      BY <1>4 DEF Probe, HealthIInv, ProbesAreRecent
    <2>2. s = r /\ requests'[r].answer = requests[r].answer
      BY <1>1, <1>4 DEF Probe, RequestAnswered, HealthState
    <2> QED BY <2>1, <2>2 DEF RequestAnswered
  <1>5. ASSUME Tick
        PROVE  FALSE
    <2>1. requests'[r] = IF requests[r].pc = "probing"
                         THEN [requests[r] EXCEPT !.age = @ + 1] ELSE requests[r]
      BY <1>5 DEF Tick
    <2>2. requests[r].pc = "probing" /\ requests[r].answer = "none"
      BY <2>1 DEF RequestAnswered, HealthIInv, ProbesAreRecent
    <2>3. requests'[r].answer = "none"
      BY <1>1, <2>1, <2>2 DEF HealthState
    <2> QED BY <2>3 DEF RequestAnswered
  <1>6. ~UNCHANGED requests
    BY DEF RequestAnswered
  <1> QED
    BY <1>2, <1>3, <1>4, <1>5, <1>6 DEF HealthNext, healthVars, GoesDown, ComesBack

HealthIsTold ==
  \A r \in Request :
    RequestAnswered(r) =>
      LET x == requests'[r].context
      IN  /\ \/ requests'[r].answer \in {"healthy", "degraded"}
             \/ (Strict /\ requests'[r].answer = "admitted")
             => \A c \in Critical(x) : sinceUp[c] <= Staleness(x)
          /\ requests'[r].answer \in {"refused", "unhealthy"}
             => \E c \in Critical(x) : sinceDown[c] <= Staleness(x)

(* What every step keeps to, from the two lemmas above. *)
LEMMA StepTellsHealth == HealthIInv /\ [HealthNext]_healthVars => HealthIsTold
  <1> SUFFICES ASSUME HealthIInv, [HealthNext]_healthVars, NEW r \in Request, RequestAnswered(r)
               PROVE  LET x == requests'[r].context
                      IN  /\ \/ requests'[r].answer \in {"healthy", "degraded"}
                             \/ (Strict /\ requests'[r].answer = "admitted")
                             => \A c \in Critical(x) : sinceUp[c] <= Staleness(x)
                          /\ requests'[r].answer \in {"refused", "unhealthy"}
                             => \E c \in Critical(x) : sinceDown[c] <= Staleness(x)
    BY DEF HealthIsTold
  <1>1. PICK x \in Context, failed \in SUBSET Component, ticks \in Nat :
            /\ WasSo(failed, Component, ticks) /\ ticks <= Staleness(x)
            /\ requests'[r].answer = Verdict(x, failed) /\ requests'[r].context = x
    BY AnswersAreRecent
  <1> QED BY <1>1, VerdictFits

(* ensure_storage_ready and /health: a request is admitted only if what is critical to it was
   up, and refused only if something critical was down, within the time to live of a report
   and the longest preflight, whatever reports overtake each other in the cache. *)
THEOREM OutagesAreSeenInTime == HealthSpec => AdmittedSoonAfterUp /\ RefusedSoonAfterDown
  <1>1. HealthIsTold => \A r \in Request :
          RequestAnswered(r) /\ (requests'[r].answer \in {"healthy", "degraded"}
                                 \/ (Strict /\ requests'[r].answer = "admitted"))
          => \A c \in Critical(requests'[r].context) :
                sinceUp[c] <= Staleness(requests'[r].context)
    BY DEF HealthIsTold
  <1>2. HealthIsTold => \A r \in Request :
          RequestAnswered(r) /\ requests'[r].answer \in {"refused", "unhealthy"}
          => \E c \in Critical(requests'[r].context) :
                sinceDown[c] <= Staleness(requests'[r].context)
    BY DEF HealthIsTold
  <1> QED
    BY <1>1, <1>2, StepTellsHealth, HealthInvariance, PTL
    DEF HealthSpec, AdmittedSoonAfterUp, RefusedSoonAfterDown

-------------------------------------------------------------------------------
(* Of the parts of the service one moves, and the others keep their first state: a step is
   a step of each part, or leaves it as it is. *)
LEMMA PartsMove ==
  ASSUME [MCNext]_mcVars
  PROVE  /\ [QueryNext]_queryVars /\ [HealthNext]_healthVars /\ [LiteralNext]_literalVars
         /\ [LlmNext]_llmVars /\ [SchemaNext]_schemaVars /\ [UpsertNext]_upsertVars
         /\ [WatchersNext]_watchersVars
  BY DEF MCNext, QueryMoves, HealthMoves, LiteralMoves, LlmMoves, SchemaMoves, UpsertMoves,
         WatchersMove, mcVars

LEMMA PartsStart ==
  ASSUME MCInit
  PROVE  /\ QueryInit /\ HealthInit /\ LlmInit /\ SchemaInit /\ UpsertInit /\ WatchersInit
         /\ LiteralInit \/ LiteralStart(NoQuestion, <<>>)
  BY DEF MCInit

(* On every way a question goes the answer is sound: an absence is true or explained by an
   outage of the graph or a spent budget, an answer was vouched for, a literal is the one
   asked for and whole, and a model that works is reached: for any question, names, texts,
   models and outages. *)
THEOREM AnswersHold == MCSpec => []AnswersAreSound
  <1> DEFINE I == QueryIInv /\ LiteralIInv /\ SourceIsText /\ LlmIInv
  <1>1. MCInit => I
    BY PartsStart, QueryInitIInv, LiteralInitIInv, SourceStays, LlmInitIInv
  <1>2. I /\ [MCNext]_mcVars => I'
    BY PartsMove, QueryIsKept, LiteralIsKept, SourceStays, LlmIsKept
  <1>3. I => AnswersAreSound
    BY BlockEnds DEF AnswersAreSound, QueryIInv, LiteralIInv, LlmIInv, SourceIsText
  <1> QED BY <1>1, <1>2, <1>3, PTL DEF MCSpec

-------------------------------------------------------------------------------
(* What the stages of a question keep is of the stores and the files of the question. *)
QueryValues ==
    /\ up \subseteq Store /\ missed \subseteq Store
    /\ found \subseteq Dependent /\ evidence \subseteq {"vector", "lexical"}
    /\ graphContext \in {"none", "failed", "empty", "expanded", "structural"}
    /\ modules \in {"none", "listed", "unlisted"}

(* Nothing was found yet. *)
LEMMA QueryValuesStart == QueryInit => QueryValues
  BY DEF QueryInit, QueryValues

(* The stages add what they found, and the store that failed them. *)
LEMMA QueryValuesKept == QueryIInv /\ QueryValues /\ [QueryNext]_queryVars => QueryValues'
  <1> SUFFICES ASSUME QueryIInv, QueryValues, [QueryNext]_queryVars
               PROVE  QueryValues'
    OBVIOUS
  <1>1. ask.dependents \subseteq Dependent
    BY DEF QueryIInv, Ask
  <1>2. {"graph", "vector", "lexical", "embedding", "llm"} \subseteq Store
    BY QueryAssumption
  <1>3. ASSUME NEW s \in Store, Calls(s)
        PROVE  missed' \subseteq Store
    BY <1>3 DEF Calls, QueryValues
  <1>4. CASE UNCHANGED queryVars
    BY <1>4 DEF queryVars, QueryValues
  <1>5. CASE Flip \/ Pass \/ Route \/ Rerank \/ Assemble \/ ResolveAnswer
    BY <1>5 DEF Flip, Pass, Route, Rerank, Assemble, ResolveAnswer, world, QueryValues
  <1>6. CASE \/ ResolveTargets \/ LookUp \/ FindComponent
              \/ ResolveScope \/ ListInventory \/ PageAnswer
    <2>1. missed' \subseteq Store
      BY <1>2, <1>3, <1>6 DEF ResolveTargets, LookUp, FindComponent, ResolveScope,
         ListInventory, PageAnswer, QueryValues
    <2> QED BY <1>1, <1>6, <2>1 DEF ResolveTargets, LookUp, FindComponent, ResolveScope,
               ListInventory, PageAnswer, world, QueryValues
  <1>7. ASSUME NEW from, NEW to, Open(from, to) \/ SearchVector(from, to)
        PROVE  QueryValues'
    <2>1. missed' \subseteq Store
      BY <1>2, <1>3, <1>7 DEF Open, SearchVector, QueryValues
    <2> QED BY <1>7, <2>1 DEF Open, SearchVector, world, QueryValues
  <1>8. CASE Embed \/ Heal \/ Lexical \/ Seeds
    <2>1. missed' \subseteq Store
      BY <1>2, <1>3, <1>8 DEF Embed, Heal, Lexical, Seeds, QueryValues
    <2> QED BY <1>8, <2>1 DEF Embed, Heal, Lexical, Seeds, world, QueryValues
  <1>9. CASE Expand \/ ExpandStructural \/ Discover
    <2>1. missed' \subseteq Store
      BY <1>2, <1>3, <1>9 DEF Expand, ExpandStructural, Discover, QueryValues
    <2> QED BY <1>9, <2>1 DEF Expand, ExpandStructural, Discover, world, QueryValues
  <1>10. CASE Generate \/ Verify
    <2>1. missed' \subseteq Store
      BY <1>2, <1>3, <1>10 DEF Generate, Verify, QueryValues
    <2> QED BY <1>10, <2>1 DEF Generate, Verify, world, QueryValues
  <1> QED
    BY <1>4, <1>5, <1>6, <1>7, <1>8, <1>9, <1>10 DEF QueryNext, Step

(* Ages end at Old, and those of a preflight at its timeouts. *)
AgesFit ==
    /\ \A c \in Component : sinceUp[c] <= Old /\ sinceDown[c] <= Old
    /\ \A x \in Context : reports[x].kept <= Old
    /\ \A r \in Request : requests[r].age <= ProbeTimeout

(* Nothing is old yet, or it is as old as can be told. *)
LEMMA AgesStart == HealthInit => AgesFit
  BY HealthAssumption DEF HealthInit, AgesFit, Old, Empty, Answered

(* Ages end at Old. *)
LEMMA AgeEnds ==
  ASSUME NEW n \in Nat
  PROVE  Age(n) <= Old
  <1>1. Old \in Nat
    BY HealthAssumption DEF Old
  <1>2. \E m \in {n + 1, Old} : \A k \in {n + 1, Old} : m <= k
    BY <1>1
  <1>3. Age(n) \in {n + 1, Old} /\ \A k \in {n + 1, Old} : Age(n) <= k
    BY <1>2 DEF Age, Min
  <1> QED BY <1>1, <1>3

(* Requests begin at age 0, and time passes while none is at its timeouts. *)
LEMMA AgesKept == HealthIInv /\ AgesFit /\ [HealthNext]_healthVars => AgesFit'
  <1> SUFFICES ASSUME HealthIInv, AgesFit, [HealthNext]_healthVars
               PROVE  AgesFit'
    OBVIOUS
  <1>1. Old \in Nat /\ TTL \in Nat /\ ProbeTimeout \in Nat /\ TTL < Old
    BY HealthAssumption DEF Old
  <1>2. CASE UNCHANGED healthVars
    BY <1>2 DEF healthVars, AgesFit
  <1>3. ASSUME NEW r \in Request, NEW x \in Context, Arrive(r, x)
        PROVE  AgesFit'
    <2>1. PICK q : requests' = [requests EXCEPT ![r] = q] /\ q.age = 0
      <3> DEFINE a == Answered(x, Verdict(x, reports[x].failed))
                 b == [Answered(x, "none") EXCEPT !.pc = "probing", !.pending = Flaky]
      <3>1. a.age = 0 /\ b.age = 0
        BY DEF Answered
      <3>2. requests' = [requests EXCEPT ![r] = a] \/ requests' = [requests EXCEPT ![r] = b]
        BY <1>3 DEF Arrive
      <3> HIDE DEF a, b
      <3> QED BY <3>1, <3>2
    <2>2. \A s \in Request : requests'[s].age \in {0, requests[s].age}
      BY <2>1 DEF HealthIInv
    <2> QED BY <1>1, <1>3, <2>2 DEF Arrive, AgesFit
  <1>4. ASSUME NEW r \in Request, Probe(r)
        PROVE  AgesFit'
    <2>1. PICK c \in requests[r].pending :
            requests' = [requests EXCEPT ![r].pending = @ \ {c},
                           ![r].failed = IF c \in reachable THEN @ ELSE @ \union {c}]
      BY <1>4 DEF Probe
    <2>2. \A s \in Request : requests'[s].age = requests[s].age
      <3> DEFINE f == IF c \in reachable THEN requests[r].failed ELSE requests[r].failed \union {c}
                 p == requests[r].pending \ {c}
      <3>1. requests'[r] = [requests[r] EXCEPT !.pending = p, !.failed = f]
        BY <2>1 DEF HealthIInv
      <3>2. \A s \in Request \ {r} : requests'[s] = requests[s]
        BY <2>1 DEF HealthIInv
      <3>3. requests[r] \in HealthState
        BY DEF HealthIInv
      <3> HIDE DEF f, p
      <3>4. requests'[r].age = requests[r].age
        BY <3>1, <3>3 DEF HealthState
      <3> QED BY <3>2, <3>4
    <2> QED BY <1>4, <2>2 DEF Probe, AgesFit
  <1>5. ASSUME NEW r \in Request, Report(r)
        PROVE  AgesFit'
    <2>1. PICK x, failed, v : /\ reports' = [reports EXCEPT ![x] = [failed |-> failed, kept |-> 0]]
                              /\ requests' = [requests EXCEPT ![r] = Answered(x, v)]
      BY <1>5 DEF Report
    <2>2. Answered(x, v).age = 0
      BY DEF Answered
    <2>3. /\ \A s \in Request : requests'[s].age \in {0, requests[s].age}
          /\ \A y \in Context : reports'[y].kept \in {0, reports[y].kept}
      BY <2>1, <2>2 DEF HealthIInv
    <2> QED BY <1>1, <1>5, <2>3 DEF Report, AgesFit
  <1>6. ASSUME NEW c \in Flaky, GoesDown(c) \/ ComesBack(c)
        PROVE  AgesFit'
    <2>1. /\ \A d \in Component : /\ sinceUp'[d] \in {0, sinceUp[d]}
                                  /\ sinceDown'[d] \in {0, sinceDown[d]}
          /\ UNCHANGED <<reports, requests>>
      BY <1>6 DEF GoesDown, ComesBack, HealthIInv
    <2> QED BY <1>1, <2>1 DEF AgesFit
  <1>7. CASE Tick
    <2>1. \A c \in Component : sinceUp'[c] <= Old /\ sinceDown'[c] <= Old
      BY <1>1, <1>7, AgeEnds DEF Tick, HealthIInv
    <2>2. ASSUME NEW x \in Context
          PROVE  reports'[x].kept <= Old
      <3>1. reports'[x] = IF reports[x].kept >= TTL THEN Empty
                          ELSE [reports[x] EXCEPT !.kept = @ + 1]
        BY <1>7 DEF Tick
      <3>2. reports[x] \in [failed : SUBSET Component, kept : Nat]
        BY DEF HealthIInv
      <3> QED BY <1>1, <3>1, <3>2 DEF Empty
    <2>3. ASSUME NEW r \in Request
          PROVE  requests'[r].age <= ProbeTimeout
      <3>1. requests'[r] = IF requests[r].pc = "probing"
                           THEN [requests[r] EXCEPT !.age = @ + 1] ELSE requests[r]
        BY <1>7 DEF Tick
      <3>2. requests[r] \in HealthState /\ requests[r].age <= ProbeTimeout
        BY DEF HealthIInv, AgesFit
      <3>3. CASE requests[r].pc = "probing"
        <4>1. requests'[r].age = requests[r].age + 1 /\ requests[r].age \in Nat
          BY <3>1, <3>2, <3>3 DEF HealthState
        <4>2. requests[r].age < ProbeTimeout
          BY <1>7, <3>3 DEF Tick
        <4> QED BY <1>1, <4>1, <4>2
      <3> QED BY <3>1, <3>2, <3>3
    <2> QED BY <2>1, <2>2, <2>3 DEF AgesFit
  <1> QED BY <1>2, <1>3, <1>4, <1>5, <1>6, <1>7 DEF HealthNext

(* What the preflights keep is of the types of the run. *)
LEMMA HealthIsTyped ==
  ASSUME HealthIInv, AgesFit
  PROVE  HealthTypeOK
  <1>1. Old \in Nat /\ ProbeTimeout \in Nat
    BY HealthAssumption DEF Old
  <1> QED BY <1>1 DEF HealthIInv, AgesFit, HealthTypeOK, HealthState

(* The lookups that fail are bounded, and a reply is of the statuses of the route. *)
LookupsFit ==
    /\ outages \in 0 .. MaxLookupFaults
    /\ reply.status \in {"none", "resolved", "ambiguous_component", "component_not_found",
                         "file_not_found"}

(* No lookup failed yet. *)
LEMMA LookupsStart == LiteralInit \/ LiteralStart(NoQuestion, <<>>) => LookupsFit
  <1>1. ASSUME NEW q, NEW lines, LiteralStart(q, lines)
        PROVE  LookupsFit
    <2>1. outages = 0 /\ reply.status = "none"
      BY <1>1 DEF LiteralStart, Unresolved
    <2>2. MaxLookupFaults \in Nat
      BY LiteralAssumption
    <2> QED BY <2>1, <2>2 DEF LookupsFit
  <1> QED BY <1>1 DEF LiteralInit

(* A failed lookup is counted, and a reply has one of the statuses. *)
LEMMA LookupsKept == LookupsFit /\ [LiteralNext]_literalVars => LookupsFit'
  <1> SUFFICES ASSUME LookupsFit, [LiteralNext]_literalVars
               PROVE  LookupsFit'
    OBVIOUS
  <1>1. CASE UNCHANGED literalVars
    BY <1>1 DEF literalVars, LookupsFit
  <1>2. ASSUME NEW name, LookupRaises(name)
        PROVE  LookupsFit'
    <2>1. outages' = outages + 1 /\ outages < MaxLookupFaults /\ reply' = reply
      BY <1>2 DEF LookupRaises, Miss
    <2>2. MaxLookupFaults \in Nat
      BY LiteralAssumption
    <2> QED BY <2>1, <2>2 DEF LookupsFit
  <1>3. CASE LookupAnswers /\ Miss
    BY <1>3 DEF LookupAnswers, Miss, LookupsFit
  <1>4. ASSUME NEW path, NEW symbol, LookupAnswers, Located(path, symbol)
        PROVE  LookupsFit'
    BY <1>4 DEF LookupAnswers, Located, LookupsFit
  <1>5. ASSUME NEW s \in {"ambiguous_component", "component_not_found", "file_not_found"},
               LookupAnswers, reply' = [Unresolved EXCEPT !.status = s]
        PROVE  LookupsFit'
    BY <1>5 DEF LookupAnswers, Unresolved, LookupsFit
  <1>6. CASE TryFile
    BY <1>2, <1>3, <1>4, <1>6 DEF TryFile
  <1>7. CASE TrySymbol
    BY <1>2, <1>3, <1>4, <1>5, <1>7 DEF TrySymbol
  <1>8. CASE GiveUp
    BY <1>5, <1>8 DEF GiveUp, LookupAnswers
  <1> QED BY <1>1, <1>6, <1>7, <1>8 DEF LiteralNext

(* The time of a call is counted, and its timeouts are among its faults. *)
TimesFit ==
    /\ error \in {"none", "selection", "fault"}
    /\ spent \in Nat /\ allowed \in Nat
    /\ timeouts \in 0 .. MaxLlmFaults /\ llmFaults \in 0 .. MaxLlmFaults
    /\ timeouts <= llmFaults

(* A request is allowed a second, or what is left of the budget. *)
LEMMA TimeoutFits ==
  ASSUME NEW s \in Nat
  PROVE  /\ Timeout(s) \in Nat /\ Left(s) \in Nat
         /\ Left(s) > 0 => s < QueryTime /\ s + Timeout(s) < QueryTime + Second
  BY LlmAssumption DEF Timeout, Larger, Smaller, Left, QueryTime, Second

(* No request was made yet. *)
LEMMA TimesStart == LlmInit => TimesFit
  <1> SUFFICES ASSUME LlmInit
               PROVE  TimesFit
    OBVIOUS
  <1>1. spent \in Nat
    BY LlmAssumption DEF LlmInit, QueryTime, Second
  <1> QED BY <1>1, LlmAssumption DEF LlmInit, TimesFit

(* A timeout is a fault, and takes the time that was allowed. *)
LEMMA TimesKept == TimesFit /\ [LlmNext]_llmVars => TimesFit'
  <1> SUFFICES ASSUME TimesFit, [LlmNext]_llmVars
               PROVE  TimesFit'
    OBVIOUS
  <1>1. CASE UNCHANGED llmVars
    BY <1>1 DEF llmVars, TimesFit
  <1>2. CASE AskLlm \/ Works
    <2>1. /\ UNCHANGED llmFaults /\ error' \in {error, "none"}
          /\ timeouts' \in {timeouts, 0} /\ allowed' \in {allowed, Timeout(spent')}
          /\ spent' \in {spent, spent + allowed}
      BY <1>2 DEF AskLlm, Works, Succeed, StartCall
    <2>2. spent' \in Nat /\ Timeout(spent') \in Nat
      BY <2>1, TimeoutFits DEF TimesFit
    <2> QED BY <2>1, <2>2, LlmAssumption DEF TimesFit
  <1>3. ASSUME Instantly, allowed' = allowed, error' \in {"none", "selection", "fault"}
        PROVE  TimesFit'
    BY <1>3 DEF Instantly, TimesFit
  <1>4. CASE RestRefused \/ SdkRefused
    BY <1>3, <1>4 DEF RestRefused, SdkRefused, Try, TimesFit
  <1>5. CASE ChatRefused \/ GenerateRefused
    BY <1>3, <1>5 DEF ChatRefused, GenerateRefused, Try, TryNext, RaiseError, TimesFit
  <1>6. CASE Fault
    <2>1. /\ llmFaults' = llmFaults + 1 /\ llmFaults < MaxLlmFaults
          /\ spent' \in {spent, spent + allowed} /\ timeouts' \in {timeouts, timeouts + 1}
      BY <1>6 DEF Fault
    <2>2. allowed' = allowed /\ error' = "fault"
      BY <1>6 DEF Fault, Try, RaiseError
    <2> QED BY <2>1, <2>2, LlmAssumption DEF TimesFit
  <1> QED BY <1>1, <1>2, <1>4, <1>5, <1>6 DEF LlmNext, LlmStep

(* No call of the LLM starts when the budget of the question is spent, and one that starts
   leaves a request less than a second beyond it (query_answer_resolution.py:153, 191). *)
THEOREM CallsKeepToTheBudget == LlmSpec => CallsStartInBudget
  <1>1. LlmInit => TimesFit
    BY TimesStart
  <1>2. TimesFit /\ [LlmNext]_llmVars => TimesFit'
    BY TimesKept
  <1>3. ASSUME TimesFit, TimesFit', [LlmNext]_llmVars, Calling', phase' # phase
        PROVE  spent' < QueryTime /\ spent' + allowed' < QueryTime + Second
    <2>1. \E p \in {"answer", "verify"} : StartCall(p)
      <3>1. CASE AskLlm
        BY <3>1 DEF AskLlm
      <3>2. CASE Works
        BY <1>3, <3>2 DEF Works, Succeed, Calling
      <3>3. CASE RestRefused \/ SdkRefused \/ ChatRefused \/ GenerateRefused \/ Fault
        BY <1>3, <3>3 DEF RestRefused, SdkRefused, ChatRefused, GenerateRefused, Fault, Try,
           TryNext, RaiseError, Calling
      <3> QED BY <1>3, <3>1, <3>2, <3>3 DEF LlmNext, LlmStep, llmVars
    <2>2. Left(spent') > 0 /\ allowed' = Timeout(spent')
      BY <1>3, <2>1 DEF StartCall, Calling
    <2> QED BY <1>3, <2>2, TimeoutFits DEF TimesFit
  <1>4. TimesFit /\ TimesFit' /\ [LlmNext]_llmVars
            => [Calling' /\ phase' # phase =>
                  spent' < QueryTime /\ spent' + allowed' < QueryTime + Second]_llmVars
    BY <1>3
  <1> QED BY <1>1, <1>2, <1>4, PTL DEF LlmSpec, CallsStartInBudget

(* The requests of a call are among those there are. *)
LEMMA LlmIsTyped ==
  ASSUME LlmIInv, TimesFit
  PROVE  LlmTypeOK
  BY DEF LlmIInv, TimesFit, LlmTypeOK, RequestsOf

(* The segments of an upsert are of its documents, and so is what is stored. *)
LEMMA UpsertIsTyped ==
  ASSUME UpsertIInv
  PROVE  UpsertTypeOK
  <1>1. Total \in Nat /\ pos \in Nat /\ pos \in 1 .. Total + 1
    BY DEF UpsertIInv, Total
  <1>2. ASSUME NEW i \in DOMAIN todo
        PROVE  todo[i].from \in 1 .. Total /\ todo[i].to \in todo[i].from .. Total
    <2>1. todo[i] \in Segment /\ i \in 1 .. Len(todo)
      BY DEF UpsertIInv
    <2>2. 1 <= todo[i].from /\ todo[i].from <= todo[i].to /\ todo[i].to < pos
      BY <2>1 DEF UpsertIInv, SegmentsFollow
    <2>3. todo[i].from \in Nat /\ todo[i].to \in Nat
      BY <2>1 DEF Segment
    <2> QED BY <1>1, <2>2, <2>3
  <1>3. stored \subseteq 1 .. Total
    BY <1>1 DEF UpsertIInv, SentIsStored
  <1>4. \A k \in DOMAIN metrics : metrics[k] \in Nat
    BY DEF UpsertIInv, Counters
  <1> QED BY <1>1, <1>2, <1>3, <1>4 DEF UpsertIInv, UpsertTypeOK

(* What every part of the service keeps stays of its type, for any question, number of
   processes, documents, models and outages. *)
THEOREM ServiceTypes == MCSpec => []QueryPathTypeOK
  <1> DEFINE I == /\ QueryIInv /\ QueryValues /\ HealthIInv /\ AgesFit /\ LiteralIInv
                  /\ LookupsFit /\ LlmIInv /\ TimesFit /\ SchemaIInv /\ UpsertIInv
                  /\ WatchersIInv
  <1>1. MCInit => I
    BY PartsStart, QueryInitIInv, QueryValuesStart, HealthInitIInv, AgesStart,
       LiteralInitIInv, LookupsStart, LlmInitIInv, TimesStart, SchemaStarts, UpsertInitIInv,
       WatchersInitIInv
  <1>2. I /\ [MCNext]_mcVars => I'
    BY PartsMove, QueryIsKept, QueryValuesKept, HealthIsKept, AgesKept, LiteralIsKept,
       LookupsKept, LlmIsKept, TimesKept, SchemaIsKept, UpsertIsKept, WatchersIsKept
  <1>3. I => QueryPathTypeOK
    <2> SUFFICES ASSUME I
                 PROVE  QueryPathTypeOK
      OBVIOUS
    <2>1. QueryTypeOK
      BY DEF QueryIInv, QueryValues, QueryTypeOK
    <2>2. LiteralTypeOK
      BY DEF LiteralIInv, LookupsFit, LiteralTypeOK
    <2>3. SchemaTypeOK /\ WatchersTypeOK
      BY DEF SchemaIInv, WatchersIInv
    <2> QED BY <2>1, <2>2, <2>3, HealthIsTyped, LlmIsTyped, UpsertIsTyped DEF QueryPathTypeOK
  <1> QED BY <1>1, <1>2, <1>3, PTL DEF MCSpec
=============================================================================
