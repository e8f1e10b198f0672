----------------------------- MODULE CutoverReport -----------------------------
(* scripts/run_postgres_legacy_cutover.py: the report an operator decides on. The
   legacy tables are copied and audited in one transaction, statement by statement,
   while processes of the old version may still write to them and those of the new
   one write and delete beside it; then the revision is validated, the API asked for
   its health, and the report and its checklists are written. The race of the start
   and what is copied over what is in SchemaStartup. *)
EXTENDS Naturals, Sequences, FiniteSets

CONSTANTS
    LegacyTables,          \* in the order in which they are copied
    CutoverRow,
    MaxWrites, MaxReportFaults     \* bounds

ASSUME ReportAssumption ==
    LegacyTables \in Seq(STRING) /\ LegacyTables # <<>> /\ IsFiniteSet(CutoverRow)

Tables == {LegacyTables[i] : i \in DOMAIN LegacyTables}
Confirmations == {"backup", "rollback", "retain"}
ExitConfirmations == {"window", "incidents", "reingest", "flags", "removal"}

VARIABLES
    present,           \* the legacy tables that are there
    oldRows, newRows,  \* what is committed in the tables of the two schemas
    copied,            \* rows the open transaction has written, and holds locked
    audit,             \* the counts of each table
    reportStage, table,     \* the statement, and its table
    health,            \* what /health answered
    written, exitCode,
    audited, gone,     \* history: rows an audit has seen; rows the API has deleted
    writes, reportFaults
runVars == <<copied, audit, reportStage, table, health, written, exitCode, audited>>
reportVars == <<present, oldRows, newRows, gone, writes, reportFaults, runVars>>

ReportInit ==
    /\ present \in SUBSET Tables
    /\ oldRows \in [Tables -> SUBSET CutoverRow]
    /\ \A t \in Tables \ present : oldRows[t] = {}
    /\ newRows = [t \in Tables |-> {}] /\ copied = [t \in Tables |-> {}]
    /\ audit = [t \in Tables |-> [source |-> 0, after |-> 0, missing |-> 0]]
    /\ audited = [t \in Tables |-> {}]
    /\ reportStage = "copy" /\ table = 1 /\ health = "unasked"
    /\ written = <<>> /\ exitCode = "none"
    /\ gone = [t \in Tables |-> {}] /\ writes = 0 /\ reportFaults = 0

-----------------------------------------------------------------------------
(* A table, in turn; after the last one, the next stage. *)
InTurn(stage, next) ==
    /\ reportStage = stage
    /\ table' = IF table = Len(LegacyTables) THEN 1 ELSE table + 1
    /\ reportStage' = IF table = Len(LegacyTables) THEN next ELSE stage
TheRestStays == UNCHANGED <<present, oldRows, gone, writes, reportFaults>>

CopyTable ==
    /\ InTurn("copy", "audit")
    /\ copied' = [copied EXCEPT ![LegacyTables[table]] = oldRows[LegacyTables[table]]]
    /\ TheRestStays /\ UNCHANGED <<newRows, audit, health, written, exitCode, audited>>

(* _build_audit_snapshot: the two tables are counted, and then, by a statement of
   its own, the rows without a counterpart; each statement sees what is committed by
   then and what its own transaction has written. *)
CountRows ==
    /\ reportStage = "audit" /\ reportStage' = "missing"
    /\ LET t == LegacyTables[table] IN
         audit' = [audit EXCEPT ![t].source = Cardinality(oldRows[t]),
                                ![t].after = Cardinality(newRows[t] \union copied[t])]
    /\ TheRestStays
    /\ UNCHANGED <<newRows, copied, table, health, written, exitCode, audited>>

CountMissing ==
    /\ reportStage = "missing"
    /\ LET t == LegacyTables[table] IN
         /\ audit' = [audit EXCEPT ![t].missing =
                        Cardinality(oldRows[t] \ (newRows[t] \union copied[t]))]
         /\ audited' = [audited EXCEPT ![t] = oldRows[t]]
    /\ IF table = Len(LegacyTables)
       THEN table' = 1 /\ reportStage' = "commit"
       ELSE table' = table + 1 /\ reportStage' = "audit"
    /\ TheRestStays /\ UNCHANGED <<newRows, copied, health, written, exitCode>>

CommitCopy ==
    /\ reportStage = "commit" /\ reportStage' = "health"
    /\ newRows' = [t \in Tables |-> newRows[t] \union copied[t]]
    /\ copied' = [t \in Tables |-> {}]
    /\ TheRestStays /\ UNCHANGED <<audit, table, health, written, exitCode, audited>>

(* _build_health_report, when a URL is given: 200 and "ok"; any other answer, or
   nobody to connect to. *)
AskHealth ==
    /\ reportStage = "health" /\ reportStage' = "report"
    /\ health' \in {"unasked", "ok", "not_ok"}
    /\ TheRestStays
    /\ UNCHANGED <<newRows, copied, audit, table, written, exitCode, audited>>

-----------------------------------------------------------------------------
(* AuditRow.cutover_ready; what is matched is what is not missing. *)
RowReady(t) ==
    audit[t].missing = 0 /\ audit[t].source - audit[t].missing = audit[t].source

(* Mutant: the tables that are there are enough. *)
AutomaticOnWhatIsThere == (\A t \in present : RowReady(t)) /\ health # "not_ok"

(* _is_cutover_ready and the rest of automatic_ready; validate has raised when the
   revision is not the newest. *)
Automatic ==
    /\ present = Tables /\ \A t \in present : RowReady(t)
    /\ health # "not_ok"

(* _build_checklist and _build_observation_checklist: a title and its tick. *)
Checklist(manual) ==
    {<<"heads", TRUE>>, <<"tables", present = Tables>>}
        \union {<<t, RowReady(t)>> : t \in present}
        \union (IF health = "unasked" THEN {} ELSE {<<"health", health = "ok">>})
        \union {<<c, c \in manual>> : c \in Confirmations}
ObservationChecklist(observed) ==
    {<<"evidence", Automatic>>}
        \union {<<c, c \in observed>> : c \in ExitConfirmations}

(* write_cutover_reports and the end of main, whatever the report says; what the
   operator does not confirm on the command line is unconfirmed. *)
WriteReport(manual, observed) ==
    /\ reportStage = "report" /\ reportStage' = "over"
    /\ written' = <<[cutover |-> Automatic /\ manual = Confirmations,
                    observation |-> Automatic /\ observed = ExitConfirmations,
                    checklist |-> Checklist(manual),
                    exits |-> ObservationChecklist(observed)]>>
    /\ exitCode' = "zero"
    /\ TheRestStays /\ UNCHANGED <<newRows, copied, audit, table, health, audited>>

(* The connection is lost, a revision does not validate, /health takes longer than
   its timeout to answer, a file cannot be written: the run ends without a report,
   and what is not committed is undone. *)
RunFails ==
    /\ reportStage # "over" /\ reportFaults < MaxReportFaults
    /\ reportFaults' = reportFaults + 1
    /\ reportStage' = "over" /\ exitCode' = "one" /\ copied' = [t \in Tables |-> {}]
    /\ UNCHANGED <<present, oldRows, newRows, audit, table, health, written, audited,
                   gone, writes>>

-----------------------------------------------------------------------------
(* A process of the old version, which knows the legacy tables only. *)
OldWrites(t, r) ==
    /\ writes < MaxWrites /\ writes' = writes + 1
    /\ t \in present /\ oldRows' = [oldRows EXCEPT ![t] = @ \union {r}]
    /\ UNCHANGED <<present, newRows, gone, reportFaults, runVars>>

(* The new one, which waits for a row that the transaction holds. *)
ApiWrites(t, r) ==
    /\ writes < MaxWrites /\ writes' = writes + 1 /\ r \notin copied[t]
    /\ newRows' = [newRows EXCEPT ![t] = @ \union {r}]
    /\ UNCHANGED <<present, oldRows, gone, reportFaults, runVars>>
ApiDeletes(t, r) ==
    /\ writes < MaxWrites /\ writes' = writes + 1 /\ r \in newRows[t] \ copied[t]
    /\ newRows' = [newRows EXCEPT ![t] = @ \ {r}]
    /\ gone' = [gone EXCEPT ![t] = @ \union {r}]
    /\ UNCHANGED <<present, oldRows, reportFaults, runVars>>

ReportNext ==
    \/ CopyTable \/ CountRows \/ CountMissing \/ CommitCopy \/ AskHealth \/ RunFails
    \/ \E manual \in {{"backup", "rollback"}, Confirmations},
          observed \in {{"window"}, ExitConfirmations} : WriteReport(manual, observed)
    \/ \E t \in Tables, r \in CutoverRow :
         OldWrites(t, r) \/ ApiWrites(t, r) \/ ApiDeletes(t, r)

ReportSpec == ReportInit /\ [][ReportNext]_reportVars

-----------------------------------------------------------------------------
ReportTypeOK ==
    /\ present \subseteq Tables /\ table \in DOMAIN LegacyTables
    /\ reportStage \in {"copy", "audit", "missing", "commit", "health", "report", "over"}
    /\ \A t \in Tables : oldRows[t] \union newRows[t] \union copied[t] \subseteq CutoverRow

(* A report that says ready, for the cutover. *)
SaysReady == written # <<>> /\ written[1].cutover

(* The checklist an operator reads and the flag a pipeline reads are computed apart
   and say the same: everything is ticked exactly when the cutover, or the end of the
   observation, is ready (_build_checklist, run_legacy_postgres_cutover). *)
TickedMeansReady ==
    written # <<>> =>
        /\ written[1].cutover = (\A item \in written[1].checklist : item[2])
        /\ written[1].observation = (\A item \in written[1].exits : item[2])

(* A report that says ready vouches for every row the audit saw in a legacy table:
   it is in the new one, unless the API has deleted it, whatever was written beside
   the copy. Rows written between a table's copy and its audit make it not ready. *)
ReadyMeansCopied ==
    SaysReady => \A t \in Tables : audited[t] \subseteq newRows[t] \union gone[t]

(* Not so: the exit code says that a report was written, not what it says. *)
ExitZeroIsReady == exitCode = "zero" => SaysReady

(* Not so: rows the old version writes after the audit are left behind. *)
LaterRowsAreCopied ==
    SaysReady => \A t \in Tables : oldRows[t] \subseteq newRows[t] \union gone[t]

(* What a report says is so: one that is ticked off is ready, and one that is ready has
   copied every row that the audit saw. *)
CutoverIsTrue == TickedMeansReady /\ ReadyMeansCopied

-----------------------------------------------------------------------------
(* Why it is so: the inductive invariant. A table whose audit missed nothing keeps every
   row that it saw, in the new table, in the open transaction or among the deleted; the
   copy is on until the audit, and the report is written once, from what was audited. *)
KeepsWhatItSaw ==
    reportStage # "over" \/ written # <<>> =>
        \A t \in Tables : audit[t].missing = 0
                           => audited[t] \subseteq newRows[t] \union copied[t] \union gone[t]
CopiedUntilCommit ==
    reportStage \in {"health", "report", "over"} => \A t \in Tables : copied[t] = {}
NothingAuditedYet == reportStage = "copy" => \A t \in Tables : audited[t] = {}
WrittenOnce == written # <<>> => reportStage = "over"

Count == [source : Nat, after : Nat, missing : Nat]
RowsOf == [Tables -> SUBSET CutoverRow]
ReportIInv ==
    /\ ReportTypeOK /\ oldRows \in RowsOf /\ newRows \in RowsOf /\ copied \in RowsOf
    /\ audited \in RowsOf /\ gone \in RowsOf /\ audit \in [Tables -> Count]
    /\ health \in {"unasked", "ok", "not_ok"}
    /\ KeepsWhatItSaw /\ CopiedUntilCommit /\ NothingAuditedYet /\ WrittenOnce
    /\ TickedMeansReady
    /\ SaysReady => \A t \in Tables : audit[t].missing = 0
=============================================================================
