------------------------------- MODULE MCRecords -------------------------------
(* Small instances of the modules about what is on record of the repositories, one
   of them per behaviour: what a question finds there and marks (RepoCatalog), what
   a global reset clears (AdminReset) and how the rows move to the schema of today
   (CutoverReport). The modules share no variable; `part` says which one moves, the
   others keep a first state. *)
EXTENDS RepoCatalog, AdminReset, CutoverReport, TLC

VARIABLE part
mcVars == <<part, catalogVars, resetVars, reportVars>>

(* RepoCatalog: ma, the default, is asked for by not naming a model; mb has the same
   length and is not listed; mc has another. *)
CONSTANTS ma, mb, mc
Lengths == [m \in Model |-> IF m = mc THEN 2 ELSE 1]
ListedLengths == [m \in Model |-> IF m = mb THEN 0 ELSE Lengths[m]]
Symmetric == Permutations(Piece)

(* AdminReset: the ingests are of one repository. *)
CONSTANT theRepository
OfOne == [i \in Ingest |-> theRepository]

(* CutoverReport *)
TwoTables == <<"jobs", "lexical_corpus">>

-----------------------------------------------------------------------------
(* The first state a module keeps while another one moves. *)
CatalogRests == dimension = 0 /\ aligned = TRUE
ResetRests == remote = TRUE
ReportRests == present = {}

MCInit ==
    /\ part \in {"catalog", "reset", "cutover"}
    /\ IF part = "catalog" THEN TRUE ELSE CatalogRests
    /\ IF part = "reset" THEN TRUE ELSE ResetRests
    /\ IF part = "cutover" THEN TRUE ELSE ReportRests
    /\ CatalogInit /\ ResetInit /\ ReportInit

MCNext ==
    \/ part = "catalog" /\ CatalogNext /\ UNCHANGED <<part, resetVars, reportVars>>
    \/ part = "reset" /\ ResetNext /\ UNCHANGED <<part, catalogVars, reportVars>>
    \/ part = "cutover" /\ ReportNext /\ UNCHANGED <<part, catalogVars, resetVars>>

MCSpec == MCInit /\ [][MCNext]_mcVars
=============================================================================
