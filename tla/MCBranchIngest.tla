----------------------------- MODULE MCBranchIngest ----------------------------
(* Small instances of the modules about the tree of a repository, one of them per
   behaviour: which tree an event brings to an ingest (MergeEvents), what an ingest
   of a tree leaves in the indices (IncrementalIngest) and how git gets into a
   remote (GitClone). The modules share no variable; `part` says which one moves,
   the others keep a first state. *)
EXTENDS IncrementalIngest, MergeEvents, GitClone, TLC

CONSTANTS m1, m2

VARIABLE part
mcVars == <<part, vars, mergeVars, gitVars>>

(* IncrementalIngest: the folders of the files; files and contents are alike. *)
OneFolder  == [f \in File |-> m1]
TwoFolders == [f \in File |-> IF f = CHOOSE g \in File : TRUE THEN m1 ELSE m2]

Symmetric == Permutations(File) \cup Permutations(Content)

(* GitClone: everything a request may say, with a key in the settings; and
   every key, known-hosts file and strictness for a plain SSH URL. *)
Good == [raw |-> TRUE, b64 |-> "none"]
RequestsByMethod ==
    {r \in CloneRequest : r.key = Good /\ r.hosts = Good /\ r.strict = "yes"}
RequestsByKey ==
    {[provider |-> "github", url |-> "ssh", transport |-> t, method |-> "auto",
      username |-> FALSE, secret |-> FALSE, token |-> FALSE, key |-> k, hosts |-> h,
      strict |-> s, commit |-> TRUE]
        : t \in {"auto", "ssh"}, k \in Secret, h \in Secret,
          s \in {"yes", "accept-new", "no", "unknown"}}
AllRequests == RequestsByMethod \union RequestsByKey
OneRequest == CHOOSE r \in RequestsByKey : r.key = Good /\ r.hosts = Good
OnlyThatRequest == {OneRequest}

-----------------------------------------------------------------------------
(* The first state a module keeps while another one moves. *)
IngestRests == history = <<[f \in File |-> NoFile]>>
GitRests == order = OneRequest /\ private = TRUE /\ directory = "absent"

MCInit ==
    /\ part \in {"merge", "ingest", "clone"}
    /\ IF part = "ingest" THEN TRUE ELSE IngestRests
    /\ IF part = "clone" THEN TRUE ELSE GitRests
    /\ Init /\ MergeInit /\ GitInit

MCNext ==
    \/ part = "merge" /\ MergeNext /\ UNCHANGED <<part, vars, gitVars>>
    \/ part = "ingest" /\ Next /\ UNCHANGED <<part, mergeVars, gitVars>>
    \/ part = "clone" /\ GitNext /\ UNCHANGED <<part, vars, mergeVars>>

MCSpec == MCInit /\ [][MCNext]_mcVars

(* The type invariant of the module that moves; the others keep their first state. *)
BranchTypeOK ==
    CASE part = "ingest" -> IngestTypeOK
      [] part = "merge"  -> MergeTypeOK
      [] part = "clone"  -> GitTypeOK
=============================================================================
