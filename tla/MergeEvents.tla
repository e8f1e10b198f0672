------------------------------ MODULE MergeEvents -----------------------------
(* From a merge to an indexed commit: the merge events of a branch and the
   webhook that takes them (api/webhook_bitbucket.py), and the ingest they start,
   down to the clone (jobs/worker.py, ingestion/git_client.py).

   One branch of one repository. Its commits are 1, 2, ... in their order;
   Elsewhere is the tree of the default branch, Mixed an index left by a failed
   ingest. The network may lose, delay and reorder the events. What an ingest
   writes is in IncrementalIngest, how one is refused beside another in
   JobManager. *)
EXTENDS Integers, Sequences, FiniteSets

CONSTANTS MaxMerges, MaxJobs, MaxGitFaults, MaxCrashes   \* bounds

ASSUME MergeAssumption ==
    {MaxMerges, MaxJobs, MaxGitFaults, MaxCrashes} \subseteq Nat

Unpinned == 0     \* a request without a commit
Elsewhere == -1
Mixed == -2

VARIABLES
    branchHead,   \* the remote: the newest commit of the branch
    inFlight,     \* merge events that have not arrived
    jobRows,      \* the jobs: commit, status, the commit checked out and the base
    workspaceTree,\* commit in the directory of the last clone, 0: none
    indexed,      \* what the index holds, 0: nothing
    lastCommit,  \* last_indexed_commit, 0: none
    gitFaults, crashes,
    excused       \* history: a merge was missed since the index was last current

mergeVars == <<branchHead, inFlight, jobRows, workspaceTree, indexed, lastCommit,
               gitFaults, crashes, excused>>
indexVars == <<workspaceTree, indexed, lastCommit>>

Ended == {"completed", "partial", "failed"}
Active == jobRows # <<>> /\ jobRows[Len(jobRows)].status \notin Ended \union {"removed"}
This == jobRows[Len(jobRows)]
NewRow(c) == [commit |-> c, status |-> "queued", tree |-> Unpinned]
Becomes(status, tree) ==
    jobRows' = [jobRows EXCEPT ![Len(jobRows)] =
                  [commit |-> This.commit, status |-> status, tree |-> tree]]

MergeInit ==
    /\ branchHead = 1 /\ inFlight = {} /\ jobRows = <<>>
    /\ workspaceTree = 0 /\ indexed = 0 /\ lastCommit = 0
    /\ gitFaults = 0 /\ crashes = 0 /\ excused = TRUE

-----------------------------------------------------------------------------
(* The remote, and the network between it and the webhook. latestCommit of the
   payload is the head the merge left, or is missing. *)
Merge ==
    /\ branchHead <= MaxMerges /\ branchHead' = branchHead + 1
    /\ \E c \in {branchHead', Unpinned} :
          inFlight' = inFlight \union {[merge |-> branchHead', commit |-> c]}
    /\ UNCHANGED <<jobRows, gitFaults, crashes, excused>>
    /\ UNCHANGED indexVars

EventLost(e) ==
    /\ inFlight' = inFlight \ {e} /\ excused' = TRUE
    /\ UNCHANGED <<branchHead, jobRows, gitFaults, crashes>>
    /\ UNCHANGED indexVars

(* bitbucket_webhook: an event of a watched branch starts an ingest of its commit,
   or is answered as ignored while one is active. An event overtaken by a newer
   one excuses what follows. (Events of other kinds, branches or repositories
   are answered before this and change nothing; so is one whose signature is
   wrong.) *)
Receive(e) ==
    /\ Len(jobRows) < MaxJobs /\ inFlight' = inFlight \ {e}
    /\ jobRows' = IF Active THEN jobRows ELSE Append(jobRows, NewRow(e.commit))
    /\ excused' = (excused \/ Active \/ e.merge < branchHead)
    /\ UNCHANGED <<branchHead, gitFaults, crashes>>
    /\ UNCHANGED indexVars

-----------------------------------------------------------------------------
(* The ingest. History is cloned only for a diff with a previous commit. *)
FullHistory == lastCommit # 0
JobClones == Active /\ This.status = "queued"
HasCommit(c) == c = Unpinned \/ FullHistory \/ c = branchHead

(* Mutant: the directory of the last clone is used again when it is there. *)
CloneReusing ==
    /\ JobClones
    /\ LET tree == IF workspaceTree # 0 THEN workspaceTree
                   ELSE IF This.commit = Unpinned THEN branchHead ELSE This.commit
       IN  Becomes("writing", tree) /\ workspaceTree' = tree
    /\ UNCHANGED <<branchHead, inFlight, indexed, lastCommit, gitFaults, crashes, excused>>

(* git clone of the branch, and git checkout of the commit: in a shallow clone
   only the head is there. *)
CloneBranch ==
    /\ JobClones
    /\ LET tree == IF This.commit = Unpinned THEN branchHead ELSE This.commit
       IN  IF HasCommit(This.commit)
           THEN Becomes("writing", tree) /\ workspaceTree' = tree /\ UNCHANGED excused
           ELSE Becomes("failed", Unpinned) /\ workspaceTree' = branchHead /\ excused' = TRUE
    /\ UNCHANGED <<branchHead, inFlight, indexed, lastCommit, gitFaults, crashes>>

(* The clone of the branch fails: the default branch is cloned. The commit is
   found in it with its full history only; without a commit its tree is taken. *)
CloneDefault ==
    /\ JobClones /\ gitFaults < MaxGitFaults /\ gitFaults' = gitFaults + 1
    /\ LET tree == IF This.commit = Unpinned THEN Elsewhere ELSE This.commit
       IN  IF This.commit = Unpinned \/ FullHistory
           THEN /\ Becomes("writing", tree) /\ workspaceTree' = tree
                /\ excused' = (excused \/ tree = Elsewhere)
           ELSE Becomes("failed", Unpinned) /\ workspaceTree' = Elsewhere /\ excused' = TRUE
    /\ UNCHANGED <<branchHead, inFlight, indexed, lastCommit, crashes>>

LeftByFailure ==
    IF This.status = "writing" /\ This.tree # lastCommit THEN {indexed, Mixed} ELSE {indexed}

(* Both clones fail, or anything after them before the index is written. *)
IngestFails ==
    /\ Active /\ gitFaults < MaxGitFaults /\ gitFaults' = gitFaults + 1
    /\ Becomes("failed", Unpinned) /\ excused' = TRUE
    /\ indexed' \in LeftByFailure
    /\ UNCHANGED <<branchHead, inFlight, workspaceTree, lastCommit, crashes>>

(* The index is written and the commit recorded, when git names it. With the
   commit of the last ingest nothing is written; a difference to it may leave what
   a failed ingest mixed. *)
WrittenBy(known) ==
    CASE ~known \/ lastCommit = 0                         -> {This.tree}
      [] known /\ lastCommit = This.tree                  -> {indexed}
      [] OTHER -> {This.tree} \union (IF indexed = Mixed THEN {Mixed} ELSE {})

IngestEnds ==
    /\ Active /\ This.status = "writing"
    /\ \E known \in BOOLEAN :
          /\ known \/ gitFaults < MaxGitFaults
          /\ gitFaults' = IF known THEN gitFaults ELSE gitFaults + 1
          /\ indexed' \in WrittenBy(known)
          /\ lastCommit' = IF known THEN This.tree ELSE lastCommit
    /\ \E status \in {"completed", "partial"} : Becomes(status, This.tree)
    /\ excused' = (excused /\ indexed' # branchHead)
    /\ UNCHANGED <<branchHead, inFlight, workspaceTree, crashes>>

-----------------------------------------------------------------------------
(* The server stops with its threads: what was active has failed when it is back. *)
Crash ==
    /\ Active /\ crashes < MaxCrashes /\ crashes' = crashes + 1
    /\ Becomes("failed", Unpinned) /\ excused' = TRUE
    /\ indexed' \in LeftByFailure
    /\ UNCHANGED <<branchHead, inFlight, workspaceTree, lastCommit, gitFaults>>

(* Another client asks for an ingest, of the head or of a commit it has seen. *)
OtherRequest ==
    /\ ~Active /\ Len(jobRows) < MaxJobs
    /\ \E c \in {Unpinned} \union 1 .. branchHead :
          /\ jobRows' = Append(jobRows, NewRow(c))
          /\ excused' = (excused \/ c \notin {Unpinned, branchHead})
    /\ UNCHANGED <<branchHead, inFlight, gitFaults, crashes>>
    /\ UNCHANGED indexVars

(* Another client deletes the repository: its rows go, its index too. *)
RepositoryDeleted ==
    /\ jobRows # <<>> /\ ~Active /\ This.status # "removed"
    /\ jobRows' = [j \in DOMAIN jobRows |->
                    [commit |-> jobRows[j].commit, status |-> "removed",
                     tree |-> jobRows[j].tree]]
    /\ indexed' = 0 /\ lastCommit' = 0 /\ workspaceTree' = 0 /\ excused' = TRUE
    /\ UNCHANGED <<branchHead, inFlight, gitFaults, crashes>>

-----------------------------------------------------------------------------
MergeNext ==
    \/ Merge \/ \E e \in inFlight : EventLost(e) \/ Receive(e)
    \/ CloneBranch \/ CloneDefault \/ IngestFails \/ IngestEnds
    \/ Crash \/ OtherRequest \/ RepositoryDeleted

MergeSpec == MergeInit /\ [][MergeNext]_mergeVars

-----------------------------------------------------------------------------
MergeTypeOK ==
    /\ branchHead \in 1 .. MaxMerges + 1 /\ Len(jobRows) <= MaxJobs
    /\ indexed \in {Elsewhere, Mixed} \union 0 .. MaxMerges + 1

(* A job that was asked for a commit and did not fail has read the tree of that
   commit, whichever clone it came from and whatever the directory held. *)
RequestedTreeIsRead ==
    \A j \in DOMAIN jobRows :
        jobRows[j].status \in {"writing", "completed", "partial"} /\ jobRows[j].commit # Unpinned
            => jobRows[j].tree = jobRows[j].commit

(* When everything is at rest the index holds the head of the branch, unless an
   event was lost, overtaken or ignored, or an ingest failed or had to take the
   default branch, since it last did. *)
MissesHaveACause == inFlight = {} /\ ~Active /\ ~excused => indexed = branchHead

(* Not so: two events that overtake each other take the index back. *)
IndexNeverGoesBack == [][indexed > 0 /\ indexed' > 0 => indexed' >= indexed]_mergeVars

(* Not so: an event that meets an active ingest is ignored, and no other follows. *)
LastMergeIsIndexed == inFlight = {} /\ ~Active /\ gitFaults + crashes = 0 /\ indexed > 0
                        => indexed = branchHead

(* What becomes of a merge: an ingest reads the tree it was asked for, and a merge
   whose commit is not indexed has one of the known causes. *)
MergesAreHonoured == RequestedTreeIsRead /\ MissesHaveACause

-----------------------------------------------------------------------------
(* Why it is so: the inductive invariant. While nothing excuses a miss, the head is on
   its way as an event, is what the active job was asked for, or is indexed; an index
   that a failure mixed, and a last commit that is not what is indexed, are excused. *)
Statuses == Ended \union {"queued", "writing", "removed"}
TreesNow == {Elsewhere, Unpinned} \union 1 .. branchHead
JobRow == [commit : {Unpinned} \union 1 .. branchHead, status : Statuses, tree : TreesNow]
Event == [merge : 1 .. branchHead, commit : {Unpinned} \union 1 .. branchHead]

NamesItsMerge == \A e \in inFlight : e.commit \in {Unpinned, e.merge}
HeadOnItsWay == \E e \in inFlight : e.merge = branchHead
JobBringsHead ==
    /\ This.status = "queued" => This.commit \in {Unpinned, branchHead}
    /\ This.status = "writing" => This.tree = branchHead
NothingMissed ==
    ~excused =>
        /\ indexed # Mixed
        /\ lastCommit = branchHead => indexed = branchHead /\ (Active => JobBringsHead)
        /\ HeadOnItsWay \/ (IF Active THEN JobBringsHead ELSE indexed = branchHead)

MergeIInv ==
    /\ MergeTypeOK /\ branchHead \in Nat \ {0}
    /\ jobRows \in Seq(JobRow) /\ inFlight \subseteq Event
    /\ lastCommit \in TreesNow /\ indexed \in TreesNow \union {Mixed}
    /\ excused \in BOOLEAN
    /\ NamesItsMerge /\ RequestedTreeIsRead /\ NothingMissed
=============================================================================
