------------------------------ MODULE IngestProofs -----------------------------
(* Proofs about what an ingest takes in and hands over, beside the pipeline itself: that a
   clone gets in where it may, and leaves no secret behind (GitClone), for every request
   and any number of clones; that an ingest reads the tree that it was asked for, and a
   merge is missed for a known cause only (MergeEvents), for any number of merges, events
   and jobs; and that an upsert stores what it was given (ChromaUpsert), for any documents,
   limits and faults. *)
EXTENDS GitClone, MergeEvents, ChromaUpsert, WellFoundedInduction, SequenceTheorems,
        FiniteSetTheorems, TLAPS

-----------------------------------------------------------------------------
(* What the access of a request comes to: over HTTPS, with a user and a secret. *)
LEMMA HttpsGetsIn ==
  ASSUME NEW r \in CloneRequest, HttpsSuffices(r)
  PROVE  Access(r) = "https" /\ LetsIn(r)
  <1>1. /\ ~TokenCounts(r) /\ HasSecret(r) /\ HasUsername(r)
        /\ r.url = "https" /\ r.transport \in {"auto", "https"}
        /\ r.method \in {"auto", "http_basic"}
    BY DEF HttpsSuffices, TokenCounts, HasSecret, HasUsername
  <1>2. Transport(r) = "https"
    BY <1>1 DEF Transport
  <1>3. /\ Method(r) \in {"http_basic", "http_token"}
        /\ r.provider = "bitbucket" => Method(r) = "http_basic"
    BY <1>1, <1>2 DEF Method
  <1>4. HttpsAccess(r) = "https"
    BY <1>1, <1>3 DEF HttpsAccess, GithubAccess, BitbucketAccess, OtherAccess
  <1> QED BY <1>1, <1>2, <1>3, <1>4 DEF Access, LetsIn

(* Over SSH, with a key and no older token. *)
LEMMA SshGetsIn ==
  ASSUME NEW r \in CloneRequest, SshSuffices(r), ~TokenCounts(r)
  PROVE  Access(r) = "ssh" /\ LetsIn(r)
  <1>1. Transport(r) = "ssh"
    BY DEF SshSuffices, Transport
  <1>2. Method(r) = "ssh_key"
    BY <1>1 DEF SshSuffices, Method
  <1>3. SshAccess(r) = "ssh"
    BY DEF SshSuffices, SshAccess
  <1> QED BY <1>1, <1>2, <1>3 DEF Access, LetsIn, SshSuffices

(* A secret over HTTPS, with one of the two providers that the code knows. *)
LEMMA SecretIsUsed ==
  ASSUME NEW r \in CloneRequest, Transport(r) = "https", HasSecret(r), r.provider # "other",
         Access(r) # "refused"
  PROVE  Access(r) = "https"
  <1>1. Access(r) = HttpsAccess(r) /\ r.provider \in {"github", "bitbucket"}
    BY DEF Access, CloneRequest
  <1> QED BY <1>1 DEF HttpsAccess, GithubAccess, BitbucketAccess

-----------------------------------------------------------------------------
(* Every step of clone_repository, of git and of the system keeps the invariant. *)
LEMMA GitStepKeeps ==
  ASSUME GitIInv, [GitNext]_gitVars
  PROVE  GitIInv'
  <1>0. UNCHANGED <<order, private>>
    BY DEF GitNext, RemoveOld, OldStays, ResolveAccess, CloneWorks, BranchFails, DefaultFails,
           CheckOut, CleanUp, ErrorIsDropped, CloneKilled, NextClone, gitVars
  <1>1. Access(order)' = Access(order) /\ LetsIn(order)' = LetsIn(order)
    BY <1>0 DEF Access, LetsIn, Transport, Method, HttpsAccess, SshAccess, GithubAccess,
                BitbucketAccess, OtherAccess, TokenCounts, HasSecret, HasUsername, Decoded
  <1>2. CASE RemoveOld
    BY <1>0, <1>1, <1>2
       DEF RemoveOld, GitIInv, GitTypeOK, SecretsBesideGit, LetInAtOnce, NoTrouble
  <1>3. CASE OldStays
    BY <1>0, <1>1, <1>3
       DEF OldStays, GitIInv, GitTypeOK, SecretsBesideGit, LetInAtOnce, Trouble
  <1>4. CASE ResolveAccess
    <2>1. CASE Access(order) = "refused"
      <3>1. WritesSshFiles(order) \in BOOLEAN
        BY DEF WritesSshFiles
      <3>2. /\ doing' = "over" /\ result' = "failed" /\ secretFiles' \in BOOLEAN
            /\ UNCHANGED <<directory, excuse>>
        BY <1>4, <2>1, <3>1 DEF ResolveAccess, NoTrouble
      <3> QED BY <1>0, <1>1, <2>1, <3>2 DEF GitIInv, GitTypeOK, SecretsBesideGit, LetInAtOnce
    <2>2. CASE Access(order) # "refused"
      <3> DEFINE sent == Access(order) # "none"
      <3>1. /\ doing = "resolve" /\ doing' = "branch" /\ secretFiles' = sent
            /\ UNCHANGED <<result, directory, excuse>>
        BY <1>4, <2>2 DEF ResolveAccess, NoTrouble
      <3>2. sent \in BOOLEAN /\ (sent' <=> sent)
        BY <1>1
      <3>3. SecretsBesideGit'
        <4>1. Access(order)' # "refused"
          BY <1>1, <2>2
        <4>2. secretFiles' = sent'
          BY <3>1, <3>2
        <4> QED BY <3>1, <4>1, <4>2 DEF SecretsBesideGit
      <3> QED BY <1>0, <1>1, <3>1, <3>2, <3>3
              DEF GitIInv, GitTypeOK, LetInAtOnce
    <2> QED BY <2>1, <2>2
  <1>5. CASE CloneWorks
    BY <1>0, <1>1, <1>5
       DEF CloneWorks, GitIInv, GitTypeOK, SecretsBesideGit, LetInAtOnce, CommandsFollow,
           EndsWith, NoTrouble
  <1>6. CASE BranchFails
    BY <1>0, <1>1, <1>6
       DEF BranchFails, GitIInv, GitTypeOK, SecretsBesideGit, LetInAtOnce, Trouble, NoTrouble
  <1>7. CASE DefaultFails
    BY <1>0, <1>1, <1>7
       DEF DefaultFails, GitIInv, GitTypeOK, SecretsBesideGit, LetInAtOnce, EndsWith, Trouble,
           NoTrouble
  <1>8. CASE CheckOut
    BY <1>0, <1>1, <1>8
       DEF CheckOut, GitIInv, GitTypeOK, SecretsBesideGit, LetInAtOnce, EndsWith, Trouble, NoTrouble
  <1>9. CASE CleanUp
    BY <1>0, <1>1, <1>9
       DEF CleanUp, GitIInv, GitTypeOK, SecretsBesideGit, LetInAtOnce, NoTrouble
  <1>13. CASE ErrorIsDropped
    BY <1>0, <1>1, <1>13
       DEF ErrorIsDropped, GitIInv, GitTypeOK, SecretsBesideGit, LetInAtOnce, NoTrouble
  <1>10. CASE CloneKilled
    BY <1>0, <1>1, <1>10
       DEF CloneKilled, GitIInv, GitTypeOK, SecretsBesideGit, LetInAtOnce, Trouble
  <1>11. CASE NextClone
    BY <1>0, <1>1, <1>11
       DEF NextClone, GitIInv, GitTypeOK, SecretsBesideGit, LetInAtOnce
  <1>12. CASE UNCHANGED gitVars
    BY <1>0, <1>1, <1>12 DEF gitVars, GitIInv, GitTypeOK, SecretsBesideGit, LetInAtOnce
  <1> QED BY <1>2, <1>3, <1>4, <1>5, <1>6, <1>7, <1>8, <1>9, <1>10, <1>11, <1>12, <1>13 DEF GitNext

(* Nothing is cloned yet. *)
LEMMA GitStarts == GitInit => GitIInv
  BY GitCloneAssumption DEF GitInit, GitIInv, GitTypeOK, SecretsBesideGit, LetInAtOnce

(* The inductive invariant of the clone holds for any requests and any number of clones,
   failures of git and crashes. *)
THEOREM CloneInvariance == GitSpec => []GitIInv
  <1>1. GitIInv /\ [GitNext]_gitVars => GitIInv'
    BY GitStepKeeps
  <1> QED BY <1>1, GitStarts, PTL DEF GitSpec

(* clone_repository keeps its promises: a request that holds what its URL takes gets the
   tree unless something fails, a secret for GitHub or Bitbucket is used over HTTPS or
   refused, and the files of the secrets live as long as git needs them and, once git was
   called, no longer. *)
THEOREM ClonesHold == GitSpec => []ClonesAreSafe
  <1>1. ASSUME GitIInv
        PROVE  ClonesAreSafe
    <2>1. EnoughIsEnough
      <3> SUFFICES ASSUME doing = "over", ~excuse,
                          HttpsSuffices(order) \/ (SshSuffices(order) /\ ~TokenCounts(order))
                   PROVE  result = "cloned" /\ directory = "tree"
        BY DEF EnoughIsEnough
      <3>1. LetsIn(order) /\ Access(order) # "refused"
        BY <1>1, HttpsGetsIn, SshGetsIn DEF GitIInv, GitTypeOK
      <3> QED BY <1>1, <3>1 DEF GitIInv, LetInAtOnce
    <2>2. SecretIsUsedOrRefused
      BY <1>1, SecretIsUsed DEF GitIInv, GitTypeOK, SecretsBesideGit, SecretIsUsedOrRefused
    <2>3. SecretFilesLiveWithGit
      BY <1>1 DEF GitIInv, SecretsBesideGit, SecretFilesLiveWithGit
    <2> QED BY <2>1, <2>2, <2>3 DEF ClonesAreSafe
  <1> QED BY <1>1, CloneInvariance, PTL

-----------------------------------------------------------------------------
(* The newest row, while there is one; an active one has not ended. *)
LEMMA NewestRow ==
  ASSUME MergeIInv
  PROVE  /\ Len(jobRows) \in Nat
         /\ jobRows # <<>> => Len(jobRows) \in DOMAIN jobRows /\ This \in JobRow
         /\ Active => jobRows # <<>> /\ This.status \in {"queued", "writing"}
  <1>1. jobRows \in Seq(JobRow) /\ (jobRows # <<>> => This \in JobRow)
    BY DEF MergeIInv, This
  <1> QED BY <1>1 DEF Active, This, JobRow, Statuses

(* Becomes gives the newest row a status and a tree, and leaves the other rows alone. *)
LEMMA RowBecomes ==
  ASSUME MergeIInv, Active, NEW status \in Statuses, NEW tree \in TreesNow,
         Becomes(status, tree), UNCHANGED branchHead
  PROVE  /\ jobRows' \in Seq(JobRow)' /\ Len(jobRows') = Len(jobRows) /\ jobRows' # <<>>
         /\ This' = [commit |-> This.commit, status |-> status, tree |-> tree]
         /\ Active' <=> status \in {"queued", "writing"}
         /\ (This.commit # Unpinned /\ status \in {"writing", "completed", "partial"}
               => tree = This.commit) => RequestedTreeIsRead'
  <1> DEFINE n == Len(jobRows)
             row == [commit |-> This.commit, status |-> status, tree |-> tree]
  <1>1. n \in DOMAIN jobRows /\ This \in JobRow /\ jobRows \in Seq(JobRow) /\ This = jobRows[n]
        /\ n \in Nat \ {0} /\ DOMAIN jobRows = 1 .. n
    BY NewestRow DEF MergeIInv, This
  <1>2. jobRows' = [jobRows EXCEPT ![n] = row]
    BY DEF Becomes
  <1>3. row \in JobRow
    BY <1>1 DEF JobRow
  <1>4. row.status = status /\ row.commit = This.commit /\ row.tree = tree
    OBVIOUS
  <1> HIDE DEF n, row
  <1>5. jobRows' \in Seq(JobRow) /\ Len(jobRows') = n /\ jobRows'[n] = row
        /\ \A j \in DOMAIN jobRows \ {n} : jobRows'[j] = jobRows[j]
    BY <1>1, <1>2, <1>3
  <1>6. jobRows' \in Seq(JobRow)' /\ jobRows' # <<>>
    BY <1>1, <1>5 DEF JobRow, TreesNow, Statuses
  <1>7. This' = row
    BY <1>5 DEF This
  <1>8. Active' <=> status \in {"queued", "writing"}
    BY <1>4, <1>6, <1>7 DEF Active, This, Statuses, Ended
  <1>9. ASSUME This.commit # Unpinned /\ status \in {"writing", "completed", "partial"}
                 => tree = This.commit
        PROVE  RequestedTreeIsRead'
    <2> SUFFICES ASSUME NEW j \in DOMAIN jobRows,
                        jobRows'[j].status \in {"writing", "completed", "partial"},
                        jobRows'[j].commit # Unpinned
                 PROVE  jobRows'[j].tree = jobRows'[j].commit
      BY <1>2 DEF RequestedTreeIsRead
    <2>1. CASE j = n
      BY <1>4, <1>5, <1>9, <2>1
    <2>2. CASE j # n
      BY <1>5, <2>2 DEF MergeIInv, RequestedTreeIsRead
    <2> QED BY <2>1, <2>2
  <1> QED BY <1>1, <1>5, <1>6, <1>7, <1>8, <1>9 DEF row, n

(* A request adds a row, which has read nothing yet. *)
LEMMA RowAppended ==
  ASSUME MergeIInv, NEW c \in {Unpinned} \union 1 .. branchHead,
         jobRows' = Append(jobRows, NewRow(c)), UNCHANGED branchHead
  PROVE  /\ jobRows' \in Seq(JobRow)' /\ Len(jobRows') = Len(jobRows) + 1
         /\ This'.status = "queued" /\ This'.commit = c
         /\ Active' /\ RequestedTreeIsRead'
  <1> DEFINE row == NewRow(c)
  <1>1. row \in JobRow /\ row.status = "queued" /\ row.commit = c
    BY DEF NewRow, JobRow, Statuses, TreesNow
  <1> HIDE DEF row
  <1>2. jobRows \in Seq(JobRow)
    BY DEF MergeIInv
  <1>3. /\ jobRows' \in Seq(JobRow) /\ Len(jobRows') = Len(jobRows) + 1
        /\ DOMAIN jobRows' = DOMAIN jobRows \union {Len(jobRows) + 1}
        /\ jobRows'[Len(jobRows')] = row
        /\ \A j \in DOMAIN jobRows : jobRows'[j] = jobRows[j]
    BY <1>1, <1>2 DEF row
  <1>4. jobRows' \in Seq(JobRow)'
    BY <1>3 DEF JobRow, TreesNow, Statuses
  <1>5. This' = row
    BY <1>3 DEF This
  <1>6. Active'
    BY <1>1, <1>2, <1>3, <1>5 DEF Active, This, Ended
  <1>7. RequestedTreeIsRead'
    BY <1>1, <1>2, <1>3 DEF MergeIInv, RequestedTreeIsRead
  <1> QED BY <1>1, <1>3, <1>4, <1>5, <1>6, <1>7

(* What a step at one head of the branch has to show: events do not appear, and the rest
   keeps its type. *)
LEMMA SameHead ==
  ASSUME MergeIInv, UNCHANGED branchHead, inFlight' \subseteq inFlight,
         jobRows' \in Seq(JobRow)', Len(jobRows') <= MaxJobs,
         lastCommit' \in TreesNow, indexed' \in TreesNow \union {Mixed}, excused' \in BOOLEAN,
         RequestedTreeIsRead', NothingMissed'
  PROVE  MergeIInv'
  <1>1. TreesNow' = TreesNow /\ Event' = Event /\ MaxMerges \in Nat
    BY MergeAssumption DEF TreesNow, Event
  <1>2. MergeTypeOK' /\ NamesItsMerge'
    BY <1>1 DEF MergeIInv, MergeTypeOK, TreesNow, NamesItsMerge, Elsewhere, Mixed, Unpinned
  <1> QED BY <1>1, <1>2 DEF MergeIInv

(* A merge moves the head, which its event names or leaves open. *)
LEMMA MergeKeeps ==
  ASSUME MergeIInv, Merge
  PROVE  MergeIInv'
  <1>1. PICK c \in {branchHead', Unpinned} :
           inFlight' = inFlight \union {[merge |-> branchHead', commit |-> c]}
    BY DEF Merge
  <1> DEFINE event == [merge |-> branchHead', commit |-> c]
  <1>2. /\ branchHead' = branchHead + 1 /\ branchHead \in Nat \ {0} /\ branchHead <= MaxMerges
        /\ MaxMerges \in Nat
        /\ UNCHANGED <<jobRows, gitFaults, crashes, excused, workspaceTree, indexed, lastCommit>>
    BY MergeAssumption DEF MergeIInv, Merge, indexVars
  <1>3. TreesNow \subseteq TreesNow' /\ JobRow \subseteq JobRow' /\ Event \subseteq Event'
    BY <1>2 DEF TreesNow, JobRow, Event, Statuses
  <1>4. event \in Event' /\ event.merge = branchHead' /\ event.commit \in {Unpinned, event.merge}
    BY <1>2 DEF Event
  <1> HIDE DEF event
  <1>5. inFlight' = inFlight \union {event}
    BY <1>1 DEF event
  <1>6. NamesItsMerge' /\ HeadOnItsWay' /\ inFlight' \subseteq Event'
    BY <1>3, <1>4, <1>5 DEF MergeIInv, NamesItsMerge, HeadOnItsWay
  <1>7. NothingMissed'
    <2>1. lastCommit' # branchHead'
      BY <1>2 DEF MergeIInv, TreesNow, Elsewhere, Unpinned
    <2> QED BY <1>2, <1>6, <2>1 DEF MergeIInv, NothingMissed, Mixed
  <1>8. jobRows' \in Seq(JobRow')
    BY <1>2, <1>3 DEF MergeIInv
  <1>9. MergeTypeOK' /\ RequestedTreeIsRead'
    BY <1>2 DEF MergeIInv, MergeTypeOK, RequestedTreeIsRead
  <1>10. lastCommit' \in TreesNow' /\ indexed' \in TreesNow' \union {Mixed'} /\ excused' \in BOOLEAN
         /\ branchHead' \in Nat \ {0}
    BY <1>2, <1>3 DEF MergeIInv, Mixed
  <1> QED BY <1>6, <1>7, <1>8, <1>9, <1>10 DEF MergeIInv

(* An event is lost, or arrives: the newest one starts an ingest of the head. *)
LEMMA EventKeeps ==
  ASSUME MergeIInv, NEW e \in inFlight, EventLost(e) \/ Receive(e)
  PROVE  MergeIInv'
  <1>1. /\ UNCHANGED <<branchHead, indexed, lastCommit>> /\ inFlight' = inFlight \ {e}
        /\ lastCommit \in TreesNow /\ indexed \in TreesNow \union {Mixed}
    BY DEF MergeIInv, EventLost, Receive, indexVars
  <1>2. e \in Event /\ e.commit \in {Unpinned, e.merge}
    BY DEF MergeIInv, NamesItsMerge
  <1>3. CASE jobRows' = jobRows /\ excused'
    <2>1. jobRows' \in Seq(JobRow)' /\ Len(jobRows') <= MaxJobs /\ RequestedTreeIsRead'
      BY <1>1, <1>3 DEF MergeIInv, MergeTypeOK, JobRow, TreesNow, RequestedTreeIsRead
    <2>2. NothingMissed'
      BY <1>3 DEF NothingMissed
    <2>3. excused' \in BOOLEAN
      BY DEF MergeIInv, EventLost, Receive
    <2> QED BY <1>1, <2>1, <2>2, <2>3, SameHead
  <1>4. CASE Receive(e) /\ ~Active
    <2>1. /\ jobRows' = Append(jobRows, NewRow(e.commit)) /\ Len(jobRows) < MaxJobs
          /\ excused' = (excused \/ Active \/ e.merge < branchHead)
      BY <1>4 DEF Receive
    <2>2. /\ jobRows' \in Seq(JobRow)' /\ Len(jobRows') = Len(jobRows) + 1
          /\ This'.status = "queued" /\ This'.commit = e.commit
          /\ Active' /\ RequestedTreeIsRead'
      BY <1>1, <1>2, <2>1, RowAppended DEF Event
    <2>3. ~excused' => ~excused /\ e.merge = branchHead
      <3>1. e.merge \in 1 .. branchHead /\ branchHead \in Nat /\ excused \in BOOLEAN
        BY <1>2 DEF MergeIInv, Event
      <3>2. excused' <=> excused \/ e.merge < branchHead
        BY <1>4, <2>1, <3>1
      <3> QED BY <3>1, <3>2
    <2>4. ~excused' => JobBringsHead'
      BY <1>1, <1>2, <2>2, <2>3 DEF JobBringsHead, Unpinned
    <2>5. NothingMissed'
      BY <1>1, <2>2, <2>3, <2>4 DEF MergeIInv, NothingMissed
    <2>6. Len(jobRows') <= MaxJobs /\ excused' \in BOOLEAN
      BY <2>1, <2>2, NewestRow, MergeAssumption DEF MergeIInv
    <2> QED BY <1>1, <2>2, <2>5, <2>6, SameHead
  <1> QED BY <1>3, <1>4 DEF EventLost, Receive

(* The clone, of the branch or of the default branch: what was asked for is read. *)
LEMMA CloneKeeps ==
  ASSUME MergeIInv, CloneBranch \/ CloneDefault
  PROVE  MergeIInv'
  <1> DEFINE asked == This.commit
  <1>1. /\ JobClones /\ Active /\ This.status = "queued" /\ This \in JobRow
        /\ UNCHANGED <<branchHead, inFlight, indexed, lastCommit>>
        /\ asked \in {Unpinned} \union 1 .. branchHead /\ branchHead \in Nat \ {0}
    BY NewestRow DEF CloneBranch, CloneDefault, JobClones, MergeIInv, JobRow
  <1>2. ASSUME NEW tree \in TreesNow, Becomes("writing", tree),
               asked # Unpinned => tree = asked,
               excused' \in BOOLEAN, ~excused' => ~excused,
               ~excused' /\ asked \in {Unpinned, branchHead} => tree = branchHead
        PROVE  MergeIInv'
    <2>1. /\ jobRows' \in Seq(JobRow)' /\ Len(jobRows') = Len(jobRows) /\ Active'
          /\ This' = [commit |-> asked, status |-> "writing", tree |-> tree]
          /\ RequestedTreeIsRead'
      BY <1>1, <1>2, RowBecomes DEF Statuses
    <2>2. This'.status = "writing" /\ This'.tree = tree
      BY <2>1
    <2>3. ~excused' /\ JobBringsHead => JobBringsHead'
      BY <1>1, <1>2, <2>2 DEF JobBringsHead
    <2>4. NothingMissed'
      BY <1>1, <1>2, <2>1, <2>3 DEF MergeIInv, NothingMissed, HeadOnItsWay
    <2>5. Len(jobRows') <= MaxJobs
      BY <2>1 DEF MergeIInv, MergeTypeOK
    <2> QED BY <1>1, <1>2, <2>1, <2>4, <2>5, SameHead DEF MergeIInv
  <1>3. ASSUME Becomes("failed", Unpinned), excused' = TRUE
        PROVE  MergeIInv'
    <2>1. /\ jobRows' \in Seq(JobRow)' /\ Len(jobRows') = Len(jobRows) /\ RequestedTreeIsRead'
      BY <1>1, <1>3, RowBecomes DEF Statuses, Ended, TreesNow
    <2>2. NothingMissed'
      BY <1>3 DEF NothingMissed
    <2>3. Len(jobRows') <= MaxJobs
      BY <2>1 DEF MergeIInv, MergeTypeOK
    <2> QED BY <1>1, <1>3, <2>1, <2>2, <2>3, SameHead DEF MergeIInv
  <1>4. CASE CloneBranch
    <2> DEFINE tree == IF asked = Unpinned THEN branchHead ELSE asked
    <2>1. /\ tree \in TreesNow /\ (asked # Unpinned => tree = asked)
          /\ asked \in {Unpinned, branchHead} => tree = branchHead
      BY <1>1 DEF TreesNow
    <2>2. \/ Becomes("writing", tree) /\ UNCHANGED excused
          \/ Becomes("failed", Unpinned) /\ excused' = TRUE
      BY <1>4 DEF CloneBranch
    <2> HIDE DEF tree, asked
    <2>3. excused \in BOOLEAN
      BY DEF MergeIInv
    <2>4. CASE Becomes("writing", tree) /\ UNCHANGED excused
      <3>1. excused' \in BOOLEAN /\ (~excused' => ~excused)
        BY <2>3, <2>4
      <3> QED BY <1>2, <2>1, <2>4, <3>1
    <2> QED BY <1>3, <2>2, <2>4
  <1>5. CASE CloneDefault
    <2> DEFINE tree == IF asked = Unpinned THEN Elsewhere ELSE asked
    <2>1. /\ tree \in TreesNow /\ (asked # Unpinned => tree = asked)
          /\ asked = Unpinned => tree = Elsewhere
          /\ asked = branchHead => tree = branchHead
      BY <1>1 DEF TreesNow, Unpinned
    <2>2. \/ Becomes("writing", tree) /\ excused' = (excused \/ tree = Elsewhere)
          \/ Becomes("failed", Unpinned) /\ excused' = TRUE
      BY <1>5 DEF CloneDefault
    <2> HIDE DEF tree, asked
    <2>3. excused \in BOOLEAN
      BY DEF MergeIInv
    <2>4. CASE Becomes("writing", tree) /\ excused' = (excused \/ tree = Elsewhere)
      <3>1. /\ excused' \in BOOLEAN /\ (~excused' => ~excused)
            /\ ~excused' /\ asked \in {Unpinned, branchHead} => tree = branchHead
        BY <2>1, <2>3, <2>4
      <3> QED BY <1>2, <2>1, <2>4, <3>1
    <2> QED BY <1>3, <2>2, <2>4
  <1> QED BY <1>4, <1>5

(* An ingest fails, or dies with its process: its index may be mixed, and is excused. *)
LEMMA FailureKeeps ==
  ASSUME MergeIInv, IngestFails \/ Crash
  PROVE  MergeIInv'
  <1>1. /\ Active /\ Becomes("failed", Unpinned) /\ excused' = TRUE
        /\ UNCHANGED <<branchHead, inFlight, lastCommit>> /\ indexed' \in {indexed, Mixed}
    BY DEF IngestFails, Crash, LeftByFailure
  <1>2. /\ jobRows' \in Seq(JobRow)' /\ Len(jobRows') = Len(jobRows) /\ RequestedTreeIsRead'
    BY <1>1, RowBecomes DEF Statuses, Ended, TreesNow
  <1>3. NothingMissed' /\ Len(jobRows') <= MaxJobs
    BY <1>1, <1>2 DEF NothingMissed, MergeIInv, MergeTypeOK
  <1> QED BY <1>1, <1>2, <1>3, SameHead DEF MergeIInv

(* An ingest ends: the index holds the tree that it has read, if nothing was mixed. *)
LEMMA IngestEndsKeeps ==
  ASSUME MergeIInv, IngestEnds
  PROVE  MergeIInv'
  <1>1. PICK known \in BOOLEAN : /\ indexed' \in WrittenBy(known)
                                 /\ lastCommit' = IF known THEN This.tree ELSE lastCommit
    BY DEF IngestEnds
  <1>2. PICK status \in {"completed", "partial"} : Becomes(status, This.tree)
    BY DEF IngestEnds
  <1>3. /\ Active /\ This.status = "writing" /\ UNCHANGED <<branchHead, inFlight>>
        /\ excused' = (excused /\ indexed' # branchHead) /\ This \in JobRow
        /\ This.tree \in TreesNow /\ lastCommit \in TreesNow
        /\ indexed \in TreesNow \union {Mixed} /\ branchHead \in Nat \ {0}
        /\ excused \in BOOLEAN
    BY NewestRow DEF IngestEnds, MergeIInv, JobRow
  <1>4. This.commit # Unpinned => This.tree = This.commit
    BY <1>3, NewestRow DEF MergeIInv, RequestedTreeIsRead, This
  <1>5. /\ jobRows' \in Seq(JobRow)' /\ Len(jobRows') = Len(jobRows)
        /\ ~Active' /\ RequestedTreeIsRead'
    BY <1>2, <1>3, <1>4, RowBecomes DEF Statuses, Ended
  <1>6. indexed' \in TreesNow \union {Mixed} /\ lastCommit' \in TreesNow /\ excused' \in BOOLEAN
    BY <1>1, <1>3 DEF WrittenBy
  <1>7. NothingMissed'
    <2> DEFINE tree == This.tree
    <2>1. CASE indexed' = branchHead
      BY <1>3, <1>5, <2>1 DEF NothingMissed, HeadOnItsWay, Mixed
    <2>2. CASE indexed' # branchHead /\ excused
      BY <1>3, <2>2 DEF NothingMissed
    <2>3. CASE indexed' # branchHead /\ ~excused
      <3>1. indexed # Mixed
        BY <2>3 DEF MergeIInv, NothingMissed
      <3>2. \/ indexed' = tree
            \/ known /\ lastCommit = tree /\ indexed' = indexed
        BY <1>1, <3>1 DEF WrittenBy
      <3>3. lastCommit = branchHead => indexed = branchHead /\ tree = branchHead
        BY <1>3, <2>3 DEF MergeIInv, NothingMissed, JobBringsHead
      <3>4. tree # branchHead /\ lastCommit # branchHead
        BY <2>3, <3>2, <3>3
      <3>5. lastCommit' # branchHead /\ indexed' # Mixed
        BY <1>1, <1>3, <3>1, <3>2, <3>4 DEF TreesNow, Mixed, Elsewhere, Unpinned
      <3>6. HeadOnItsWay
        BY <1>3, <2>3, <3>4 DEF MergeIInv, NothingMissed, JobBringsHead
      <3> QED BY <1>3, <3>5, <3>6 DEF NothingMissed, HeadOnItsWay, Mixed
    <2> QED BY <1>3, <2>1, <2>2, <2>3
  <1>8. Len(jobRows') <= MaxJobs
    BY <1>5 DEF MergeIInv, MergeTypeOK
  <1> QED BY <1>3, <1>5, <1>6, <1>7, <1>8, SameHead

(* Another client asks for an ingest, or deletes the repository. *)
LEMMA ClientsKeep ==
  ASSUME MergeIInv, OtherRequest \/ RepositoryDeleted
  PROVE  MergeIInv'
  <1>1. CASE OtherRequest
    <2>1. PICK c \in {Unpinned} \union 1 .. branchHead :
            /\ jobRows' = Append(jobRows, NewRow(c))
            /\ excused' = (excused \/ c \notin {Unpinned, branchHead})
      BY <1>1 DEF OtherRequest
    <2>2. /\ Len(jobRows) < MaxJobs /\ UNCHANGED <<branchHead, inFlight, indexed, lastCommit>>
          /\ excused \in BOOLEAN
      BY <1>1 DEF OtherRequest, indexVars, MergeIInv
    <2>3. /\ jobRows' \in Seq(JobRow)' /\ Len(jobRows') = Len(jobRows) + 1
          /\ This'.status = "queued" /\ This'.commit = c
          /\ Active' /\ RequestedTreeIsRead'
      BY <2>1, <2>2, RowAppended
    <2>4. ~excused' => ~excused /\ c \in {Unpinned, branchHead}
      BY <2>1, <2>2
    <2>5. ~excused' => JobBringsHead'
      BY <2>2, <2>3, <2>4 DEF JobBringsHead, Unpinned
    <2>6. NothingMissed'
      BY <2>2, <2>3, <2>4, <2>5 DEF MergeIInv, NothingMissed, HeadOnItsWay, Mixed
    <2>7. Len(jobRows') <= MaxJobs /\ excused' \in BOOLEAN
      BY <2>1, <2>2, <2>3, NewestRow, MergeAssumption
    <2> QED BY <2>2, <2>3, <2>6, <2>7, SameHead DEF MergeIInv
  <1>2. CASE RepositoryDeleted
    <2>1. /\ UNCHANGED <<branchHead, inFlight>> /\ excused' = TRUE
          /\ indexed' = Unpinned /\ lastCommit' = Unpinned
      BY <1>2 DEF RepositoryDeleted, Unpinned
    <2>2. /\ jobRows \in Seq(JobRow)
          /\ jobRows' = [j \in DOMAIN jobRows |->
                          [commit |-> jobRows[j].commit, status |-> "removed",
                           tree |-> jobRows[j].tree]]
      BY <1>2 DEF RepositoryDeleted, MergeIInv
    <2>3. \A j \in DOMAIN jobRows : jobRows'[j] \in JobRow /\ jobRows'[j].status = "removed"
      <3> SUFFICES ASSUME NEW j \in DOMAIN jobRows
                   PROVE  jobRows'[j] \in JobRow /\ jobRows'[j].status = "removed"
        OBVIOUS
      <3>1. jobRows[j] \in JobRow
        BY <2>2
      <3>2. jobRows'[j] = [commit |-> jobRows[j].commit, status |-> "removed",
                           tree |-> jobRows[j].tree]
        BY <2>2
      <3> QED BY <3>1, <3>2 DEF JobRow, Statuses
    <2>4. jobRows' \in Seq(JobRow) /\ Len(jobRows') = Len(jobRows)
      BY <2>2, <2>3
    <2>5. jobRows' \in Seq(JobRow)'
      BY <2>1, <2>4 DEF JobRow, TreesNow, Statuses
    <2>6. RequestedTreeIsRead' /\ NothingMissed' /\ Len(jobRows') <= MaxJobs
      BY <2>1, <2>2, <2>3, <2>4
         DEF RequestedTreeIsRead, NothingMissed, MergeIInv, MergeTypeOK
    <2>7. Unpinned \in TreesNow
      BY DEF TreesNow
    <2> QED BY <2>1, <2>5, <2>6, <2>7, SameHead DEF MergeIInv
  <1> QED BY <1>1, <1>2

(* No merge, no job. *)
LEMMA MergeStarts == MergeInit => MergeIInv
  <1> SUFFICES ASSUME MergeInit
               PROVE  MergeIInv
    OBVIOUS
  <1>1. MergeTypeOK
    BY MergeAssumption DEF MergeInit, MergeTypeOK, Elsewhere, Mixed
  <1> QED BY <1>1 DEF MergeInit, MergeIInv, TreesNow, Unpinned, NamesItsMerge,
                      RequestedTreeIsRead, NothingMissed

(* Every step of the webhook and of its ingests keeps the invariant. *)
LEMMA MergeStepKeeps == MergeIInv /\ [MergeNext]_mergeVars => MergeIInv'
  <1> SUFFICES ASSUME MergeIInv, [MergeNext]_mergeVars
               PROVE  MergeIInv'
    OBVIOUS
  <1>1. CASE UNCHANGED mergeVars
    <2>1. UNCHANGED <<branchHead, inFlight, jobRows, indexed, lastCommit, excused>>
      BY <1>1 DEF mergeVars
    <2>2. jobRows' \in Seq(JobRow)' /\ Len(jobRows') <= MaxJobs /\ RequestedTreeIsRead'
      BY <2>1 DEF MergeIInv, MergeTypeOK, JobRow, TreesNow, RequestedTreeIsRead
    <2>3. NothingMissed'
      BY <2>1 DEF MergeIInv, NothingMissed, HeadOnItsWay, JobBringsHead, Active, This
    <2> QED BY <2>1, <2>2, <2>3, SameHead DEF MergeIInv
  <1> QED BY <1>1, MergeKeeps, EventKeeps, CloneKeeps, FailureKeeps, IngestEndsKeeps,
             ClientsKeep DEF MergeNext

(* The inductive invariant of the way from a merge to the index holds for any number of
   merges, events, jobs and failures. *)
THEOREM MergeInvariance == MergeSpec => []MergeIInv
  BY MergeStarts, MergeStepKeeps, PTL DEF MergeSpec

(* The webhook and its ingests honour merges: a job that was asked for a commit reads the
   tree of that commit, and an index that is behind when all is at rest has a cause. *)
THEOREM MergesHold == MergeSpec => []MergesAreHonoured
  <1>1. ASSUME MergeIInv
        PROVE  MergesAreHonoured
    BY <1>1 DEF MergeIInv, NothingMissed, HeadOnItsWay, MissesHaveACause, MergesAreHonoured
  <1> QED BY <1>1, MergeInvariance, PTL

-----------------------------------------------------------------------------
(* Among numbers there is a smallest. *)
LEMMA Smallest ==
  ASSUME NEW T \in SUBSET Nat, T # {}
  PROVE  \E x \in T : \A y \in T : x <= y
  <1>1. PICK x \in T : \A y \in T : ~(<<y, x>> \in OpToRel(<, Nat))
    BY NatLessThanWellFounded, WFMin, Zenon
  <1>2. \A y \in T : ~(y < x)
    <2> SUFFICES ASSUME NEW y \in T, y < x PROVE FALSE
      OBVIOUS
    <2>1. <<y, x>> \in Nat \X Nat /\ <<y, x>>[1] = y /\ <<y, x>>[2] = x
      OBVIOUS
    <2>2. <<y, x>> \in OpToRel(<, Nat)
      BY <2>1 DEF OpToRel
    <2> QED BY <1>1, <2>2
  <1> QED BY <1>2

(* So what holds of 0, and of n + 1 with n, holds of every number. *)
LEMMA Induction ==
  ASSUME NEW H \in SUBSET Nat, 0 \in H, \A n \in H : n + 1 \in H
  PROVE  H = Nat
  <1> SUFFICES ASSUME H # Nat PROVE FALSE
    OBVIOUS
  <1>1. PICK x \in Nat \ H : \A y \in Nat \ H : x <= y
    <2>1. Nat \ H \in SUBSET Nat /\ Nat \ H # {}
      OBVIOUS
    <2> QED BY <2>1, Smallest, Zenon
  <1>2. x # 0 /\ x - 1 \in Nat /\ ~(x <= x - 1)
    BY <1>1
  <1>3. x - 1 \in H
    BY <1>1, <1>2
  <1> QED BY <1>1, <1>2, <1>3

-------------------------------------------------------------------------------
(* The two ways the loop goes on. *)
Upward(w, m)   == [w EXCEPT !.low = m + 1, !.best = m]
Downward(w, m) == [w EXCEPT !.high = m - 1]

LEMMA BoundsMove ==
  ASSUME NEW upper \in Nat, NEW w \in Window(upper), NEW m \in 1 .. upper
  PROVE  /\ Upward(w, m) \in Window(upper)
         /\ Upward(w, m).low = m + 1 /\ Upward(w, m).high = w.high /\ Upward(w, m).best = m
         /\ Downward(w, m) \in Window(upper)
         /\ Downward(w, m).low = w.low /\ Downward(w, m).high = m - 1
         /\ Downward(w, m).best = w.best
  <1>1. w \in [low : 1 .. upper + 1, high : 0 .. upper, best : 1 .. upper]
    BY DEF Window
  <1>2. m + 1 \in 1 .. upper + 1 /\ m - 1 \in 0 .. upper
    OBVIOUS
  <1> DEFINE k == m + 1
             j == m - 1
  <1> HIDE DEF k, j
  <1>3. k \in 1 .. upper + 1 /\ j \in 0 .. upper
    BY <1>2 DEF k, j
  <1>4. LET up == [w EXCEPT !.low = k, !.best = m]
        IN  /\ up \in [low : 1 .. upper + 1, high : 0 .. upper, best : 1 .. upper]
            /\ up.low = k /\ up.high = w.high /\ up.best = m
    BY <1>1, <1>3
  <1>5. LET down == [w EXCEPT !.high = j]
        IN  /\ down \in [low : 1 .. upper + 1, high : 0 .. upper, best : 1 .. upper]
            /\ down.low = w.low /\ down.high = j /\ down.best = w.best
    BY <1>1, <1>3
  <1> QED BY <1>4, <1>5 DEF k, j, Window, Upward, Downward

(* The loop of the bisection comes to an end with a batch that is sent alone or fits, and
   with the largest one that fits, as long as less fits with it. *)
LEMMA BisectFinds ==
  ASSUME NEW start \in Nat, NEW upper \in Nat, upper >= 1,
         \A m, n \in 1 .. upper : m <= n /\ Fits(start, n) => Fits(start, m)
  PROVE  LET r == Bisect(start, upper)
         IN  /\ r \in 1 .. upper
             /\ r = 1 \/ Fits(start, r)
             /\ \A n \in 1 .. upper : Fits(start, n) => n <= r
  <1> DEFINE W == Window(upper)
             Mid(w) == (w.low + w.high) \div 2
             Onward(w) == IF Fits(start, Mid(w)) THEN Upward(w, Mid(w))
                                                ELSE Downward(w, Mid(w))
             Value(g, w) == IF w.low > w.high THEN w.best ELSE g[Onward(w)]
             Size(w) == w.high + 1 - w.low
             search == CHOOSE g : g = [w \in W |-> Value(g, w)]
  <1>1. ASSUME NEW w \in W, ~(w.low > w.high)
        PROVE  /\ Mid(w) \in 1 .. upper /\ w.low <= Mid(w) /\ Mid(w) <= w.high
               /\ Onward(w) \in W /\ Size(Onward(w)) < Size(w)
               /\ Size(w) \in Nat /\ Size(w) <= upper
    <2>1. /\ w.low \in 1 .. upper + 1 /\ w.high \in 0 .. upper /\ w.best \in 1 .. upper
      BY <1>1 DEF Window
    <2>2. Mid(w) \in Int /\ w.low <= Mid(w) /\ Mid(w) <= w.high
      BY <1>1, <2>1
    <2> HIDE DEF Mid
    <2>3. Mid(w) \in 1 .. upper
      BY <2>1, <2>2
    <2>4. /\ Onward(w) \in W
          /\ \/ Onward(w).low = Mid(w) + 1 /\ Onward(w).high = w.high
             \/ Onward(w).low = w.low /\ Onward(w).high = Mid(w) - 1
      BY <2>3, BoundsMove, ZenonT(60)
    <2> HIDE DEF Onward
    <2> QED BY <1>1, <2>1, <2>2, <2>3, <2>4
  <1> HIDE DEF Onward
  <1>2. \E g : g = [w \in W |-> Value(g, w)]
    <2> DEFINE H == {k \in Nat : \E g \in [W -> Nat] :
                        \A w \in W : Size(w) <= k => g[w] = Value(g, w)}
    <2>1. 0 \in H
      <3> DEFINE g == [w \in W |-> w.best]
      <3>1. g \in [W -> Nat]
        BY DEF Window
      <3>2. \A w \in W : Size(w) <= 0 => g[w] = Value(g, w)
        BY DEF Window
      <3> QED BY <3>1, <3>2
    <2>2. ASSUME NEW k \in H PROVE k + 1 \in H
      <3>1. PICK g \in [W -> Nat] : \A w \in W : Size(w) <= k => g[w] = Value(g, w)
        OBVIOUS
      <3> DEFINE f == [w \in W |-> Value(g, w)]
      <3>2. f \in [W -> Nat]
        <4> SUFFICES ASSUME NEW w \in W PROVE Value(g, w) \in Nat
          OBVIOUS
        <4>1. w.best \in Nat
          BY DEF Window
        <4>2. CASE ~(w.low > w.high)
          <5>1. Onward(w) \in W
            BY <1>1, <4>2
          <5> QED BY <4>2, <5>1
        <4> QED BY <4>1, <4>2
      <3>3. ASSUME NEW w \in W, Size(w) <= k + 1
            PROVE  f[w] = Value(f, w)
        <4>1. CASE w.low > w.high
          BY <4>1
        <4>2. CASE ~(w.low > w.high)
          <5>1. Onward(w) \in W /\ Size(Onward(w)) <= k
            <6>1. /\ Size(Onward(w)) \in Int /\ Onward(w) \in W
                  /\ Size(Onward(w)) < Size(w) /\ Size(w) \in Nat
              BY <1>1, <4>2 DEF Window
            <6> HIDE DEF Size
            <6> QED BY <3>3, <6>1
          <5>2. f[Onward(w)] = Value(g, Onward(w)) /\ g[Onward(w)] = Value(g, Onward(w))
            BY <3>1, <5>1
          <5> QED BY <4>2, <5>2
        <4> QED BY <4>1, <4>2
      <3> HIDE DEF f
      <3> QED BY <3>2, <3>3
    <2>3. upper \in H
      <3> HIDE DEF H
      <3>1. H \in SUBSET Nat
        BY DEF H
      <3> QED BY <2>1, <2>2, <3>1, Induction
    <2>4. PICK g \in [W -> Nat] : \A w \in W : Size(w) <= upper => g[w] = Value(g, w)
      BY <2>3
    <2>5. \A w \in W : Size(w) <= upper
      BY DEF Window
    <2>6. g = [w \in W |-> Value(g, w)]
      BY <2>4, <2>5
    <2> QED BY <2>6
  <1>3. search = [w \in W |-> Value(search, w)]
    BY <1>2
  <1>4. Bisect(start, upper) = search[[low |-> 1, high |-> upper, best |-> 1]]
    BY DEF Bisect, Onward, Upward, Downward
  <1> HIDE DEF search
  <1>5. \A w \in W : search[w] = Value(search, w)
    BY <1>3
  <1> DEFINE Good(w) == /\ w.best <= w.low /\ (w.best = 1 \/ Fits(start, w.best))
                        /\ \A n \in 1 .. upper : Fits(start, n) =>
                              n <= w.best \/ (w.low <= n /\ n <= w.high)
             Found(r) == /\ r \in 1 .. upper /\ (r = 1 \/ Fits(start, r))
                         /\ \A n \in 1 .. upper : Fits(start, n) => n <= r
             K == {k \in Nat : \A w \in W : Size(w) <= k /\ Good(w) => Found(search[w])}
  <1>6. ASSUME NEW w \in W, Good(w), w.low > w.high
        PROVE  Found(search[w])
    <2>1. search[w] = w.best /\ w.best \in 1 .. upper
      BY <1>5, <1>6 DEF Window
    <2> QED BY <1>6, <2>1 DEF Window
  <1>7. ASSUME NEW w \in W, Good(w), ~(w.low > w.high)
        PROVE  Good(Onward(w)) /\ search[w] = search[Onward(w)]
    <2>1. /\ w.low \in 1 .. upper + 1 /\ w.high \in 0 .. upper /\ w.best \in 1 .. upper
      BY DEF Window
    <2>2. Mid(w) \in 1 .. upper /\ w.low <= Mid(w) /\ Mid(w) <= w.high
      BY <1>1, <1>7
    <2>3. search[w] = search[Onward(w)]
      BY <1>5, <1>7
    <2> HIDE DEF Mid
    <2>4. w \in Window(upper) /\ Mid(w) \in 1 .. upper
      BY <2>2
    <2>5. CASE Fits(start, Mid(w))
      <3>1a. /\ Upward(w, Mid(w)).low = Mid(w) + 1 /\ Upward(w, Mid(w)).high = w.high
            /\ Upward(w, Mid(w)).best = Mid(w)
        BY <2>4, BoundsMove, ZenonT(60)
      <3>0. Onward(w) = Upward(w, Mid(w))
        BY <2>5 DEF Onward
      <3>1. Onward(w).low = Mid(w) + 1 /\ Onward(w).high = w.high /\ Onward(w).best = Mid(w)
        BY <3>0, <3>1a
      <3> QED BY <1>7, <2>1, <2>2, <2>3, <2>5, <3>1
    <2>6. CASE ~Fits(start, Mid(w))
      <3>1a. /\ Downward(w, Mid(w)).low = w.low /\ Downward(w, Mid(w)).high = Mid(w) - 1
            /\ Downward(w, Mid(w)).best = w.best
        BY <2>4, BoundsMove, ZenonT(60)
      <3>0. Onward(w) = Downward(w, Mid(w))
        BY <2>6 DEF Onward
      <3>1. Onward(w).low = w.low /\ Onward(w).high = Mid(w) - 1 /\ Onward(w).best = w.best
        BY <3>0, <3>1a
      <3>2. \A n \in 1 .. upper : Fits(start, n) => ~(Mid(w) <= n)
        BY <2>2, <2>6
      <3> QED BY <1>7, <2>1, <2>2, <2>3, <3>1, <3>2
    <2> QED BY <2>5, <2>6
  <1> HIDE DEF Good, Found
  <1>8. 0 \in K
    <2> SUFFICES ASSUME NEW w \in W, Size(w) <= 0, Good(w) PROVE Found(search[w])
      OBVIOUS
    <2>1. w.low > w.high
      BY DEF Window
    <2> QED BY <1>6, <2>1
  <1>9. ASSUME NEW k \in K PROVE k + 1 \in K
    <2> SUFFICES ASSUME NEW w \in W, Size(w) <= k + 1, Good(w) PROVE Found(search[w])
      OBVIOUS
    <2>1. CASE w.low > w.high
      BY <1>6, <2>1
    <2>2. CASE ~(w.low > w.high)
      <3>1. Onward(w) \in W /\ Size(Onward(w)) <= k
        <4>1. /\ Size(Onward(w)) \in Int /\ Onward(w) \in W
              /\ Size(Onward(w)) < Size(w) /\ Size(w) \in Nat
          BY <1>1, <2>2 DEF Window
        <4> HIDE DEF Size
        <4> QED BY <4>1
      <3>2. Good(Onward(w)) /\ search[w] = search[Onward(w)]
        BY <1>7, <2>2
      <3> QED BY <3>1, <3>2
    <2> QED BY <2>1, <2>2
  <1>10. upper \in K
    <2> HIDE DEF K
    <2>1. K \in SUBSET Nat
      BY DEF K
    <2> QED BY <1>8, <1>9, <2>1, Induction
  <1> DEFINE first == [low |-> 1, high |-> upper, best |-> 1]
  <1>11. first \in W /\ Size(first) <= upper /\ Good(first)
    BY DEF Window, Good
  <1>12. Found(search[first])
    BY <1>10, <1>11
  <1> QED BY <1>4, <1>12 DEF Found

(* The sizes of documents that follow each other add up. *)
LEMMA BytesAdd ==
  ASSUME sizes \in Seq(Nat), NEW from \in Nat, from >= 1
  PROVE  /\ \A i \in 0 .. Total : Bytes(from, i) \in Nat
         /\ \A i \in 1 .. Total : Bytes(from, i - 1) <= Bytes(from, i)
  <1> DEFINE D == 0 .. Total
             Value(g, i) == IF i < from THEN 0 ELSE sizes[i] + g[i - 1]
             sum == CHOOSE g : g = [i \in D |-> Value(g, i)]
  <1>1. Total \in Nat /\ \A i \in 1 .. Total : sizes[i] \in Nat
    BY DEF Total
  <1> HIDE DEF Total
  <1>2. \E g : g = [i \in D |-> Value(g, i)]
    <2> DEFINE H == {k \in Nat : \E g \in [D -> Nat] :
                        \A i \in D : i <= k => g[i] = Value(g, i)}
    <2>1. 0 \in H
      <3> DEFINE g == [i \in D |-> 0]
      <3>1. g \in [D -> Nat] /\ \A i \in D : i <= 0 => g[i] = Value(g, i)
        BY <1>1
      <3> QED BY <3>1
    <2>2. ASSUME NEW k \in H PROVE k + 1 \in H
      <3>1. PICK g \in [D -> Nat] : \A i \in D : i <= k => g[i] = Value(g, i)
        OBVIOUS
      <3> DEFINE f == [i \in D |-> Value(g, i)]
      <3>2. ASSUME NEW i \in D PROVE Value(g, i) \in Nat
        BY <1>1, SMTT(30)
      <3>3. ASSUME NEW i \in D, i <= k + 1 PROVE f[i] = Value(f, i)
        <4>1. CASE i < from
          BY <4>1
        <4>2. CASE ~(i < from)
          <5>1. i - 1 \in D /\ i - 1 <= k
            BY <1>1, <3>3, <4>2
          <5>2. f[i - 1] = g[i - 1]
            BY <3>1, <5>1
          <5> QED BY <4>2, <5>2
        <4> QED BY <4>1, <4>2
      <3>4. f \in [D -> Nat]
        BY <3>2
      <3> HIDE DEF f
      <3>5. \E e \in [D -> Nat] : \A i \in D : i <= k + 1 => e[i] = Value(e, i)
        BY <3>3, <3>4
      <3>6. k + 1 \in Nat
        OBVIOUS
      <3> HIDE DEF Value
      <3> QED BY <3>5, <3>6, Zenon
    <2>3. Total \in H
      <3> HIDE DEF H
      <3>1. H \in SUBSET Nat
        BY DEF H
      <3> QED BY <1>1, <2>1, <2>2, <3>1, Induction
    <2>4. PICK g \in [D -> Nat] : \A i \in D : i <= Total => g[i] = Value(g, i)
      BY <2>3
    <2>5. g = [i \in D |-> Value(g, i)]
      BY <1>1, <2>4
    <2> QED BY <2>5
  <1>3. sum = [i \in D |-> Value(sum, i)]
    BY <1>2
  <1>4. \A i : Bytes(from, i) = sum[i]
    BY DEF Bytes
  <1> HIDE DEF sum
  <1>5. \A i \in D : sum[i] = Value(sum, i)
    BY <1>3
  <1>6. \A i \in D : sum[i] \in Nat
    <2> DEFINE K == {k \in Nat : k \in D => sum[k] \in Nat}
    <2>1. 0 \in K
      BY <1>1, <1>5
    <2>2. ASSUME NEW k \in K PROVE k + 1 \in K
      <3> SUFFICES ASSUME k + 1 \in D PROVE sum[k + 1] \in Nat
        OBVIOUS
      <3>1. k \in D /\ sum[k] \in Nat /\ sizes[k + 1] \in Nat /\ (k + 1) - 1 = k
        BY <1>1
      <3>2. sum[k + 1] = IF k + 1 < from THEN 0 ELSE sizes[k + 1] + sum[k]
        BY <1>5, <3>1
      <3> QED BY <3>1, <3>2
    <2> HIDE DEF K
    <2>3. K \in SUBSET Nat
      BY DEF K
    <2>4. K = Nat
      BY <2>1, <2>2, <2>3, Induction
    <2> QED BY <1>1, <2>4 DEF K
  <1>7. ASSUME NEW i \in 1 .. Total
        PROVE  sum[i - 1] <= sum[i]
    <2>1. i \in D /\ i - 1 \in D /\ sum[i] \in Nat /\ sum[i - 1] \in Nat /\ sizes[i] \in Nat
      BY <1>1, <1>6
    <2>2. CASE i < from
      <3>1. i - 1 < from
        BY <2>1, <2>2
      <3>2. sum[i - 1] = 0
        BY <1>5, <2>1, <3>1
      <3> QED BY <2>1, <3>2
    <2>3. CASE ~(i < from)
      <3>1. sum[i] = sizes[i] + sum[i - 1]
        BY <1>5, <2>1, <2>3
      <3> QED BY <2>1, <3>1
    <2> QED BY <2>2, <2>3
  <1> QED BY <1>1, <1>4, <1>6, <1>7

(* More documents are no fewer bytes. *)
LEMMA BytesGrow ==
  ASSUME sizes \in Seq(Nat), NEW from \in Nat, from >= 1,
         NEW m \in 0 .. Total, NEW n \in 0 .. Total, m <= n
  PROVE  Bytes(from, m) <= Bytes(from, n)
  <1> DEFINE K == {k \in Nat : m + k <= Total => Bytes(from, m) <= Bytes(from, m + k)}
  <1>1. Total \in Nat
    BY DEF Total
  <1>2. 0 \in K
    BY BytesAdd
  <1>3. ASSUME NEW k \in K PROVE k + 1 \in K
    <2> SUFFICES ASSUME m + (k + 1) <= Total
                 PROVE  Bytes(from, m) <= Bytes(from, m + (k + 1))
      OBVIOUS
    <2> DEFINE i == m + (k + 1)
    <2>1. i \in 1 .. Total /\ i - 1 = m + k /\ m + k \in 0 .. Total
      BY <1>1
    <2> HIDE DEF i
    <2>2. Bytes(from, m + k) <= Bytes(from, i)
      BY <2>1, BytesAdd
    <2>3. Bytes(from, m) <= Bytes(from, m + k)
      BY <2>1
    <2>4. Bytes(from, m) \in Nat /\ Bytes(from, m + k) \in Nat /\ Bytes(from, i) \in Nat
      BY <2>1, BytesAdd, <1>1
    <2> QED BY <2>2, <2>3, <2>4 DEF i
  <1> HIDE DEF K
  <1>4. K \in SUBSET Nat
    BY DEF K
  <1>5. n - m \in K /\ m + (n - m) = n
    <2>1. K = Nat
      BY <1>2, <1>3, <1>4, Induction
    <2> QED BY <1>1, <2>1
  <1> QED BY <1>1, <1>5 DEF K

(* One halving more reaches twice as far. *)
LEMMA ReachDoubles ==
  /\ \A d \in 0 .. MaxDepth : Reach[d] \in Nat
  /\ Reach[0] = MinBatch
  /\ \A d \in 1 .. MaxDepth : Reach[d] = 2 * Reach[d - 1]
  <1> DEFINE D == 0 .. MaxDepth
             Value(g, d) == IF d = 0 THEN MinBatch ELSE 2 * g[d - 1]
             reach == CHOOSE g : g = [d \in D |-> Value(g, d)]
  <1>1. MaxDepth \in Nat /\ MinBatch \in Nat
    BY UpsertAssumption
  <1>2. \E g : g = [d \in D |-> Value(g, d)]
    <2> DEFINE H == {k \in Nat : \E g \in [D -> Nat] :
                        \A d \in D : d <= k => g[d] = Value(g, d)}
    <2>1. 0 \in H
      <3> DEFINE g == [d \in D |-> MinBatch]
      <3>1. g \in [D -> Nat] /\ \A d \in D : d <= 0 => g[d] = Value(g, d)
        BY <1>1
      <3> QED BY <3>1
    <2>2. ASSUME NEW k \in H PROVE k + 1 \in H
      <3>1. PICK g \in [D -> Nat] : \A d \in D : d <= k => g[d] = Value(g, d)
        OBVIOUS
      <3> DEFINE f == [d \in D |-> Value(g, d)]
      <3>2. ASSUME NEW d \in D PROVE Value(g, d) \in Nat
        BY <1>1
      <3>3. ASSUME NEW d \in D, d <= k + 1 PROVE f[d] = Value(f, d)
        <4>1. CASE d = 0
          BY <4>1
        <4>2. CASE d # 0
          <5>1. d - 1 \in D /\ d - 1 <= k
            BY <1>1, <3>3, <4>2
          <5>2. f[d - 1] = g[d - 1]
            BY <3>1, <5>1
          <5> QED BY <4>2, <5>2
        <4> QED BY <4>1, <4>2
      <3>4. f \in [D -> Nat]
        BY <3>2
      <3> HIDE DEF f
      <3>5. \E e \in [D -> Nat] : \A d \in D : d <= k + 1 => e[d] = Value(e, d)
        BY <3>3, <3>4
      <3>6. k + 1 \in Nat
        OBVIOUS
      <3> HIDE DEF Value
      <3> QED BY <3>5, <3>6, Zenon
    <2>3. MaxDepth \in H
      <3> HIDE DEF H
      <3>1. H \in SUBSET Nat
        BY DEF H
      <3> QED BY <1>1, <2>1, <2>2, <3>1, Induction
    <2>4. PICK g \in [D -> Nat] : \A d \in D : d <= MaxDepth => g[d] = Value(g, d)
      BY <2>3
    <2>5. g = [d \in D |-> Value(g, d)]
      BY <1>1, <2>4
    <2> QED BY <2>5
  <1>3. reach = [d \in D |-> Value(reach, d)]
    BY <1>2
  <1>4. Reach = reach
    BY DEF Reach
  <1> HIDE DEF reach
  <1>5. \A d \in D : reach[d] = Value(reach, d)
    BY <1>3
  <1>6. \A d \in D : reach[d] \in Nat
    <2> DEFINE K == {k \in Nat : k \in D => reach[k] \in Nat}
    <2>1. 0 \in K
      BY <1>1, <1>5
    <2>2. ASSUME NEW k \in K PROVE k + 1 \in K
      <3> SUFFICES ASSUME k + 1 \in D PROVE reach[k + 1] \in Nat
        OBVIOUS
      <3>1. k \in D /\ reach[k] \in Nat /\ (k + 1) - 1 = k
        BY <1>1
      <3>2. reach[k + 1] = 2 * reach[k]
        BY <1>5, <3>1
      <3> QED BY <3>1, <3>2
    <2> HIDE DEF K
    <2>3. K \in SUBSET Nat
      BY DEF K
    <2>4. K = Nat
      BY <2>1, <2>2, <2>3, Induction
    <2> QED BY <1>1, <2>4 DEF K
  <1> QED BY <1>1, <1>4, <1>5, <1>6

(* A batch is never empty and ends with the documents. *)
LEMMA BatchIsReal ==
  ASSUME UpsertIInv, pos <= Total
  PROVE  /\ EffectiveBatch(pos) \in Nat /\ 1 <= EffectiveBatch(pos)
         /\ EffectiveBatch(pos) <= MaxBatch /\ pos + EffectiveBatch(pos) <= Total + 1
         /\ BisectionIsExact
  <1> DEFINE upper == Min({MaxBatch, Total - pos + 1})
             r == EffectiveBatch(pos)
  <1>1. /\ sizes \in Seq(Nat) /\ pos \in Nat /\ 1 <= pos /\ Total \in Nat
        /\ MaxBatch \in Nat /\ MaxBatch >= 1
    BY UpsertAssumption DEF UpsertIInv, Total
  <1>2. /\ upper \in Nat /\ upper >= 1 /\ upper <= MaxBatch /\ upper <= Total - pos + 1
    <2>1. \E m \in {MaxBatch, Total - pos + 1} : \A k \in {MaxBatch, Total - pos + 1} : m <= k
      BY <1>1
    <2>2. /\ upper \in {MaxBatch, Total - pos + 1}
          /\ \A k \in {MaxBatch, Total - pos + 1} : upper <= k
      BY <2>1 DEF Min
    <2> QED BY <1>1, <2>2
  <1> HIDE DEF upper
  <1>3. \A m, n \in 1 .. upper : m <= n /\ Fits(pos, n) => Fits(pos, m)
    <2> SUFFICES ASSUME NEW m \in 1 .. upper, NEW n \in 1 .. upper, m <= n, Fits(pos, n)
                 PROVE  Fits(pos, m)
      OBVIOUS
    <2> DEFINE mm == pos + m - 1
               nn == pos + n - 1
    <2>1. mm \in 0 .. Total /\ nn \in 0 .. Total /\ mm <= nn
      BY <1>1, <1>2
    <2> HIDE DEF mm, nn
    <2>2. Bytes(pos, mm) <= Bytes(pos, nn) /\ Bytes(pos, mm) \in Nat /\ Bytes(pos, nn) \in Nat
      BY <1>1, <2>1, BytesGrow, BytesAdd
    <2>3. Bytes(pos, nn) <= MaxRequest
      BY DEF Fits, nn
    <2>4. Bytes(pos, mm) <= MaxRequest
      BY <2>2, <2>3, UpsertAssumption
    <2> QED BY <2>4 DEF Fits, mm
  <1>4. /\ r \in 1 .. upper /\ (r = 1 \/ Fits(pos, r))
        /\ \A n \in 1 .. upper : Fits(pos, n) => n <= r
    <2>1. r = IF upper <= 1 \/ Fits(pos, upper) THEN upper ELSE Bisect(pos, upper)
      BY DEF EffectiveBatch, upper
    <2> HIDE DEF r
    <2>2. CASE upper <= 1 \/ Fits(pos, upper)
      BY <1>2, <2>1, <2>2
    <2>3. CASE ~(upper <= 1 \/ Fits(pos, upper))
      BY <1>1, <1>2, <1>3, <2>1, <2>3, BisectFinds
    <2> QED BY <2>2, <2>3
  <1>5. BisectionIsExact
    <2> DEFINE within == {n \in 1 .. upper : Fits(pos, n)}
    <2>1. CASE within = {}
      <3>1. r = 1
        BY <1>4, <2>1
      <3> QED BY <2>1, <3>1 DEF BisectionIsExact, upper
    <2>2. CASE within # {}
      <3>1. r \in within /\ \A n \in within : r >= n
        BY <1>2, <1>4, <2>2
      <3>2. Max(within) \in within /\ \A n \in within : Max(within) >= n
        BY <3>1 DEF Max
      <3>3. Max(within) = r
        BY <1>2, <3>1, <3>2
      <3> QED BY <2>2, <3>3 DEF BisectionIsExact, upper
    <2> QED BY <2>1, <2>2
  <1> HIDE DEF r
  <1>6. r \in Nat /\ 1 <= r /\ r <= MaxBatch /\ pos + r <= Total + 1
    BY <1>1, <1>2, <1>4
  <1> QED BY <1>5, <1>6 DEF r

(* Nothing is sent at first. *)
LEMMA UpsertInitIInv == UpsertInit => UpsertIInv
  <1> SUFFICES ASSUME UpsertInit
               PROVE  UpsertIInv
    OBVIOUS
  <1>1. /\ sizes \in Seq(Nat) /\ limit \in Nat /\ Total \in Nat /\ Len(todo) = 0
        /\ sizes = <<>> => Total = 0
    BY UpsertAssumption DEF UpsertInit, Total
  <1>2. metrics \in Counters /\ metrics.documents_written = 0
    BY DEF UpsertInit, NoMetrics, Counters
  <1>3. todo \in Seq(Segment) /\ SegmentsFollow /\ DepthBoundsLength
    BY <1>1 DEF UpsertInit, SegmentsFollow, DepthBoundsLength
  <1>4. SentIsStored
    <2>1. NextToSend = 1 /\ stored = 1 .. 0 /\ pos = 1
      BY DEF UpsertInit, NextToSend
    <2> QED BY <1>2, <2>1 DEF SentIsStored
  <1>5. upsertStatus \in {"running", "done"} /\ SizeIsNeverFatal
    BY DEF UpsertInit, SizeIsNeverFatal
  <1>6. upsertStatus = "done" => pos = Total + 1 /\ todo = <<>>
    BY <1>1 DEF UpsertInit
  <1>7. pos = 1
    BY DEF UpsertInit
  <1> QED BY <1>1, <1>2, <1>3, <1>4, <1>5, <1>6, <1>7 DEF UpsertIInv

(* While the call runs no size has ended it. *)
LEMMA RunningIsNotFatal ==
  ASSUME upsertStatus # "failed"
  PROVE  SizeIsNeverFatal
  BY DEF SizeIsNeverFatal

(* The next batch is the only segment on the stack. *)
LEMMA NextBatchKeeps ==
  ASSUME UpsertIInv, NextBatch
  PROVE  UpsertIInv'
  <1> DEFINE n == EffectiveBatch(pos)
             seg == [from |-> pos, to |-> pos + n - 1, depth |-> 0]
  <1>1. /\ upsertStatus = "running" /\ todo = <<>> /\ pos <= Total
        /\ todo' = <<seg>> /\ pos' = pos + n
        /\ UNCHANGED <<sizes, limit, stored, metrics, stale, retried, upsertStatus, resets, drops>>
    BY DEF NextBatch
  <1>2. n \in Nat /\ 1 <= n /\ n <= MaxBatch /\ pos + n <= Total + 1
    BY <1>1, BatchIsReal
  <1> HIDE DEF n
  <1>3. /\ pos \in Nat /\ 1 <= pos /\ Total \in Nat /\ Total' = Total /\ MaxDepth \in Nat
        /\ MaxBatch \in Nat
    BY <1>1, UpsertAssumption DEF UpsertIInv, Total
  <1>4. /\ seg.from = pos /\ seg.to = pos + n - 1 /\ seg.depth = 0 /\ seg \in Segment
    BY <1>2, <1>3 DEF Segment
  <1> HIDE DEF seg
  <1>5. Len(todo') = 1 /\ todo'[1] = seg /\ todo' # <<>> /\ todo' \in Seq(Segment)
    BY <1>1, <1>4
  <1>6. SegmentsFollow'
    BY <1>1, <1>2, <1>3, <1>4, <1>5 DEF SegmentsFollow
  <1>7. SentIsStored'
    <2>1. NextToSend = pos /\ NextToSend' = pos
      BY <1>1, <1>4, <1>5 DEF NextToSend
    <2>2. PICK c \in Nat : NextToSend - 1 <= c /\ c < pos /\ stored = 1 .. c
      BY DEF UpsertIInv, SentIsStored
    <2>3. metrics'.documents_written = NextToSend' - 1
      BY <1>1, <2>1 DEF UpsertIInv, SentIsStored
    <2>4. NextToSend' - 1 <= c /\ c < pos' /\ stored' = 1 .. c
      BY <1>1, <1>2, <1>3, <2>1, <2>2
    <2> QED BY <2>3, <2>4 DEF SentIsStored
  <1>8. DepthBoundsLength'
    <2> SUFFICES ASSUME MaxBatch <= Reach[MaxDepth]
                 PROVE  \A i \in 1 .. Len(todo') :
                           Length(todo'[i]) <= Reach[MaxDepth - todo'[i].depth]
      BY DEF DepthBoundsLength, Length, Reach
    <2>1. Length(seg) <= Reach[MaxDepth]
      BY <1>2, <1>3, <1>4, ReachDoubles DEF Length
    <2> QED BY <1>3, <1>4, <1>5, <2>1
  <1>9. SizeIsNeverFatal'
    BY <1>1 DEF SizeIsNeverFatal
  <1>10. pos' \in Nat /\ 1 <= pos' /\ pos' <= Total' + 1
    BY <1>1, <1>2, <1>3
  <1> QED BY <1>1, <1>5, <1>6, <1>7, <1>8, <1>9, <1>10 DEF UpsertIInv

(* What is at the head of the stack, and under it. *)
LEMMA HeadIs ==
  ASSUME UpsertIInv, todo # <<>>
  PROVE  /\ Head(todo) = todo[1] /\ Head(todo) \in Segment
         /\ Head(todo).from \in Nat /\ Head(todo).to \in Nat /\ Head(todo).depth \in 0 .. MaxDepth
         /\ 1 <= Head(todo).from /\ Head(todo).from <= Head(todo).to /\ Head(todo).to < pos
         /\ NextToSend = Head(todo).from
         /\ Len(todo) \in Nat /\ Len(todo) >= 1
         /\ Tail(todo) \in Seq(Segment) /\ Len(Tail(todo)) = Len(todo) - 1
         /\ \A i \in 1 .. Len(todo) - 1 : Tail(todo)[i] = todo[i + 1]
         /\ \A i \in 1 .. Len(todo) : todo[i] \in Segment
  <1>1. todo \in Seq(Segment) /\ Len(todo) \in Nat /\ Len(todo) >= 1 /\ SegmentsFollow
    BY DEF UpsertIInv
  <1>2. \A i \in 1 .. Len(todo) : todo[i] \in Segment
    BY <1>1
  <1>3. Head(todo) = todo[1] /\ 1 \in 1 .. Len(todo)
    BY <1>1
  <1>4. /\ Tail(todo) \in Seq(Segment) /\ Len(Tail(todo)) = Len(todo) - 1
        /\ \A i \in 1 .. Len(todo) - 1 : Tail(todo)[i] = todo[i + 1]
    BY <1>1
  <1>5. /\ todo[1].from \in Nat /\ todo[1].to \in Nat /\ todo[1].depth \in 0 .. MaxDepth
    BY <1>2, <1>3 DEF Segment
  <1>6. 1 <= todo[1].from /\ todo[1].from <= todo[1].to /\ todo[1].to < pos
    BY <1>1, <1>3 DEF SegmentsFollow
  <1> QED BY <1>1, <1>2, <1>3, <1>4, <1>5, <1>6 DEF NextToSend

(* A batch the server stores, once more or not, extends what it holds. *)
LEMMA StoringExtends ==
  ASSUME UpsertIInv, todo # <<>>
  PROVE  \E c \in Nat : /\ NextToSend - 1 <= c /\ Head(todo).to <= c /\ c < pos
                        /\ Added(Head(todo)) = 1 .. c
  <1> DEFINE a == Head(todo).from
             b == Head(todo).to
  <1>1. /\ a \in Nat /\ b \in Nat /\ 1 <= a /\ a <= b /\ b < pos /\ NextToSend = a
    BY HeadIs
  <1>2. Added(Head(todo)) = stored \union (a .. b)
    BY DEF Added
  <1>3. PICK c \in Nat : a - 1 <= c /\ c < pos /\ stored = 1 .. c
    BY <1>1 DEF UpsertIInv, SentIsStored
  <1> HIDE DEF a, b
  <1> DEFINE m == IF b <= c THEN c ELSE b
  <1>4. m \in Nat /\ a - 1 <= m /\ b <= m /\ m < pos
    BY <1>1, <1>3
  <1>5. (1 .. c) \union (a .. b) = 1 .. m
    BY <1>1, <1>3
  <1>6. Added(Head(todo)) = 1 .. m
    BY <1>2, <1>3, <1>5
  <1> QED BY <1>1, <1>4, <1>6 DEF b

(* The server takes the head of the stack. *)
LEMMA AcceptedKeeps ==
  ASSUME UpsertIInv, Accepted
  PROVE  UpsertIInv'
  <1> DEFINE seg == Head(todo)
  <1>1. /\ upsertStatus = "running" /\ todo # <<>> /\ stored' = Added(seg)
        /\ metrics' = [metrics EXCEPT !.documents_written = @ + Length(seg)]
        /\ todo' = Tail(todo)
        /\ upsertStatus' = IF Tail(todo) = <<>> /\ pos > Total THEN "done" ELSE "running"
        /\ UNCHANGED <<sizes, limit, pos, stale, retried, resets, drops>>
    BY DEF Accepted, Sending
  <1>2. /\ seg = todo[1] /\ seg \in Segment /\ seg.from \in Nat /\ seg.to \in Nat
        /\ 1 <= seg.from /\ seg.from <= seg.to /\ seg.to < pos /\ NextToSend = seg.from
        /\ Len(todo) \in Nat /\ Len(todo) >= 1 /\ todo' \in Seq(Segment)
        /\ Len(todo') = Len(todo) - 1 /\ \A i \in 1 .. Len(todo) - 1 : todo'[i] = todo[i + 1]
    BY <1>1, HeadIs
  <1>3. Total \in Nat /\ Total' = Total /\ pos \in Nat /\ pos <= Total + 1
    BY <1>1 DEF UpsertIInv, Total
  <1> HIDE DEF seg
  <1>4. SegmentsFollow'
    <2>1. ASSUME NEW i \in 1 .. Len(todo')
          PROVE  1 <= todo'[i].from /\ todo'[i].from <= todo'[i].to /\ todo'[i].to < pos'
      BY <1>1, <1>2, SMTT(30) DEF UpsertIInv, SegmentsFollow
    <2>2. ASSUME NEW i \in 1 .. Len(todo') - 1
          PROVE  todo'[i + 1].from = todo'[i].to + 1
      <3>1. /\ todo'[i] = todo[i + 1] /\ todo'[i + 1] = todo[(i + 1) + 1]
            /\ i + 1 \in 1 .. Len(todo) - 1
        BY <1>2
      <3> QED BY <3>1 DEF UpsertIInv, SegmentsFollow
    <2>3. ASSUME todo' # <<>> PROVE todo'[Len(todo')].to = pos' - 1
      <3>1. Len(todo') >= 1
        BY <1>2, <2>3
      <3>2. todo'[Len(todo')] = todo[Len(todo)] /\ todo # <<>>
        BY <1>1, <1>2, <3>1
      <3> QED BY <1>1, <3>2 DEF UpsertIInv, SegmentsFollow
    <2> QED BY <2>1, <2>2, <2>3 DEF SegmentsFollow
  <1>5. NextToSend' = seg.to + 1
    <2>1. CASE todo' = <<>>
      <3>0. Len(todo') = 0
        BY <2>1
      <3>1. Len(todo) = 1 /\ todo # <<>>
        BY <1>1, <1>2, <3>0
      <3>2. seg.to = pos - 1
        BY <1>2, <3>1 DEF UpsertIInv, SegmentsFollow
      <3>3. NextToSend' = pos
        BY <1>1, <2>1 DEF NextToSend
      <3> QED BY <1>2, <1>3, <3>2, <3>3
    <2>2. CASE todo' # <<>>
      <3>1. Len(todo) >= 2
        BY <1>2, <2>2
      <3>2. todo'[1] = todo[2] /\ todo[2].from = todo[1].to + 1
        BY <1>2, <3>1 DEF UpsertIInv, SegmentsFollow
      <3> QED BY <1>2, <2>2, <3>2 DEF NextToSend
    <2> QED BY <2>1, <2>2
  <1>6. metrics' \in Counters /\ metrics'.documents_written = seg.to
    <2>1. metrics \in Counters /\ metrics.documents_written = seg.from - 1
      BY <1>2 DEF UpsertIInv, SentIsStored
    <2>2. Length(seg) \in Nat /\ metrics.documents_written + Length(seg) = seg.to
      BY <1>2, <2>1 DEF Length
    <2> QED BY <1>1, <1>2, <2>1, <2>2 DEF Counters
  <1>7. SentIsStored'
    <2>1. PICK c \in Nat : seg.to <= c /\ c < pos /\ stored' = 1 .. c
      BY <1>1, StoringExtends DEF seg
    <2>2. /\ pos' = pos /\ seg.to \in Nat /\ NextToSend' = seg.to + 1
          /\ metrics'.documents_written = seg.to
      BY <1>1, <1>2, <1>5, <1>6
    <2>3. NextToSend' - 1 = seg.to
      BY <2>2
    <2>4. NextToSend' - 1 <= c /\ c < pos' /\ metrics'.documents_written = NextToSend' - 1
      BY <2>1, <2>2, <2>3
    <2> QED BY <2>1, <2>4 DEF SentIsStored
  <1>8. DepthBoundsLength'
    <2> SUFFICES ASSUME MaxBatch <= Reach[MaxDepth], NEW i \in 1 .. Len(todo')
                 PROVE  Length(todo'[i]) <= Reach[MaxDepth - todo'[i].depth]
      BY DEF DepthBoundsLength, Length, Reach
    <2>1. todo'[i] = todo[i + 1] /\ i + 1 \in 1 .. Len(todo)
      BY <1>2
    <2> QED BY <2>1 DEF UpsertIInv, DepthBoundsLength
  <1>9. upsertStatus' \in {"running", "done"} /\ SizeIsNeverFatal'
    BY <1>1 DEF SizeIsNeverFatal
  <1>10. upsertStatus' = "done" => pos' = Total' + 1 /\ todo' = <<>>
    BY <1>1, <1>3
  <1> QED
    BY <1>1, <1>2, <1>3, <1>4, <1>6, <1>7, <1>8, <1>9, <1>10 DEF UpsertIInv

(* The two halves of a segment stand where it stood, and are half as long. *)
LEMMA SplitKeeps ==
  ASSUME UpsertIInv, todo # <<>>, MaySplit(Head(todo)),
         todo' = Split(Head(todo)) \o Tail(todo), pos' = pos
  PROVE  /\ todo' \in Seq(Segment) /\ todo' # <<>> /\ SegmentsFollow'
         /\ NextToSend' = NextToSend /\ DepthBoundsLength'
  <1> DEFINE seg == Head(todo)
             half == Length(seg) \div 2
             left == [from |-> seg.from, to |-> seg.from + half - 1, depth |-> seg.depth + 1]
             right == [from |-> seg.from + half, to |-> seg.to, depth |-> seg.depth + 1]
  <1>1. /\ seg = todo[1] /\ seg \in Segment /\ seg.from \in Nat /\ seg.to \in Nat
        /\ 1 <= seg.from /\ seg.from <= seg.to /\ seg.to < pos /\ NextToSend = seg.from
        /\ seg.depth \in 0 .. MaxDepth
        /\ Len(todo) \in Nat /\ Len(todo) >= 1 /\ Tail(todo) \in Seq(Segment)
        /\ Len(Tail(todo)) = Len(todo) - 1
        /\ \A i \in 1 .. Len(todo) - 1 : Tail(todo)[i] = todo[i + 1]
        /\ \A i \in 1 .. Len(todo) : todo[i] \in Segment
    BY HeadIs
  <1>2. /\ Length(seg) > MinBatch /\ seg.depth < MaxDepth
        /\ MinBatch \in Nat /\ MinBatch >= 1 /\ MaxDepth \in Nat
    BY UpsertAssumption DEF MaySplit
  <1>3. /\ Length(seg) \in Nat /\ Length(seg) = seg.to - seg.from + 1 /\ Length(seg) >= 2
    BY <1>1, <1>2 DEF Length
  <1>4. half \in Nat /\ half >= 1 /\ half < Length(seg) /\ 2 * half <= Length(seg)
        /\ Length(seg) <= 2 * half + 1
    BY <1>3
  <1>5. Split(seg) = <<left, right>>
    <2>1. Max({1, half}) = half
      <3>1. \E m \in {1, half} : \A k \in {1, half} : m >= k
        BY <1>4
      <3>2. Max({1, half}) \in {1, half} /\ \A k \in {1, half} : Max({1, half}) >= k
        BY <3>1 DEF Max
      <3> QED BY <1>4, <3>2
    <2> QED BY <2>1 DEF Split
  <1>6. pos \in Nat
    BY DEF UpsertIInv
  <1>5b. todo' = <<left, right>> \o Tail(todo)
    BY <1>5
  <1>5c. /\ seg.from \in Nat /\ seg.to \in Nat /\ seg.depth \in 0 .. MaxDepth
        /\ 1 <= seg.from /\ seg.from <= seg.to /\ seg.to < pos
    BY <1>1
  <1> HIDE DEF seg, half
  <1>5a. /\ left.from = seg.from /\ left.to = seg.from + half - 1 /\ left.depth = seg.depth + 1
        /\ right.from = seg.from + half /\ right.to = seg.to /\ right.depth = seg.depth + 1
        /\ left \in Segment /\ right \in Segment
    <2>1. /\ seg.from + half - 1 \in Nat /\ seg.from + half \in Nat
          /\ seg.depth + 1 \in 0 .. MaxDepth
      <3> HIDE DEF left, right
      <3>1. seg.from \in Nat /\ half \in Nat /\ half >= 1
        BY <1>4, <1>5c
      <3>2. seg.from + half - 1 \in Nat /\ seg.from + half \in Nat
        BY <3>1
      <3>3. seg.depth \in 0 .. MaxDepth /\ seg.depth < MaxDepth /\ MaxDepth \in Nat
        BY <1>2, <1>5c
      <3>4. seg.depth + 1 \in 0 .. MaxDepth
        BY <3>3
      <3> QED BY <3>2, <3>4
    <2> QED BY <1>5c, <2>1 DEF Segment
  <1> HIDE DEF left, right
  <1>5d. /\ left.from \in Nat /\ left.to \in Nat /\ right.from \in Nat /\ right.to \in Nat
        /\ 1 <= left.from /\ left.from <= left.to /\ left.to < pos
        /\ 1 <= right.from /\ right.from <= right.to /\ right.to < pos
        /\ right.from = left.to + 1 /\ right.to = seg.to
        /\ Length(left) = half /\ Length(right) = Length(seg) - half
    <2>1. /\ left.from = seg.from /\ left.to = seg.from + half - 1
          /\ right.from = seg.from + half /\ right.to = seg.to
      BY <1>5a
    <2>2. /\ Length(seg) \in Nat /\ Length(seg) = seg.to - seg.from + 1
          /\ half \in Nat /\ half >= 1 /\ half < Length(seg)
      BY <1>3, <1>4
    <2>3. /\ left.from \in Nat /\ left.to \in Nat
          /\ 1 <= left.from /\ left.from <= left.to /\ left.to < pos
      BY <1>5c, <1>6, <2>1, <2>2, SMTT(30)
    <2>4. /\ right.from \in Nat /\ right.to \in Nat
          /\ 1 <= right.from /\ right.from <= right.to /\ right.to < pos
          /\ right.from = left.to + 1
      BY <1>5c, <1>6, <2>1, <2>2, SMTT(30)
    <2>5. Length(left) = half
      BY <1>5c, <2>1, <2>2 DEF Length
    <2>6. Length(right) = Length(seg) - half
      <3>1. Length(right) = seg.to - (seg.from + half) + 1
        BY <2>1 DEF Length
      <3> QED BY <1>5c, <2>2, <3>1
    <2> QED BY <2>1, <2>3, <2>4, <2>5, <2>6
  <1>7. /\ todo' \in Seq(Segment) /\ Len(todo') = Len(todo) + 1
        /\ todo'[1] = left /\ todo'[2] = right
        /\ \A i \in 3 .. Len(todo') : todo'[i] = todo[i - 1]
    <2>1. <<left, right>> \in Seq(Segment) /\ Len(<<left, right>>) = 2
      BY <1>5a
    <2>2. Len(todo') = Len(todo) + 1 /\ todo' \in Seq(Segment)
      <3> DEFINE two == <<left, right>>
                 rest == Tail(todo)
      <3>1. two \in Seq(Segment) /\ Len(two) = 2 /\ rest \in Seq(Segment)
            /\ Len(rest) = Len(todo) - 1 /\ todo' = two \o rest /\ Len(todo) \in Nat
        BY <1>1, <1>5b, <2>1
      <3> HIDE DEF two, rest
      <3>2. two \o rest \in Seq(Segment) /\ Len(two \o rest) = Len(two) + Len(rest)
        BY <3>1, ConcatProperties, Zenon
      <3>3. Len(todo') = 2 + (Len(todo) - 1)
        BY <3>1, <3>2, Zenon
      <3>4. todo' \in Seq(Segment)
        BY <3>1, <3>2, Zenon
      <3>5. Len(todo') = Len(todo) + 1
        BY <3>1, <3>3
      <3> QED BY <3>4, <3>5
    <2>3. \A i \in 3 .. Len(todo') : todo'[i] = Tail(todo)[i - 2]
      BY <1>1, <1>5b, <2>1, <2>2
    <2>4. \A i \in 3 .. Len(todo') : i - 2 \in 1 .. Len(todo) - 1 /\ (i - 2) + 1 = i - 1
      BY <1>1, <2>2
    <2>5. \A i \in 3 .. Len(todo') : todo'[i] = todo[i - 1]
      BY <1>1, <2>3, <2>4
    <2>6. todo'[1] = left /\ todo'[2] = right
      BY <1>1, <1>5b, <2>1, <2>2
    <2> QED BY <2>2, <2>5, <2>6
  <1>8. /\ \A i \in 1 .. Len(todo) : /\ todo[i].from \in Nat /\ todo[i].to \in Nat
                                     /\ 1 <= todo[i].from /\ todo[i].from <= todo[i].to
                                     /\ todo[i].to < pos
        /\ \A i \in 1 .. Len(todo) - 1 : todo[i + 1].from = todo[i].to + 1
        /\ todo[Len(todo)].to = pos - 1
    BY <1>1 DEF UpsertIInv, SegmentsFollow, Segment
  <1>9. SegmentsFollow'
    <2>1. ASSUME NEW i \in 1 .. Len(todo')
          PROVE  1 <= todo'[i].from /\ todo'[i].from <= todo'[i].to /\ todo'[i].to < pos'
      <3>1. CASE i = 1
        BY <1>7, <1>5d, <3>1
      <3>2. CASE i = 2
        BY <1>7, <1>5d, <3>2
      <3>3. CASE i >= 3
        <4>1. todo'[i] = todo[i - 1] /\ i - 1 \in 1 .. Len(todo)
          BY <1>1, <1>7, <3>3, SMTT(30)
        <4> QED BY <1>8, <4>1
      <3> QED BY <1>1, <1>7, <3>1, <3>2, <3>3
    <2>2. ASSUME NEW i \in 1 .. Len(todo') - 1
          PROVE  todo'[i + 1].from = todo'[i].to + 1
      <3>1. CASE i = 1
        BY <1>7, <1>5d, <3>1
      <3>2. CASE i = 2
        <4>1. todo'[3] = todo[2] /\ 1 \in 1 .. Len(todo) - 1 /\ todo'[i + 1] = todo'[3]
          BY <1>1, <1>7, <3>2
        <4>2. todo[1 + 1].from = todo[1].to + 1
          BY <1>8, <4>1
        <4> QED BY <1>1, <1>7, <1>5d, <3>2, <4>1, <4>2, SMTT(30)
      <3>3. CASE i >= 3
        <4>0. /\ i \in 3 .. Len(todo') /\ i + 1 \in 3 .. Len(todo')
              /\ i - 1 \in 1 .. Len(todo) - 1 /\ (i + 1) - 1 = (i - 1) + 1
          <5>1. Len(todo) \in Nat /\ Len(todo') = Len(todo) + 1
            BY <1>1, <1>7
          <5> QED BY <3>3, <5>1
        <4>1. /\ todo'[i] = todo[i - 1] /\ todo'[i + 1] = todo[(i - 1) + 1]
              /\ i - 1 \in 1 .. Len(todo) - 1
          <5>1. \A k \in 3 .. Len(todo') : todo'[k] = todo[k - 1]
            BY <1>7
          <5> QED BY <4>0, <5>1
        <4> QED BY <1>8, <4>1
      <3> QED BY <1>1, <1>7, <3>1, <3>2, <3>3
    <2>3. todo'[Len(todo')].to = pos' - 1
      <3>1. CASE Len(todo) = 1
        BY <1>1, <1>7, <1>8, <1>5a, <3>1
      <3>2. CASE Len(todo) # 1
        <4>1. todo'[Len(todo')] = todo[Len(todo)]
          BY <1>1, <1>7, <3>2
        <4> QED BY <1>8, <4>1
      <3> QED BY <3>1, <3>2
    <2> QED BY <2>1, <2>2, <2>3 DEF SegmentsFollow
  <1>10. todo' # <<>> /\ NextToSend' = NextToSend
    <2>1. todo' # <<>>
      BY <1>1, <1>7
    <2> QED BY <1>1, <1>7, <1>5a, <2>1 DEF NextToSend
  <1>11. DepthBoundsLength'
    <2> SUFFICES ASSUME MaxBatch <= Reach[MaxDepth], NEW i \in 1 .. Len(todo')
                 PROVE  Length(todo'[i]) <= Reach[MaxDepth - todo'[i].depth]
      BY DEF DepthBoundsLength, Length, Reach
    <2>1. \A j \in 1 .. Len(todo) : Length(todo[j]) <= Reach[MaxDepth - todo[j].depth]
      BY DEF UpsertIInv, DepthBoundsLength
    <2>2. CASE i \in 1 .. 2
      <3> DEFINE d == MaxDepth - seg.depth
      <3>1. d \in 1 .. MaxDepth /\ d - 1 = MaxDepth - (seg.depth + 1) /\ d - 1 \in 0 .. MaxDepth
        BY <1>5c, <1>2, SMTT(30)
      <3>2. Length(seg) <= Reach[d]
        BY <1>1, <2>1
      <3> HIDE DEF d
      <3>3. Reach[d] = 2 * Reach[d - 1] /\ Reach[d - 1] \in Nat
        BY <3>1, ReachDoubles
      <3>4. half <= Reach[d - 1] /\ Length(seg) - half <= Reach[d - 1]
        BY <1>3, <1>4, <3>2, <3>3
      <3>6. todo'[i] \in {left, right} /\ todo'[i].depth = seg.depth + 1
        BY <1>7, <1>5a, <2>2
      <3> QED BY <1>5d, <3>1, <3>4, <3>6
    <2>3. CASE i >= 3
      <3>1. todo'[i] = todo[i - 1] /\ i - 1 \in 1 .. Len(todo)
        BY <1>1, <1>7, <2>3
      <3> QED BY <2>1, <3>1
    <2> QED BY <1>1, <1>7, <2>2, <2>3
  <1> QED BY <1>7, <1>9, <1>10, <1>11

(* The counters of a recoverable error: the event is counted, and the split if it is one. *)
LEMMA EventsAreCounted ==
  ASSUME UpsertIInv, todo # <<>>,
         NEW event \in {"payload_too_large_events", "proxy_reset_events"}, Recover(event)
  PROVE  /\ metrics' \in Counters /\ metrics'.documents_written = metrics.documents_written
         /\ event = "proxy_reset_events" => metrics'.proxy_reset_events > 0
  <1>1. metrics \in Counters
    BY DEF UpsertIInv
  <1>2. \/ metrics' = [metrics EXCEPT ![event] = @ + 1, !.split_count = @ + 1]
        \/ metrics' = [metrics EXCEPT ![event] = @ + 1]
    BY DEF Recover
  <1>3. CASE event = "payload_too_large_events"
    <2>1. \/ metrics' = [metrics EXCEPT !.payload_too_large_events = @ + 1, !.split_count = @ + 1]
          \/ metrics' = [metrics EXCEPT !.payload_too_large_events = @ + 1]
      BY <1>2, <1>3
    <2> DEFINE a == metrics.payload_too_large_events + 1
               b == metrics.split_count + 1
    <2>2. a \in Nat /\ b \in Nat /\ a > 0
      BY <1>1 DEF Counters
    <2>3. \/ metrics' = [metrics EXCEPT !.payload_too_large_events = a, !.split_count = b]
          \/ metrics' = [metrics EXCEPT !.payload_too_large_events = a]
      BY <2>1
    <2> HIDE DEF a, b
    <2>4. /\ metrics' \in Counters /\ metrics'.payload_too_large_events = a
          /\ metrics'.documents_written = metrics.documents_written
      BY <1>1, <2>2, <2>3 DEF Counters
    <2> QED BY <1>3, <2>2, <2>4
  <1>4. CASE event = "proxy_reset_events"
    <2>1. \/ metrics' = [metrics EXCEPT !.proxy_reset_events = @ + 1, !.split_count = @ + 1]
          \/ metrics' = [metrics EXCEPT !.proxy_reset_events = @ + 1]
      BY <1>2, <1>4
    <2> DEFINE a == metrics.proxy_reset_events + 1
               b == metrics.split_count + 1
    <2>2. a \in Nat /\ b \in Nat /\ a > 0
      BY <1>1 DEF Counters
    <2>3. \/ metrics' = [metrics EXCEPT !.proxy_reset_events = a, !.split_count = b]
          \/ metrics' = [metrics EXCEPT !.proxy_reset_events = a]
      BY <2>1
    <2> HIDE DEF a, b
    <2>4. /\ metrics' \in Counters /\ metrics'.proxy_reset_events = a
          /\ metrics'.documents_written = metrics.documents_written
      BY <1>1, <2>2, <2>3 DEF Counters
    <2> QED BY <1>4, <2>2, <2>4
  <1> QED BY <1>3, <1>4

(* A recoverable error keeps the invariant but for what is stored meanwhile, and for the
   end of the call. *)
LEMMA RecoverKeeps ==
  ASSUME UpsertIInv, Sending,
         NEW event \in {"payload_too_large_events", "proxy_reset_events"}, Recover(event),
         stored' \in {stored, Added(Head(todo))},
         UNCHANGED <<sizes, limit, pos, stale, retried>>,
         ~MaySplit(Head(todo)) => SizeIsNeverFatal'
  PROVE  UpsertIInv'
  <1>1. upsertStatus = "running" /\ todo # <<>>
    BY DEF Sending
  <1>2. Total \in Nat /\ Total' = Total /\ pos' = pos
    BY DEF UpsertIInv, Total
  <1>3. metrics' \in Counters /\ metrics'.documents_written = metrics.documents_written
    BY <1>1, EventsAreCounted
  <1>4. /\ todo' \in Seq(Segment) /\ todo' # <<>> /\ SegmentsFollow'
        /\ NextToSend' = NextToSend /\ DepthBoundsLength'
        /\ upsertStatus' \in {"running", "failed"} /\ SizeIsNeverFatal'
    <2>1. CASE MaySplit(Head(todo))
      <3>1. todo' = Split(Head(todo)) \o Tail(todo) /\ upsertStatus' = "running"
        BY <1>1, <2>1 DEF Recover
      <3> QED BY <1>1, <1>2, <2>1, <3>1, SplitKeeps DEF SizeIsNeverFatal
    <2>2. CASE ~MaySplit(Head(todo))
      <3>1. todo' = todo /\ upsertStatus' = "failed"
        BY <2>2 DEF Recover
      <3>2. SegmentsFollow' /\ NextToSend' = NextToSend
        BY <1>2, <3>1 DEF UpsertIInv, SegmentsFollow, NextToSend
      <3>3. DepthBoundsLength'
        BY <3>1 DEF UpsertIInv, DepthBoundsLength, Length, Reach
      <3> QED BY <1>1, <2>2, <3>1, <3>2, <3>3 DEF UpsertIInv
    <2> QED BY <2>1, <2>2
  <1>5. SentIsStored'
    <2>1. PICK c \in Nat : NextToSend - 1 <= c /\ c < pos /\ stored' = 1 .. c
      <3>1. CASE stored' = stored
        BY <3>1 DEF UpsertIInv, SentIsStored
      <3>2. CASE stored' = Added(Head(todo))
        BY <1>1, <3>2, StoringExtends
      <3> QED BY <3>1, <3>2
    <2>2. metrics'.documents_written = NextToSend - 1
      BY <1>3 DEF UpsertIInv, SentIsStored
    <2> QED BY <1>2, <1>4, <2>1, <2>2 DEF SentIsStored
  <1> QED
    BY <1>2, <1>3, <1>4, <1>5 DEF UpsertIInv

(* Too large: a segment that may not be split is one the server was said to take. *)
LEMMA TooLargeKeeps ==
  ASSUME UpsertIInv, TooLarge
  PROVE  UpsertIInv'
  <1> DEFINE seg == Head(todo)
  <1>1. /\ Sending /\ todo # <<>> /\ Bytes(seg.from, seg.to) > limit
        /\ Recover("payload_too_large_events")
        /\ UNCHANGED <<sizes, limit, pos, stored, stale, retried>>
    BY DEF TooLarge, Sending
  <1>2. ASSUME ~MaySplit(seg), MaxBatch <= Reach[MaxDepth],
               \A i \in 1 .. Total : Bytes(i, Min({i + MinBatch - 1, Total})) <= limit
        PROVE  FALSE
    <2>1. /\ seg = todo[1] /\ seg.from \in Nat /\ seg.to \in Nat /\ seg.depth \in 0 .. MaxDepth
          /\ 1 <= seg.from /\ seg.from <= seg.to /\ seg.to < pos /\ 1 \in 1 .. Len(todo)
      BY <1>1, HeadIs
    <2>2. /\ pos \in Nat /\ pos <= Total + 1 /\ Total \in Nat /\ limit \in Nat
          /\ MinBatch \in Nat /\ MinBatch >= 1 /\ MaxDepth \in Nat /\ sizes \in Seq(Nat)
      BY UpsertAssumption DEF UpsertIInv, Total
    <2>3. Length(seg) <= Reach[MaxDepth - seg.depth]
      BY <1>2, <2>1 DEF UpsertIInv, DepthBoundsLength
    <2>4. Length(seg) = seg.to - seg.from + 1
      BY DEF Length
    <2> HIDE DEF seg
    <2>5. Length(seg) <= MinBatch
      <3>1. CASE seg.depth = MaxDepth
        <4>1. MaxDepth - seg.depth = 0
          BY <2>2, <3>1
        <4> QED BY <2>3, <4>1, ReachDoubles
      <3>2. CASE seg.depth # MaxDepth
        <4>1. seg.depth < MaxDepth
          BY <2>1, <2>2, <3>2
        <4>2. ~(Length(seg) > MinBatch)
          BY <1>2, <4>1 DEF MaySplit
        <4> QED BY <2>1, <2>2, <2>4, <4>2
      <3> QED BY <3>1, <3>2
    <2> DEFINE last == Min({seg.from + MinBatch - 1, Total})
    <2>6. last \in Nat /\ seg.to <= last /\ last <= Total
      <3>1. /\ seg.to <= seg.from + MinBatch - 1 /\ seg.to <= Total
            /\ seg.from + MinBatch - 1 \in Nat
        BY <2>1, <2>2, <2>4, <2>5, SMTT(30)
      <3>2. \E m \in {seg.from + MinBatch - 1, Total} :
               \A k \in {seg.from + MinBatch - 1, Total} : m <= k
        BY <2>2, <3>1
      <3>3. /\ last \in {seg.from + MinBatch - 1, Total}
            /\ \A k \in {seg.from + MinBatch - 1, Total} : last <= k
        BY <3>2 DEF Min
      <3> QED BY <2>2, <3>1, <3>3
    <2>7. seg.from \in 1 .. Total
      BY <2>1, <2>2
    <2>8. Bytes(seg.from, last) <= limit
      BY <1>2, <2>7
    <2> HIDE DEF last
    <2>9. seg.to \in 0 .. Total /\ last \in 0 .. Total
      BY <2>1, <2>2, <2>6
    <2>10. /\ Bytes(seg.from, seg.to) <= Bytes(seg.from, last)
           /\ Bytes(seg.from, seg.to) \in Nat /\ Bytes(seg.from, last) \in Nat
      BY <2>1, <2>2, <2>6, <2>9, BytesGrow, BytesAdd
    <2>11. Bytes(seg.from, seg.to) > limit
      BY <1>1 DEF seg
    <2> QED BY <2>2, <2>8, <2>10, <2>11
  <1> HIDE DEF seg
  <1>3. ~MaySplit(seg) => SizeIsNeverFatal'
    <2>1. sizes' = sizes /\ limit' = limit
      BY <1>1
    <2>2. SizeIsNeverFatal' =
            (( /\ MaxBatch <= Reach[MaxDepth]
               /\ \A i \in 1 .. Total : Bytes(i, Min({i + MinBatch - 1, Total})) <= limit
               /\ upsertStatus' = "failed" )
             => \/ metrics'.proxy_reset_events + metrics'.upstream_restarting_events > 0
                \/ retried' /\ stale')
      BY <2>1 DEF SizeIsNeverFatal, Total, Bytes, Reach
    <2> QED BY <1>2, <2>2
  <1> QED BY <1>1, <1>3, RecoverKeeps DEF seg

(* The connection breaks: it is counted. *)
LEMMA ProxyResetKeeps ==
  ASSUME UpsertIInv, ProxyReset
  PROVE  UpsertIInv'
  <1>1. /\ Sending /\ todo # <<>> /\ Recover("proxy_reset_events")
        /\ stored' \in {stored, Added(Head(todo))}
        /\ UNCHANGED <<sizes, limit, pos, stale, retried>>
    BY DEF ProxyReset, Sending
  <1>2. metrics' \in Counters /\ metrics'.proxy_reset_events > 0
    BY <1>1, EventsAreCounted
  <1>3. SizeIsNeverFatal'
    <2>1. metrics'.proxy_reset_events \in Nat /\ metrics'.upstream_restarting_events \in Nat
      BY <1>2 DEF Counters
    <2>2. metrics'.proxy_reset_events + metrics'.upstream_restarting_events > 0
      BY <1>2, <2>1
    <2> QED BY <2>2 DEF SizeIsNeverFatal
  <1> QED BY <1>1, <1>3, RecoverKeeps

(* What does not depend on a step that leaves the documents and the stack alone. *)
LEMMA StackStays ==
  ASSUME UpsertIInv, UNCHANGED <<sizes, limit, pos, todo, stored>>,
         metrics' \in Counters, metrics'.documents_written = metrics.documents_written,
         upsertStatus' \in {upsertStatus, "failed"}, SizeIsNeverFatal'
  PROVE  UpsertIInv'
  <1>1. Total' = Total /\ NextToSend' = NextToSend
    BY DEF Total, NextToSend
  <1>2. SegmentsFollow'
    BY DEF UpsertIInv, SegmentsFollow
  <1>3. DepthBoundsLength'
    BY DEF UpsertIInv, DepthBoundsLength, Length, Reach
  <1>4. SentIsStored'
    BY <1>1 DEF UpsertIInv, SentIsStored
  <1> QED BY <1>1, <1>2, <1>3, <1>4 DEF UpsertIInv

(* The rest of the steps: the upstream restarts, the collection is gone, or goes. *)
LEMMA OutsideKeeps ==
  ASSUME UpsertIInv, UpstreamRestarting \/ Missing \/ Drop
  PROVE  UpsertIInv'
  <1>0. metrics \in Counters
    BY DEF UpsertIInv
  <1>1. CASE UpstreamRestarting
    <2>1. /\ metrics' = [metrics EXCEPT !.upstream_restarting_events = @ + 1]
          /\ upsertStatus' = "failed"
          /\ UNCHANGED <<sizes, limit, pos, todo, stored, stale, retried>>
      BY <1>1 DEF UpstreamRestarting
    <2>2. /\ metrics' \in Counters /\ metrics'.documents_written = metrics.documents_written
          /\ metrics'.upstream_restarting_events > 0
      BY <1>0, <2>1 DEF Counters
    <2>3. metrics'.proxy_reset_events + metrics'.upstream_restarting_events > 0
      BY <2>2 DEF Counters
    <2>4. SizeIsNeverFatal'
      BY <2>3 DEF SizeIsNeverFatal
    <2> QED BY <2>1, <2>2, <2>4, StackStays
  <1>2. CASE Missing
    <2>1. CASE retried
      <3>1. /\ upsertStatus' = "failed" /\ retried' /\ stale'
            /\ UNCHANGED <<sizes, limit, pos, todo, stored, metrics>>
        BY <1>2, <2>1 DEF Missing
      <3>2. SizeIsNeverFatal'
        BY <3>1 DEF SizeIsNeverFatal
      <3> QED BY <1>0, <3>1, <3>2, StackStays
    <2>2. CASE ~retried
      <3>1. /\ pos' = 1 /\ todo' = <<>> /\ stored' = {} /\ metrics' = NoMetrics
            /\ upsertStatus = "running" /\ upsertStatus' = upsertStatus /\ UNCHANGED <<sizes, limit>>
        BY <1>2, <2>2 DEF Missing, Sending
      <3>2. Total \in Nat /\ Total' = Total /\ Len(todo') = 0
        BY <3>1 DEF UpsertIInv, Total
      <3>3. metrics' \in Counters /\ metrics'.documents_written = 0
        BY <3>1 DEF NoMetrics, Counters
      <3>4. todo' \in Seq(Segment) /\ SegmentsFollow' /\ DepthBoundsLength'
        BY <3>1, <3>2 DEF SegmentsFollow, DepthBoundsLength
      <3>5. SentIsStored'
        <4>1. NextToSend' = 1 /\ stored' = 1 .. 0
          BY <3>1 DEF NextToSend
        <4> QED BY <3>1, <3>3, <4>1 DEF SentIsStored
      <3>6. SizeIsNeverFatal'
        BY <3>1 DEF SizeIsNeverFatal
      <3> QED BY <3>1, <3>2, <3>3, <3>4, <3>5, <3>6 DEF UpsertIInv
    <2> QED BY <2>1, <2>2
  <1>3. CASE Drop
    <2>1. /\ upsertStatus = "running" /\ upsertStatus' = upsertStatus
          /\ UNCHANGED <<sizes, limit, pos, todo, stored, metrics>>
      BY <1>3 DEF Drop
    <2>2. SizeIsNeverFatal'
      BY <2>1 DEF SizeIsNeverFatal
    <2> QED BY <1>0, <2>1, <2>2, StackStays
  <1> QED BY <1>1, <1>2, <1>3

(* Each step keeps it. *)
LEMMA UpsertIsKept == UpsertIInv /\ [UpsertNext]_upsertVars => UpsertIInv'
  <1> SUFFICES ASSUME UpsertIInv, [UpsertNext]_upsertVars
               PROVE  UpsertIInv'
    OBVIOUS
  <1>1. CASE UNCHANGED upsertVars
    <2>1. /\ UNCHANGED <<sizes, limit, pos, todo, stored, stale, retried>>
          /\ metrics' = metrics /\ upsertStatus' = upsertStatus
      BY <1>1 DEF upsertVars
    <2>2. SizeIsNeverFatal'
      <3>1. SizeIsNeverFatal
        BY DEF UpsertIInv
      <3>2. Total' = Total /\ \A i, k : Bytes(i, k)' = Bytes(i, k)
        BY <2>1 DEF Total, Bytes
      <3> QED BY <2>1, <3>1, <3>2 DEF SizeIsNeverFatal
    <2>3. metrics' \in Counters /\ metrics'.documents_written = metrics.documents_written
      BY <2>1 DEF UpsertIInv
    <2> QED BY <2>1, <2>2, <2>3, StackStays
  <1> QED
    BY <1>1, NextBatchKeeps, AcceptedKeeps, TooLargeKeeps, ProxyResetKeeps, OutsideKeeps
    DEF UpsertNext

(* The inductive invariant of an upsert: for any documents, sizes and limits, and however
   often the connection breaks and the collection is deleted. *)
THEOREM UpsertInvariance == UpsertSpec => []UpsertIInv
  <1>1. UpsertInit => UpsertIInv
    BY UpsertInitIInv
  <1>2. UpsertIInv /\ [UpsertNext]_upsertVars => UpsertIInv'
    BY UpsertIsKept
  <1> QED BY <1>1, <1>2, PTL DEF UpsertSpec

(* ChromaIndex.upsert: what it reports as stored is stored, every document once, in order,
   also when it fails half way; each batch is the largest one within the budget; and
   a size alone never makes it fail when halving reaches far enough. *)
THEOREM UpsertsAreExact == UpsertSpec => []UpsertIsExact
  <1>1. UpsertIInv => UpsertIsExact
    <2> SUFFICES ASSUME UpsertIInv
                 PROVE  UpsertIsExact
      OBVIOUS
    <2>1. PICK c \in Nat : NextToSend - 1 <= c /\ c < pos /\ stored = 1 .. c
      BY DEF UpsertIInv, SentIsStored
    <2>2. Total \in Nat /\ pos \in Nat
      BY DEF UpsertIInv, Total
    <2>3. ReturnMeansStored
      <3> SUFFICES ASSUME upsertStatus = "done"
                   PROVE  stored = 1 .. Total /\ metrics.documents_written = Total
        BY DEF ReturnMeansStored
      <3>1. pos = Total + 1 /\ NextToSend = Total + 1
        BY DEF UpsertIInv, NextToSend
      <3>2. c = Total
        BY <2>1, <2>2, <3>1
      <3>3. metrics.documents_written = (Total + 1) - 1
        BY <3>1 DEF UpsertIInv, SentIsStored
      <3> QED BY <2>1, <2>2, <3>2, <3>3
    <2>4. StoredIsPrefix
      <3>1. Cardinality(1 .. c) = c
        BY FS_Interval
      <3> QED BY <2>1, <3>1 DEF StoredIsPrefix
    <2>5. BisectionIsExact
      <3>1. CASE pos <= Total
        BY <3>1, BatchIsReal
      <3>2. CASE ~(pos <= Total)
        BY <3>2 DEF BisectionIsExact
      <3> QED BY <3>1, <3>2
    <2>6. SizeIsNeverFatal
      BY DEF UpsertIInv
    <2> QED BY <2>3, <2>4, <2>5, <2>6 DEF UpsertIsExact
  <1> QED BY <1>1, UpsertInvariance, PTL
================================================================================
