---------------------------- MODULE IngestSlots ----------------------------
(***************************************************************************)
(* What the job manager promises its clients, without locks, threads or    *)
(* tables: every repository has one ingest slot.  An accepted job takes    *)
(* the slot of its repository, keeps it while it runs, and gives it back   *)
(* with exactly one outcome, which never changes afterwards.  A restart of *)
(* the service may end every job that holds a slot as failed.              *)
(***************************************************************************)
CONSTANTS Job, Repo, Free

VARIABLES slot,     \* repo -> the job ingesting it, or Free
          outcome   \* job -> what a client is told of it

slotVars == <<slot, outcome>>

Ended == {"completed", "partial", "failed"}

SlotInit == /\ slot = [r \in Repo |-> Free]
            /\ outcome = [j \in Job |-> "absent"]

Accept(j, r) == /\ outcome[j] = "absent"
                /\ slot[r] = Free
                /\ slot' = [slot EXCEPT ![r] = j]
                /\ outcome' = [outcome EXCEPT ![j] = "queued"]

Run(j) == /\ outcome[j] = "queued"
          /\ outcome' = [outcome EXCEPT ![j] = "running"]
          /\ UNCHANGED slot

Finish(r, result) == /\ slot[r] # Free
                     /\ outcome[slot[r]] = "running"
                     /\ outcome' = [outcome EXCEPT ![slot[r]] = result]
                     /\ slot' = [slot EXCEPT ![r] = Free]

AbortAll == LET held == {slot[r] : r \in Repo} \ {Free}
            IN  /\ outcome' = [j \in Job |-> IF j \in held THEN "failed"
                                                           ELSE outcome[j]]
                /\ slot' = [r \in Repo |-> Free]

SlotNext == \/ \E j \in Job, r \in Repo : Accept(j, r)
            \/ \E j \in Job : Run(j)
            \/ \E r \in Repo, result \in Ended : Finish(r, result)
            \/ AbortAll

SlotSpec == SlotInit /\ [][SlotNext]_slotVars

=============================================================================
