----------------------------- MODULE MCRqIngest -----------------------------
(* Small instances of RqIngest for TLC. *)
EXTENDS RqIngest, FiniteSets, TLC

CONSTANTS a1, a2

BothWarm == {a1, a2}
NoneWarm == {}

Symmetric == Permutations(Job) \cup Permutations(Worker)

(* Two clients in a behaviour: two requests, or a request and a delete. No fairness
   makes a third one arrive, so behaviours without it are behaviours of FairSpec. *)
Clients == {j \in Job : hpc[j] # "idle"} \cup {d \in Deleter : dpc[d] # "idle"}
TwoClients == Cardinality(Clients) <= 2
=============================================================================
