--------------------------- MODULE MCRepoDeletion ---------------------------
(* Small instances of RepoDeletion for TLC. *)
EXTENDS RepoDeletion, FiniteSets, TLC

CONSTANTS r1, r2

NoPrefix  == {}
OnePrefix == {<<r1, r2>>}

(* Clone, vectors, lexical corpus, graph; and the two layers that decide
   query_ready, for the runs with more requests. *)
AllLayers   == <<"workspace", "chroma", "lexical", "graph">>
QueryLayers == <<"chroma", "lexical">>

Symmetric == Permutations(Job) \cup Permutations(Deleter)

(* Three clients in a behaviour, of whichever kinds: two ingests and a delete, or an
   ingest between two deletes. A client that has not come in the meantime may never come. *)
Clients == {j \in Job : hpc[j] # "idle"} \cup {d \in Deleter : del[d] # NoDelete}
ThreeClients == Cardinality(Clients) <= 3
=============================================================================
