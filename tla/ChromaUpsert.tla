---------------------------- MODULE ChromaUpsert ----------------------------
(* ChromaIndex.upsert of ingestion/index_chroma.py against a remote Chroma: the
   documents go out in batches that fit an estimated budget, a batch the server
   rejects as too large (or whose connection a proxy resets) is split in two and
   each half tried again, and a collection that is gone is opened again once,
   after which everything is sent from the first document on.

   A document is its position; what the algorithm sees of it is its size. The
   recursion of _upsert_batch_with_retry is the stack `todo`. *)
EXTENDS Integers, Sequences, FiniteSets, FiniteSetsExt

CONSTANTS
    Payloads,      \* the sequences of document sizes to send
    Limits,        \* the body sizes the server may accept
    MaxRequest,    \* chroma_max_request_bytes
    MaxBatch,      \* the batch size the client reports, or the override
    MinBatch,      \* chroma_remote_min_batch_size
    MaxDepth,      \* chroma_remote_max_split_depth
    MaxResets,     \* proxy resets and unavailable upstreams per upsert
    MaxDrops       \* times somebody deletes the collection meanwhile

ASSUME UpsertAssumption ==
    /\ MaxBatch \in Nat \ {0} /\ MinBatch \in Nat \ {0} /\ MaxDepth \in Nat \ {0}
    /\ MaxRequest \in Nat /\ MaxResets \in Nat /\ MaxDrops \in Nat
    /\ Payloads \subseteq Seq(Nat) /\ Limits \subseteq Nat

VARIABLES
    sizes,      \* the documents of this call
    limit,      \* the body size the server accepts
    pos,        \* first document not yet in a batch
    todo,       \* segments still to send, the next one first
    stored,     \* documents the collection behind the handle has accepted
    metrics,    \* the counters the call returns
    stale,      \* the handle refers to a collection that was deleted
    retried,    \* the call has opened its collection again
    upsertStatus,
    resets, drops   \* bounds of the environment

upsertVars == <<sizes, limit, pos, todo, stored, metrics, stale, retried, upsertStatus,
                resets, drops>>

Total == Len(sizes)
Bytes(from, to) ==    \* the sum of the sizes from .. to, which can be reasoned about
    LET sum[i \in 0 .. Total] ==
            IF i < from THEN 0 ELSE sizes[i] + sum[i - 1]
    IN  sum[to]
Length(seg) == seg.to - seg.from + 1

NoMetrics == [split_count |-> 0, payload_too_large_events |-> 0, proxy_reset_events |-> 0,
              upstream_restarting_events |-> 0, documents_written |-> 0]

-----------------------------------------------------------------------------
(* _resolve_effective_batch_size: bisection for the longest run of documents
   whose estimated request fits the budget; a single document is always sent. *)
Fits(start, n) == Bytes(start, start + n - 1) <= MaxRequest

(* Where the loop stands. *)
Window(upper) == [low : 1 .. upper + 1, high : 0 .. upper, best : 1 .. upper]

Bisect(start, upper) ==
    LET search[w \in Window(upper)] ==
            IF w.low > w.high THEN w.best
            ELSE LET mid == (w.low + w.high) \div 2
                 IN  IF Fits(start, mid)
                     THEN search[[w EXCEPT !.low = mid + 1, !.best = mid]]
                     ELSE search[[w EXCEPT !.high = mid - 1]]
    IN  search[[low |-> 1, high |-> upper, best |-> 1]]

EffectiveBatch(start) ==
    LET upper == Min({MaxBatch, Total - start + 1})
    IN  IF upper <= 1 \/ Fits(start, upper) THEN upper ELSE Bisect(start, upper)

-----------------------------------------------------------------------------
UpsertInit ==
    /\ sizes \in Payloads /\ limit \in Limits
    /\ pos = 1 /\ todo = <<>> /\ stored = {} /\ metrics = NoMetrics
    /\ stale = FALSE /\ retried = FALSE
    /\ upsertStatus = (IF sizes = <<>> THEN "done" ELSE "running")
    /\ resets = 0 /\ drops = 0

(* The loop of _upsert_batched: the next batch, when the last one is stored. *)
NextBatch ==
    /\ upsertStatus = "running" /\ todo = <<>> /\ pos <= Total
    /\ LET n == EffectiveBatch(pos)
       IN  /\ todo' = <<[from |-> pos, to |-> pos + n - 1, depth |-> 0]>>
           /\ pos' = pos + n
    /\ UNCHANGED <<sizes, limit, stored, metrics, stale, retried, upsertStatus, resets, drops>>

Sending == upsertStatus = "running" /\ todo # <<>>

Added(seg) == stored \union (seg.from .. seg.to)

(* The server takes the batch. *)
Accepted ==
    /\ Sending /\ ~stale
    /\ Bytes(Head(todo).from, Head(todo).to) <= limit
    /\ stored' = Added(Head(todo))
    /\ metrics' = [metrics EXCEPT !.documents_written = @ + Length(Head(todo))]
    /\ todo' = Tail(todo)
    /\ upsertStatus' = IF Tail(todo) = <<>> /\ pos > Total THEN "done" ELSE "running"
    /\ UNCHANGED <<sizes, limit, pos, stale, retried, resets, drops>>

(* A recoverable error: two halves in place of the batch, the first one first,
   unless the batch is small or deep already; then the error is raised. *)
Split(seg) ==
    LET mid == Max({1, Length(seg) \div 2})
    IN  <<[from |-> seg.from, to |-> seg.from + mid - 1, depth |-> seg.depth + 1],
          [from |-> seg.from + mid, to |-> seg.to, depth |-> seg.depth + 1]>>

MaySplit(seg) == Length(seg) > MinBatch /\ seg.depth < MaxDepth

Recover(event) ==
    LET seg == Head(todo)
    IN  IF MaySplit(seg)
        THEN /\ todo' = Split(seg) \o Tail(todo)
             /\ metrics' = [metrics EXCEPT ![event] = @ + 1, !.split_count = @ + 1]
             /\ upsertStatus' = upsertStatus
        ELSE /\ upsertStatus' = "failed"
             /\ metrics' = [metrics EXCEPT ![event] = @ + 1]
             /\ todo' = todo

TooLarge ==
    /\ Sending /\ ~stale
    /\ Bytes(Head(todo).from, Head(todo).to) > limit
    /\ Recover("payload_too_large_events")
    /\ UNCHANGED <<sizes, limit, pos, stored, stale, retried, resets, drops>>

(* The connection breaks before or after the server has stored the batch. *)
ProxyReset ==
    /\ Sending /\ ~stale /\ resets < MaxResets
    /\ resets' = resets + 1
    /\ Recover("proxy_reset_events")
    /\ \/ stored' = stored
       \/ /\ Bytes(Head(todo).from, Head(todo).to) <= limit
          /\ stored' = Added(Head(todo))
    /\ UNCHANGED <<sizes, limit, pos, stale, retried, drops>>

(* No healthy upstream, a refused connection: a smaller batch would not help. *)
UpstreamRestarting ==
    /\ Sending /\ ~stale /\ resets < MaxResets
    /\ resets' = resets + 1
    /\ upsertStatus' = "failed"
    /\ metrics' = [metrics EXCEPT !.upstream_restarting_events = @ + 1]
    /\ UNCHANGED <<sizes, limit, pos, todo, stored, stale, retried, drops>>

(* Mutant: the call goes on where it was. *)
MissingGoesOn ==
    /\ Sending /\ stale
    /\ IF retried
       THEN /\ upsertStatus' = "failed"
            /\ UNCHANGED <<pos, todo, stored, metrics, stale, retried>>
       ELSE /\ retried' = TRUE /\ stale' = FALSE /\ stored' = {}
            /\ UNCHANGED <<pos, todo, metrics, upsertStatus>>
    /\ UNCHANGED <<sizes, limit, resets, drops>>

(* "Collection does not exist": the shared state is dropped, the collection
   opened again (and created when missing), and the call starts over, once. *)
Missing ==
    /\ Sending /\ stale
    /\ IF retried
       THEN /\ upsertStatus' = "failed"
            /\ UNCHANGED <<pos, todo, stored, metrics, stale, retried>>
       ELSE /\ retried' = TRUE /\ stale' = FALSE
            /\ pos' = 1 /\ todo' = <<>> /\ stored' = {} /\ metrics' = NoMetrics
            /\ upsertStatus' = upsertStatus
    /\ UNCHANGED <<sizes, limit, resets, drops>>

(* A global reset somewhere deletes the collection. *)
Drop ==
    /\ upsertStatus = "running" /\ ~stale /\ drops < MaxDrops
    /\ stale' = TRUE /\ drops' = drops + 1
    /\ UNCHANGED <<sizes, limit, pos, todo, stored, metrics, retried, upsertStatus, resets>>

UpsertNext ==
    \/ NextBatch \/ Accepted \/ TooLarge \/ ProxyReset \/ UpstreamRestarting \/ Missing
    \/ Drop

UpsertFairness == WF_upsertVars(NextBatch) /\ WF_upsertVars(Accepted)
                    /\ WF_upsertVars(TooLarge) /\ WF_upsertVars(Missing)

UpsertSpec == UpsertInit /\ [][UpsertNext]_upsertVars /\ UpsertFairness

-----------------------------------------------------------------------------
UpsertTypeOK ==
    /\ pos \in 1 .. Total + 1
    /\ \A i \in DOMAIN todo : todo[i].from \in 1 .. Total /\ todo[i].to \in todo[i].from .. Total
    /\ stored \subseteq 1 .. Total
    /\ \A k \in DOMAIN metrics : metrics[k] \in Nat
    /\ upsertStatus \in {"running", "done", "failed"}

(* A call that returns has had every document accepted by one and the same
   collection, each counted once in documents_written, whatever was split,
   rejected, reset or opened again on the way (_upsert_batched). *)
ReturnMeansStored ==
    upsertStatus = "done" => stored = 1 .. Total /\ metrics.documents_written = Total

(* At every moment, so also after a failure, the collection holds a prefix of
   the documents: batches and halves go out in order, none is skipped. *)
StoredIsPrefix == stored = 1 .. Cardinality(stored)

(* The bisection finds the largest batch within the budget, and one document
   when none fits (_resolve_effective_batch_size). *)
BisectionIsExact ==
    pos <= Total =>
        LET within == {n \in 1 .. Min({MaxBatch, Total - pos + 1}) : Fits(pos, n)}
        IN  EffectiveBatch(pos) = IF within = {} THEN 1 ELSE Max(within)

(* What can be halved down to MinBatch in so many steps: MinBatch * 2 ^ d. *)
Reach ==
    LET reach[d \in 0 .. MaxDepth] == IF d = 0 THEN MinBatch ELSE 2 * reach[d - 1]
    IN  reach

(* Splitting is enough: when the batch can be halved down to MinBatch within
   MaxDepth and the server accepts any MinBatch neighbouring documents, no
   rejection for size ends the call. Only connection resets, a server that
   restarts and a second missing collection do. *)
SizeIsNeverFatal ==
    ( /\ MaxBatch <= Reach[MaxDepth]
      /\ \A i \in 1 .. Total : Bytes(i, Min({i + MinBatch - 1, Total})) <= limit
      /\ upsertStatus = "failed" )
    => \/ metrics.proxy_reset_events + metrics.upstream_restarting_events > 0
       \/ retried /\ stale

(* The call ends: the recursion is bounded by the depth and the batch size. *)
UpsertEnded == upsertStatus # "running"
UpsertEnds == <>UpsertEnded

(* The batches of an upsert: what it reports as stored is stored, in order, in the
   largest batches that fit, and a size alone never makes it fail. *)
UpsertIsExact == ReturnMeansStored /\ StoredIsPrefix /\ BisectionIsExact /\ SizeIsNeverFatal
-----------------------------------------------------------------------------
(* Why it is so: the inductive invariant. The segments on the stack follow each other up
   to pos; what is in front of the first one is stored and counted once; and how long a
   segment is follows from its depth, as long as the first batch can be halved so far. *)
Segment == [from : Nat, to : Nat, depth : 0 .. MaxDepth]
NextToSend == IF todo = <<>> THEN pos ELSE todo[1].from
Counters == [split_count : Nat, payload_too_large_events : Nat, proxy_reset_events : Nat,
             upstream_restarting_events : Nat, documents_written : Nat]

SegmentsFollow ==
    /\ \A i \in 1 .. Len(todo) :
         1 <= todo[i].from /\ todo[i].from <= todo[i].to /\ todo[i].to < pos
    /\ \A i \in 1 .. Len(todo) - 1 : todo[i + 1].from = todo[i].to + 1
    /\ todo # <<>> => todo[Len(todo)].to = pos - 1

SentIsStored ==
    /\ \E c \in Nat : NextToSend - 1 <= c /\ c < pos /\ stored = 1 .. c
    /\ metrics.documents_written = NextToSend - 1

DepthBoundsLength ==
    MaxBatch <= Reach[MaxDepth] =>
        \A i \in 1 .. Len(todo) : Length(todo[i]) <= Reach[MaxDepth - todo[i].depth]

UpsertIInv ==
    /\ sizes \in Seq(Nat) /\ limit \in Nat
    /\ pos \in Nat /\ 1 <= pos /\ pos <= Total + 1
    /\ todo \in Seq(Segment) /\ metrics \in Counters
    /\ upsertStatus \in {"running", "done", "failed"}
    /\ SegmentsFollow /\ SentIsStored /\ DepthBoundsLength
    /\ upsertStatus = "done" => pos = Total + 1 /\ todo = <<>>
    /\ SizeIsNeverFatal
=============================================================================
