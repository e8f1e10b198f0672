---------------------------- MODULE ModelDiscovery ---------------------------
(* discover_models of llm/model_discovery.py: the catalogue of a provider is asked
   from its remote sources, one after another, and from the local list when none
   of them answers; the result is kept per provider and kind for a time to live.
   Requests fetch without a lock, so several of them may fetch and store at once.

   One key of the cache, a provider and a kind of model. What a source lists is a
   version of its catalogue, which changes when a model is published. Ages count
   ticks and saturate at TooOld: nothing is told apart beyond that. *)
EXTENDS Integers, Sequences, FiniteSets

CONSTANTS
    Lookup,         \* requests to the endpoint in flight
    Chain,          \* provider -> its remote sources, in the order they are asked
    CacheTtl,       \* discovery_cache_ttl_seconds
    SlowestLookup,  \* longest time a lookup takes
    MaxPublications, MaxSourceFaults      \* bounds

RemoteSource == UNION {{Chain[p][i] : i \in DOMAIN Chain[p]} : p \in DOMAIN Chain}

ASSUME DiscoveryAssumption ==
    /\ CacheTtl \in Nat /\ SlowestLookup \in Nat
    /\ MaxPublications \in Nat /\ MaxSourceFaults \in Nat
    /\ \A p \in DOMAIN Chain : Chain[p] \in Seq(RemoteSource)

Local == 0        \* the "version" of the local list
TooOld == CacheTtl + SlowestLookup + 1

VARIABLES
    vendor,        \* the provider under study
    listing,       \* source -> version it lists; 0: it lists no model of the kind
    answering,     \* sources that answer
    sinceListed,   \* version -> age of the last moment some source listed it
    sinceBad,      \* source -> age of the last moment it failed or listed nothing
    kept,          \* the entry of _cache and its age, or NothingKept
    lookups,       \* request -> where it stands, its age and what it found
    publications, sourceFaults

discoveryVars == <<vendor, listing, answering, sinceListed, sinceBad, kept, lookups,
                   publications, sourceFaults>>
sourceVars == <<vendor, listing, answering, sinceListed, sinceBad, publications, sourceFaults>>

NothingKept == [version |-> Local, age |-> TooOld]
Resting == [pc |-> "idle", age |-> 0, place |-> 1, version |-> Local]
Bad(s) == s \notin answering \/ listing[s] = 0
Older(n) == IF n < TooOld THEN n + 1 ELSE n

DiscoveryInit ==
    /\ vendor \in DOMAIN Chain
    /\ listing \in [RemoteSource -> {0, 1}] /\ answering = RemoteSource
    /\ sinceListed = [v \in 1 .. MaxPublications + 1 |->
                        IF \E s \in RemoteSource : listing[s] = v THEN 0 ELSE TooOld]
    /\ sinceBad = [s \in RemoteSource |-> IF listing[s] = 0 THEN 0 ELSE TooOld]
    /\ kept = NothingKept /\ lookups = [r \in Lookup |-> Resting]
    /\ publications = 0 /\ sourceFaults = 0

-----------------------------------------------------------------------------
(* A request that the cache answers changes nothing. Any other fetches: one that
   finds no fresh entry, and at any time one with force_refresh. The token of
   Vertex is had first, outside the try: a refusal fails the request, and nothing
   is kept. *)
Cached == kept.age <= CacheTtl
AskCatalogue(r) ==
    /\ lookups[r].pc = "idle"
    /\ lookups' = [lookups EXCEPT ![r] = [Resting EXCEPT !.pc = "asking"]]
    /\ UNCHANGED kept /\ UNCHANGED sourceVars

Asking(r) == lookups[r].pc = "asking" /\ lookups[r].place <= Len(Chain[vendor])
SourceOf(r) == Chain[vendor][lookups[r].place]

TokenRefused(r) ==
    /\ vendor = "vertex" /\ Asking(r) /\ lookups[r].place = 1
    /\ sourceFaults < MaxSourceFaults /\ sourceFaults' = sourceFaults + 1
    /\ lookups' = [lookups EXCEPT ![r] = Resting]
    /\ UNCHANGED <<vendor, listing, answering, sinceListed, sinceBad, publications, kept>>

(* A source answers, page by page, with models of the kind. *)
SourceAnswers(r) ==
    /\ Asking(r) /\ ~Bad(SourceOf(r))
    /\ lookups' = [lookups EXCEPT ![r].pc = "fetched", ![r].version = listing[SourceOf(r)]]
    /\ UNCHANGED kept /\ UNCHANGED sourceVars

(* It fails, or _filter_models leaves nothing of the kind: the next one. *)
SourcePassed(r) ==
    /\ Asking(r) /\ Bad(SourceOf(r))
    /\ lookups' = [lookups EXCEPT ![r].place = @ + 1]
    /\ UNCHANGED kept /\ UNCHANGED sourceVars

(* The local list, with a warning, when all of them failed. *)
LocalList(r) ==
    /\ lookups[r].pc = "asking" /\ lookups[r].place > Len(Chain[vendor])
    /\ lookups' = [lookups EXCEPT ![r].pc = "fetched", ![r].version = Local]
    /\ UNCHANGED kept /\ UNCHANGED sourceVars

(* The entry is as old as the request. Whoever is last keeps its result, also
   over that of a request that began later. *)
Keep(r) ==
    /\ lookups[r].pc = "fetched"
    /\ kept' = [version |-> lookups[r].version, age |-> lookups[r].age]
    /\ lookups' = [lookups EXCEPT ![r] = Resting]
    /\ UNCHANGED sourceVars

-----------------------------------------------------------------------------
(* The providers, and time: no lookup takes longer than its timeouts allow. *)
ListedNow(list) ==
    sinceListed' = [v \in DOMAIN sinceListed |->
        IF \E s \in RemoteSource : list[s] = v THEN 0 ELSE sinceListed[v]]
BadNow(up) ==
    sinceBad' = [s \in RemoteSource |-> IF s \notin up \/ listing[s] = 0 THEN 0 ELSE sinceBad[s]]

Publish ==
    /\ publications < MaxPublications /\ publications' = publications + 1
    /\ listing' = [s \in RemoteSource |-> IF listing[s] = 0 THEN 0 ELSE publications' + 1]
    /\ ListedNow(listing')
    /\ UNCHANGED <<vendor, answering, sinceBad, kept, lookups, sourceFaults>>

SourceFails ==
    /\ sourceFaults < MaxSourceFaults /\ sourceFaults' = sourceFaults + 1
    /\ \E s \in answering : answering' = answering \ {s}
    /\ BadNow(answering')
    /\ UNCHANGED <<vendor, listing, sinceListed, publications, kept, lookups>>

SourceRecovers ==
    /\ \E s \in RemoteSource \ answering : answering' = answering \union {s}
    /\ UNCHANGED <<vendor, listing, sinceListed, sinceBad, publications, sourceFaults, kept,
                   lookups>>

TimePasses ==
    /\ \A r \in Lookup : lookups[r].pc # "idle" => lookups[r].age < SlowestLookup
    /\ sinceListed' = [v \in DOMAIN sinceListed |->
         IF \E s \in RemoteSource : listing[s] = v THEN 0 ELSE Older(sinceListed[v])]
    /\ sinceBad' = [s \in RemoteSource |-> IF Bad(s) THEN 0 ELSE Older(sinceBad[s])]
    /\ kept' = [kept EXCEPT !.age = Older(@)]
    /\ lookups' = [r \in Lookup |-> IF lookups[r].pc = "idle" THEN lookups[r]
                                    ELSE [lookups[r] EXCEPT !.age = @ + 1]]
    /\ UNCHANGED <<vendor, listing, answering, publications, sourceFaults>>

LookupStep(r) ==
    AskCatalogue(r) \/ TokenRefused(r) \/ SourceAnswers(r) \/ SourcePassed(r) \/ LocalList(r)
      \/ Keep(r)

DiscoveryNext ==
    \/ \E r \in Lookup : LookupStep(r)
    \/ Publish \/ SourceFails \/ SourceRecovers \/ TimePasses

DiscoverySpec == DiscoveryInit /\ [][DiscoveryNext]_discoveryVars

-----------------------------------------------------------------------------
DiscoveryTypeOK ==
    /\ vendor \in DOMAIN Chain /\ answering \subseteq RemoteSource /\ kept.age \in 0 .. TooOld
    /\ kept.version \in 0 .. MaxPublications + 1

(* The inductive invariant. What is true now has no age; a request knows of every source
   it passed, and of what it fetched, that it was so since the request began, and the
   entry knows it of the request that kept it. *)
DiscoveryTypes ==
    /\ vendor \in DOMAIN Chain /\ answering \subseteq RemoteSource
    /\ publications \in 0 .. MaxPublications
    /\ listing \in [RemoteSource -> 0 .. publications + 1]
    /\ sinceListed \in [1 .. MaxPublications + 1 -> 0 .. TooOld]
    /\ sinceBad \in [RemoteSource -> 0 .. TooOld]
    /\ kept \in [version : 0 .. MaxPublications + 1, age : 0 .. TooOld]
    /\ lookups \in [Lookup -> [pc : {"idle", "asking", "fetched"}, age : 0 .. SlowestLookup,
                               place : 1 .. Len(Chain[vendor]) + 1,
                               version : 0 .. MaxPublications + 1]]

PresentHasNoAge ==
    \A s \in RemoteSource : /\ Bad(s) => sinceBad[s] = 0
                            /\ listing[s] # 0 => sinceListed[listing[s]] = 0

TrueWithin(version, age) ==
    IF version # Local THEN sinceListed[version] <= age
    ELSE \A i \in DOMAIN Chain[vendor] : sinceBad[Chain[vendor][i]] <= age

DiscoveryIInv ==
    /\ DiscoveryTypes /\ PresentHasNoAge /\ TrueWithin(kept.version, kept.age)
    /\ \A r \in Lookup :
         /\ lookups[r].pc = "asking" => \A i \in 1 .. lookups[r].place - 1 :
                                           sinceBad[Chain[vendor][i]] <= lookups[r].age
         /\ lookups[r].pc = "fetched" => TrueWithin(lookups[r].version, lookups[r].age)

(* What the cache serves was true within its time to live, whichever of several
   slow requests stored it last: a catalogue some source listed then, or the
   local list when every source was then out of order (discover_models takes the
   time before it fetches). *)
ServedIsRecent ==
    Cached => IF kept.version # Local
              THEN sinceListed[kept.version] <= CacheTtl
              ELSE \A i \in DOMAIN Chain[vendor] : sinceBad[Chain[vendor][i]] <= CacheTtl

(* The local list is the last resort: a request that found every source in order
   all the time it took never ends with it. *)
LocalIsTheLastResort ==
    \A r \in Lookup : lookups[r].pc = "fetched" /\ lookups[r].version = Local
        => \A i \in DOMAIN Chain[vendor] : sinceBad[Chain[vendor][i]] <= SlowestLookup

(* Not so: a model that a refresh has shown stays known to the requests after it;
   a slow request that began earlier overwrites the newer result. *)
CatalogueNeverGoesBack ==
    [][kept.version # Local /\ kept'.version # Local => kept'.version >= kept.version]_discoveryVars
=============================================================================
