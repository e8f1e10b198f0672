---------------------------- MODULE StorageHealth ---------------------------
(* The storage preflight of core/storage_health.py, which guards the endpoints
   of api/server.py: every component is probed by a thread of its own, the
   consolidated report is cached per context for a time to live, and several
   requests may probe, publish and read the cache at once.

   The key of a report is its context and the repository asked about, so requests about
   different repositories share none: the module follows one repository, and a context
   stands for its key. Ages count ticks and saturate at Old: nothing is told apart beyond
   that. *)
EXTENDS Naturals, FiniteSets, FiniteSetsExt

CONSTANTS
    Request,      \* requests in flight
    Context,      \* the contexts asked for
    Flaky,        \* components that may go down; the others stay up
    TTL,          \* health_check_ttl_seconds
    ProbeTimeout,      \* longest time a preflight takes (health_check_timeout_seconds)
    Strict        \* health_check_strict

Component == {"workspace", "metadata", "chroma", "neo4j", "lexical", "openai", "redis"}

ASSUME HealthAssumption ==
    /\ TTL \in Nat /\ ProbeTimeout \in Nat /\ Strict \in BOOLEAN /\ Flaky \subseteq Component
    /\ Context \subseteq {"startup", "ingest", "query", "retrieval_query",
                          "inventory_query", "health"}

VARIABLES
    reachable,         \* components that work
    sinceUp, sinceDown,    \* component -> ticks since it was last up, last down
    reports,      \* context -> the report kept for it and its ages, or Empty
    requests     \* request -> its context, place, observations and last answer

healthVars == <<reachable, sinceUp, sinceDown, reports, requests>>

Old == TTL + ProbeTimeout + 1
Age(n) == Min({n + 1, Old})
Empty == [failed |-> {}, kept |-> Old]
Answered(x, verdict) == [pc |-> "idle", context |-> x, failed |-> {}, pending |-> {},
                         age |-> 0, answer |-> verdict]

-----------------------------------------------------------------------------
(* checks_plan: what is critical depends on the context. The openai and redis
   checks are those of a configuration that enables them. *)
Critical(context) ==
    {"metadata", "chroma", "openai"}
      \union (IF context = "startup" THEN {} ELSE {"neo4j"})
      \union (IF context \in {"query", "retrieval_query", "inventory_query"}
              THEN {} ELSE {"workspace"})

Forced(context) == context \in {"startup", "health"}

(* ensure_storage_ready refuses under the strict policy only; /health reports
   what it finds (_build_mcp_health_fields). *)
Verdict(context, failed) ==
    LET critical == failed \intersect Critical(context)
    IN  IF context = "health"
        THEN IF critical # {} THEN "unhealthy" ELSE IF failed # {} THEN "degraded" ELSE "healthy"
        ELSE IF Strict /\ critical # {} THEN "refused" ELSE "admitted"

HealthInit ==
    /\ reachable = Component
    /\ sinceUp = [c \in Component |-> 0] /\ sinceDown = [c \in Component |-> Old]
    /\ reports = [x \in Context |-> Empty]
    /\ requests = [r \in Request |-> Answered("health", "none")]

(* run_storage_preflight up to the cache: a report within its time to live is
   the answer, unless force is set. *)
Arrive(r, x) ==
    /\ requests[r].pc = "idle"
    /\ requests' = [requests EXCEPT ![r] =
         IF ~Forced(x) /\ reports[x].kept <= TTL
         THEN Answered(x, Verdict(x, reports[x].failed))
         ELSE [Answered(x, "none") EXCEPT !.pc = "probing", !.pending = Flaky]]
    /\ UNCHANGED <<reachable, sinceUp, sinceDown, reports>>

(* One _run_component_check; the probes of a report run concurrently. *)
Probe(r) ==
    /\ requests[r].pc = "probing"
    /\ \E c \in requests[r].pending :
         requests' = [requests EXCEPT ![r].pending = @ \ {c},
                                    ![r].failed = IF c \in reachable THEN @ ELSE @ \union {c}]
    /\ UNCHANGED <<reachable, sinceUp, sinceDown, reports>>

(* Mutant: a report keeps the failures of the one before. *)
ReportAdding(r) ==
    /\ requests[r].pc = "probing" /\ requests[r].pending = {}
    /\ LET x == requests[r].context
           failed == requests[r].failed \union reports[x].failed
       IN  /\ reports' = [reports EXCEPT ![x] = [failed |-> failed, kept |-> 0]]
           /\ requests' = [requests EXCEPT ![r] = Answered(x, Verdict(x, failed))]
    /\ UNCHANGED <<reachable, sinceUp, sinceDown>>

(* All results are in: the report is cached, the last writer wins. *)
Report(r) ==
    /\ requests[r].pc = "probing" /\ requests[r].pending = {}
    /\ LET x == requests[r].context
       IN  /\ reports' = [reports EXCEPT ![x] = [failed |-> requests[r].failed, kept |-> 0]]
           /\ requests' = [requests EXCEPT ![r] = Answered(x, Verdict(x, requests[r].failed))]
    /\ UNCHANGED <<reachable, sinceUp, sinceDown>>

GoesDown(c) ==
    /\ c \in reachable
    /\ reachable' = reachable \ {c} /\ sinceDown' = [sinceDown EXCEPT ![c] = 0]
    /\ UNCHANGED <<sinceUp, reports, requests>>

ComesBack(c) ==
    /\ c \notin reachable
    /\ reachable' = reachable \union {c} /\ sinceUp' = [sinceUp EXCEPT ![c] = 0]
    /\ UNCHANGED <<sinceDown, reports, requests>>

(* Time passes; no preflight outlives its timeouts. *)
Tick ==
    /\ \A r \in Request : requests[r].pc = "probing" => requests[r].age < ProbeTimeout
    /\ sinceUp' = [c \in Component |-> IF c \in reachable THEN 0 ELSE Age(sinceUp[c])]
    /\ sinceDown' = [c \in Component |-> IF c \in reachable THEN Age(sinceDown[c]) ELSE 0]
    /\ reports' = [x \in Context |-> IF reports[x].kept >= TTL THEN Empty
                                   ELSE [reports[x] EXCEPT !.kept = @ + 1]]
    /\ requests' = [r \in Request |-> IF requests[r].pc = "probing"
                                     THEN [requests[r] EXCEPT !.age = @ + 1] ELSE requests[r]]
    /\ UNCHANGED reachable

HealthNext ==
    \/ \E r \in Request : (\E x \in Context : Arrive(r, x)) \/ Probe(r) \/ Report(r)
    \/ \E c \in Flaky : GoesDown(c) \/ ComesBack(c)
    \/ Tick

HealthFairness ==
    /\ SF_healthVars(Tick)    \* time passes, however many requests come
    /\ \A r \in Request : WF_healthVars(Probe(r)) /\ WF_healthVars(Report(r))

HealthSpec == HealthInit /\ [][HealthNext]_healthVars /\ HealthFairness

-----------------------------------------------------------------------------
HealthTypeOK ==
    /\ reachable \subseteq Component
    /\ \A c \in Component : sinceUp[c] \in 0 .. Old /\ sinceDown[c] \in 0 .. Old
    /\ \A x \in Context : reports[x].failed \subseteq Component /\ reports[x].kept \in 0 .. Old
    /\ \A r \in Request : requests[r].failed \subseteq Component /\ requests[r].age \in 0 .. ProbeTimeout

(* How stale the evidence behind an answer may be: the time to live of a report
   and the duration of the preflight that made it, also when a slow preflight
   publishes over a newer one. A forced preflight answers from its own probes. *)
Staleness(x) == IF Forced(x) THEN ProbeTimeout ELSE TTL + ProbeTimeout

(* A request is admitted only if each component critical to it was up within
   that time. *)
RequestAnswered(r) == requests'[r] # requests[r] /\ requests'[r].answer # "none"
AdmittedSoonAfterUp == [][
    \A r \in Request :
        RequestAnswered(r) /\ (requests'[r].answer \in {"healthy", "degraded"}
                         \/ (Strict /\ requests'[r].answer = "admitted"))
        => \A c \in Critical(requests'[r].context) : sinceUp[c] <= Staleness(requests'[r].context)
    ]_healthVars

(* A request is refused only if one of them was down within that time. *)
RefusedSoonAfterDown == [][
    \A r \in Request : RequestAnswered(r) /\ requests'[r].answer \in {"refused", "unhealthy"}
        => \E c \in Critical(requests'[r].context) : sinceDown[c] <= Staleness(requests'[r].context)
    ]_healthVars

(* When every component stays up, refusals come to an end: no report of the
   outage is served, or renewed, for ever. *)
OutageIsForgotten ==
    <>[](reachable = Component)
    => <>[][\A r \in Request : RequestAnswered(r) => requests'[r].answer # "refused"]_healthVars

(* The cached report follows the stores: soon after a store is up requests are
   admitted, soon after it is down they are refused, and an outage is forgotten. *)
OutagesAreNoticed == AdmittedSoonAfterUp /\ RefusedSoonAfterDown /\ OutageIsForgotten

-----------------------------------------------------------------------------
(* Why the first two are so: the inductive invariant. What a request has found of a
   component was so within the age of its preflight, and what a report in the cache says
   within the time it was kept and the longest preflight. *)
WasSo(failed, components, ticks) ==
    \A c \in components : IF c \in failed THEN sinceDown[c] <= ticks ELSE sinceUp[c] <= ticks

NowIsNoTick == \A c \in Component : IF c \in reachable THEN sinceUp[c] = 0 ELSE sinceDown[c] = 0

ProbesAreRecent ==
    \A r \in Request : requests[r].pc = "probing" =>
        /\ requests[r].answer = "none" /\ requests[r].age <= ProbeTimeout
        /\ requests[r].context \in Context
        /\ requests[r].pending \intersect requests[r].failed = {}
        /\ WasSo(requests[r].failed, Component \ requests[r].pending, requests[r].age)

ReportsAreRecent ==
    \A x \in Context : reports[x].kept <= TTL =>
        WasSo(reports[x].failed, Component, reports[x].kept + ProbeTimeout)

HealthState == [pc : {"idle", "probing"}, context : Context \union {"health"},
                failed : SUBSET Component, pending : SUBSET Component, age : Nat,
                answer : {"none", "admitted", "refused", "healthy", "degraded", "unhealthy"}]

HealthIInv ==
    /\ reachable \subseteq Component /\ Component \ Flaky \subseteq reachable
    /\ sinceUp \in [Component -> Nat] /\ sinceDown \in [Component -> Nat]
    /\ reports \in [Context -> [failed : SUBSET Component, kept : Nat]]
    /\ requests \in [Request -> HealthState]
    /\ NowIsNoTick /\ ProbesAreRecent /\ ReportsAreRecent
=============================================================================
