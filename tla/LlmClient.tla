------------------------------ MODULE LlmClient ------------------------------
(* AnswerClient of llm/openai_client.py: one call of the LLM is a walk over model
   candidates and, for OpenAI, over the interfaces of each candidate, until one
   of them answers. A query makes two such calls, one for the answer and one for
   its verification, each with the time the query has left
   (api/query_answer_resolution.py). Every request of a call gets that time, and a
   second at least; time is counted in half seconds, so that less can be left. *)
EXTENDS Naturals, Sequences

CONSTANTS
    Candidates,     \* the models in the order they are tried
    Kinds,          \* what a model may be, see Kind
    QueryMaxSeconds,         \* query_max_seconds, a whole number
    RequestTimeout,        \* openai_timeout_seconds
    MaxLlmFaults       \* bound: requests that fail for another reason, or time out

(* A model answers on the responses interface, on chat, on chat without a
   temperature, or is not available. *)
Kind == {"responses", "chat", "chat_default_temperature", "gone"}

ASSUME LlmAssumption ==
    /\ Kinds \subseteq Kind /\ Candidates \in Seq(STRING) /\ Candidates # <<>>
    /\ QueryMaxSeconds \in Nat \ {0} /\ RequestTimeout \in Nat \ {0} /\ MaxLlmFaults \in Nat

VARIABLES
    provider,
    kind,        \* model -> Kind
    sdk,         \* what the OpenAI library has: no responses, the old payload, or the new one
    phase,       \* "asked", "answer", "verify", "returned" or "raised"
    candidate,          \* the candidate being tried
    nextRequest,     \* the request to make next
    error,       \* the last error of the call: "none", "selection" or "fault"
    spent,       \* half seconds since the query began
    allowed,     \* half seconds each request of this call may take
    timeouts,    \* requests of this call that ran into it
    llmFaults

llmVars == <<provider, kind, sdk, phase, candidate, nextRequest, error, spent, allowed, timeouts, llmFaults>>
fixed == <<provider, kind, sdk>>

Second == 2                                  \* in half seconds
QueryTime == Second * QueryMaxSeconds
Smaller(a, b) == IF a < b THEN a ELSE b
Larger(a, b)  == IF a < b THEN b ELSE a
Left(s) == IF s < QueryTime THEN QueryTime - s ELSE 0
Timeout(s) == Larger(Second, Smaller(Second * RequestTimeout, Left(s)))
Model == kind[Candidates[candidate]]
First(p) == IF p = "openai" THEN "rest" ELSE "generate"

LlmInit ==
    /\ provider \in {"openai", "vertex", "gemini"}
    /\ kind \in [{Candidates[i] : i \in DOMAIN Candidates} -> Kinds]
    /\ sdk \in {"none", "old_payload", "new_payload"}
    /\ provider # "openai" => sdk = "none"
    /\ phase = "asked" /\ candidate = 1 /\ nextRequest = First(provider) /\ error = "none"
    /\ spent \in {0, QueryTime - 1, QueryTime + 1}        \* by the retrieval before
    /\ allowed = 0 /\ timeouts = 0 /\ llmFaults = 0

Calling == phase \in {"answer", "verify"}

(* A call starts with the time that is left; without any the query goes on as it is. *)
StartCall(p) ==
    /\ IF Left(spent') > 0
       THEN /\ phase' = p /\ candidate' = 1 /\ nextRequest' = First(provider) /\ error' = "none"
            /\ allowed' = Timeout(spent') /\ timeouts' = 0
       ELSE /\ phase' = "returned"
            /\ UNCHANGED <<candidate, nextRequest, error, allowed, timeouts>>
    /\ UNCHANGED <<fixed, llmFaults>>

AskLlm == phase = "asked" /\ spent' = spent /\ StartCall("answer")

(* The text is there, at once or as late as allowed: the verification is next. *)
Succeed ==
    /\ spent' \in {spent, spent + allowed}
    /\ IF phase = "answer" THEN StartCall("verify")
       ELSE /\ phase' = "returned"
            /\ UNCHANGED <<fixed, candidate, nextRequest, error, allowed, timeouts, llmFaults>>

RaiseError(err) ==
    /\ phase' = "raised" /\ error' = err
    /\ UNCHANGED <<fixed, candidate, nextRequest, allowed>>

(* The next request for the same candidate, or the next candidate; after the
   last one the last error is raised. *)
Try(next, err) ==
    /\ nextRequest' = next /\ error' = err
    /\ UNCHANGED <<fixed, phase, candidate, allowed>>

TryNext ==
    IF candidate < Len(Candidates)
    THEN /\ candidate' = candidate + 1 /\ nextRequest' = First(provider) /\ error' = "selection"
         /\ UNCHANGED <<fixed, phase, allowed>>
    ELSE RaiseError("selection")

Instantly == UNCHANGED <<spent, timeouts, llmFaults>>

-----------------------------------------------------------------------------
(* What a model answers to each request. *)
ModelAnswers(req) ==
    CASE req \in {"rest", "sdk", "legacy"} -> Model = "responses"
      [] req = "chat"  -> Model = "chat"
      [] req = "plain" -> Model = "chat_default_temperature"
      [] req = "generate" -> Model # "gone"

PayloadError == nextRequest = "sdk" /\ sdk = "old_payload" /\ Model = "responses"

Works ==
    /\ Calling /\ ModelAnswers(nextRequest) /\ ~PayloadError
    /\ Succeed

(* requests.post to /v1/responses: every error, and an empty text, is passed
   over. Then the library, when it has the responses interface. *)
AfterRest == IF sdk = "none" THEN "chat" ELSE "sdk"

RestRefused ==
    /\ Calling /\ nextRequest = "rest"
    /\ \/ ~ModelAnswers("rest") /\ Try(AfterRest, "selection")
       \/ ModelAnswers("rest") /\ Try(AfterRest, error)          \* no text in it
    /\ Instantly

(* client.responses.create: a payload error is tried again with the messages;
   an error of model selection leads to chat with the same model. *)
SdkRefused ==
    /\ Calling /\ nextRequest \in {"sdk", "legacy"}
    /\ \/ PayloadError /\ Try("legacy", "selection")
       \/ ~ModelAnswers(nextRequest) /\ Try("chat", "selection")
    /\ Instantly

ChatRefused ==
    /\ Calling /\ nextRequest = "chat" /\ ~ModelAnswers("chat")
    /\ IF Model = "chat_default_temperature" THEN Try("plain", "selection") ELSE TryNext
    /\ Instantly

(* _call_vertex_ai goes on to the next candidate, _call_gemini has only one. *)
GenerateRefused ==
    /\ Calling /\ nextRequest = "generate" /\ ~ModelAnswers("generate")
    /\ IF provider = "vertex" THEN TryNext ELSE RaiseError("selection")
    /\ Instantly

(* Any other error, at once or after the timeout: only the REST request passes
   over it. *)
Fault ==
    /\ Calling /\ llmFaults < MaxLlmFaults
    /\ llmFaults' = llmFaults + 1
    /\ \/ spent' = spent /\ timeouts' = timeouts
       \/ spent' = spent + allowed /\ timeouts' = timeouts + 1
    /\ IF nextRequest = "rest" THEN Try(AfterRest, "fault") ELSE RaiseError("fault")

LlmStep == AskLlm \/ Works \/ RestRefused \/ SdkRefused \/ ChatRefused \/ GenerateRefused
LlmNext == LlmStep \/ Fault

LlmSpec == LlmInit /\ [][LlmNext]_llmVars /\ WF_llmVars(LlmStep)

-----------------------------------------------------------------------------
LlmTypeOK ==
    /\ phase \in {"asked", "answer", "verify", "returned", "raised"}
    /\ candidate \in DOMAIN Candidates
    /\ nextRequest \in {"rest", "sdk", "legacy", "chat", "plain", "generate"}
    /\ error \in {"none", "selection", "fault"}
    /\ spent \in Nat /\ timeouts \in 0 .. MaxLlmFaults

(* Without a fault a call fails only when no candidate could have answered it:
   whichever interface a model insists on, the walk reaches it. *)
UsableModelIsReached ==
    phase = "raised" /\ error = "selection" =>
        IF provider = "gemini" THEN kind[Candidates[1]] = "gone"
        ELSE \A i \in DOMAIN Candidates :
                kind[Candidates[i]] = "gone"
                \/ (provider = "openai" /\ sdk = "none" /\ kind[Candidates[i]] = "responses")

(* How far a call can overrun: the REST requests that pass over a timeout, one
   per candidate, and the one timeout that ends the call. *)
TimeoutsAreFew ==
    timeouts <= (IF provider = "openai" THEN candidate + 1 ELSE 1)

(* No call of the LLM, for the answer or for its verification, starts when the budget
   is spent, and one that starts leaves a request less than a second beyond it: a
   request always gets a second (openai_client.py:82, 374). *)
CallsStartInBudget ==
    [][Calling' /\ phase' # phase =>
          spent' < QueryTime /\ spent' + allowed' < QueryTime + Second]_llmVars

(* Not so, although docs/CONFIGURATION.md says it: QUERY_MAX_SECONDS is the global
   limit of latency of the query API. *)
WithinQueryMaxSeconds == spent <= QueryTime

(* A call ends. *)
CallEnded == phase \in {"returned", "raised"}
CallsEnd == <>CallEnded

(* The two above together. *)
LlmIsSound == UsableModelIsReached /\ TimeoutsAreFew

-----------------------------------------------------------------------------
(* Why it is so: the inductive invariant. The candidates the walk has left behind cannot
   answer, and each request it has come to says what the earlier ones have shown of the
   candidate; a timeout was passed over once for each candidate, by its first request. *)
Unusable(i) ==
    \/ kind[Candidates[i]] = "gone"
    \/ provider = "openai" /\ sdk = "none" /\ kind[Candidates[i]] = "responses"

WalkIsThorough ==
    Calling =>
        /\ \A i \in 1 .. candidate - 1 : Unusable(i)
        /\ nextRequest = "sdk" => sdk # "none"
        /\ nextRequest = "legacy" => Model = "responses"
        /\ nextRequest = "chat" => sdk = "none" \/ Model # "responses"
        /\ nextRequest = "plain" => Model = "chat_default_temperature"

RequestsOf == IF provider = "openai" THEN {"rest", "sdk", "legacy", "chat", "plain"}
              ELSE {"generate"}

TimeoutsPassed ==
    Calling => timeouts <= (IF provider # "openai" THEN 0
                            ELSE IF nextRequest = "rest" THEN candidate - 1 ELSE candidate)

LlmIInv ==
    /\ provider \in {"openai", "vertex", "gemini"} /\ sdk \in {"none", "old_payload", "new_payload"}
    /\ kind \in [{Candidates[i] : i \in DOMAIN Candidates} -> Kinds]
    /\ candidate \in DOMAIN Candidates /\ nextRequest \in RequestsOf /\ timeouts \in Nat
    /\ phase \in {"asked", "answer", "verify", "returned", "raised"}
    /\ provider # "openai" => sdk = "none"
    /\ provider = "gemini" => candidate = 1
    /\ WalkIsThorough /\ TimeoutsPassed /\ LlmIsSound
=============================================================================
