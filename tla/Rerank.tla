-------------------------------- MODULE Rerank --------------------------------
(* retrieval/reranker.py: the candidates of a question are scored by what the
   question asks for and by what each chunk is, then selected one at a time, a
   file that was already shown paying a penalty. Scores are in hundredths.

   Text is abstracted to the predicates the scoring reads. Of a question: the
   classes of its words and whether it names a symbol. Of a chunk: the classes
   of its path ("named": a segment is the symbol asked for), how its symbol relates
   to the one asked for, the type of that symbol, and how much of the question its
   symbol, path and text cover. *)
EXTENDS Integers, FiniteSets, Sequences

CONSTANTS
    Asked,        \* the questions of the instance
    Pool,         \* the chunks of the instance
    MaxPicked,    \* bound: chunks that compete
    TopK          \* top_k

VARIABLES question, scored, ranked, shown
rerankVars == <<question, scored, ranked, shown>>

Word == {"define", "where", "docs", "overview", "config", "code", "test", "implement"}
Question == [words : SUBSET Word, target : {"none", "named", "exact"}]

Chunk == [file : STRING, base : Nat,
          path : SUBSET {"source", "orchestration", "wrapper", "test", "docs",
                         "config", "example", "noise", "named"},
          symbol : {"none", "exact", "private", "prefixed", "other"},
          type   : {"definition", "section", "config_key", "other"},
          names  : BOOLEAN,          \* the text mentions the symbol asked for
          others : BOOLEAN,          \* the text mentions another symbol
          sov : 0 .. 100, pov : 0 .. 100, tov : 0 .. 100]   \* overlaps, in percent

ASSUME RerankAssumption ==
    MaxPicked \in Nat /\ TopK \in Nat /\ Asked \subseteq Question /\ Pool \subseteq Chunk

-----------------------------------------------------------------------------
(* _build_query_profile *)
Profile(q) ==
    LET has(w)   == w \in q.words
        docs     == has("docs") \/ has("overview")
        lookup   == has("define") \/ (q.target # "none" /\ has("where") /\ ~docs /\ ~has("config"))
    IN  [exact |-> q.target = "exact", named |-> q.target # "none",
         definitions |-> q.target # "none" /\ (lookup \/ q.target = "exact"),
         docs |-> docs, overview |-> has("overview"),
         config |-> has("config") /\ ~docs,
         code |-> has("code") \/ lookup \/ has("overview"), test |-> has("test"),
         implementation |-> has("implement") \/ lookup \/ q.target = "exact"]

(* _is_productive_implementation_path and the predicates built on it *)
Productive(c) == "source" \in c.path /\ c.path \intersect {"test", "noise", "docs"} = {}

DefinitionLike(c) ==
    /\ c.symbol # "none" /\ c.type = "definition"
    /\ Productive(c) /\ "example" \notin c.path

(* _is_wrapper_or_entrypoint_chunk *)
WrapperLike(c) ==
    /\ c.symbol \notin {"none", "exact"} /\ c.names
    /\ "wrapper" \in c.path \/ c.others

StrongOverlap(c) == c.sov >= 50 \/ c.pov >= 50 \/ c.tov >= 50

PreferredDefinition(p, c) == p.definitions /\ c.symbol = "exact" /\ DefinitionLike(c)

-----------------------------------------------------------------------------
(* _score_chunk: a sum of rules, grouped by what the question prefers. *)
W(rule, weight) == IF rule THEN weight ELSE 0
In(c, class) == class \in c.path

Overlap(c) == (55 * c.sov + 25 * c.pov + 15 * c.tov) \div 100

IdentifierRules(p, c) ==
    W(p.exact /\ c.symbol \in {"exact", "private"}, 90) + W(p.exact /\ In(c, "named"), 35)
    + W(p.named /\ c.symbol \in {"exact", "private"}, 75) + W(p.named /\ In(c, "named"), 30)

DefinitionRules(p, c) ==
    LET exact == c.symbol = "exact"   private == c.symbol = "private"
        orchestration == In(c, "orchestration")
    IN  IF ~p.definitions THEN 0 ELSE
        W(exact, 115) + W(private /\ DefinitionLike(c), 95) + W(DefinitionLike(c), 45)
        + W(Productive(c), 20)
        + W(c.names /\ Productive(c) /\ ~WrapperLike(c), 35)
        + W(c.symbol = "none" /\ c.names /\ Productive(c), 35)
        - W(WrapperLike(c), 60) - W(WrapperLike(c) /\ orchestration, 145)
        - W((exact \/ private) /\ orchestration, 22)
        - W(c.symbol = "none" /\ orchestration /\ ~c.names, 40)
        - W(c.symbol = "prefixed", 120) - W(In(c, "test") /\ ~exact, 85)
        - W(In(c, "docs"), 45) - W(In(c, "example"), 30) - W(In(c, "config") /\ ~exact, 35)

DocsRules(p, c) ==
    IF ~p.docs \/ p.test THEN 0 ELSE
    W(In(c, "docs"), 85) + W(In(c, "docs") /\ c.names, 410)
    + W(In(c, "docs") /\ c.names /\ c.type = "section", 25) + W(c.tov >= 30, 20)
    - W(In(c, "config"), 60) - W(In(c, "test"), 40)

ConfigRules(p, c) ==
    IF ~p.config \/ p.test THEN 0 ELSE
    W(In(c, "config"), 40) + W(c.type = "config_key", 30) - W(In(c, "docs"), 30)
    - W(In(c, "test") /\ ~StrongOverlap(c), 45)

OverviewRules(p, c) ==
    IF ~p.overview \/ p.test THEN 0 ELSE
    W(In(c, "docs"), 55) + W(Productive(c) /\ c.type = "definition", 55)
    + W(Productive(c) /\ ~In(c, "docs") /\ ~In(c, "config"), 15)
    - W(In(c, "config"), 75) - W(In(c, "test"), 60) - W(In(c, "example"), 45)

CodeRules(p, c) ==
    IF ~p.code \/ (p.docs /\ ~p.overview) THEN 0 ELSE
    W(c.type = "definition", 30) + W(Productive(c) /\ c.type = "definition", 35)
    + W(c.sov >= 40 /\ c.type = "definition", 40) + W(p.implementation /\ c.sov >= 40, 25)
    - W(p.implementation /\ WrapperLike(c) /\ c.sov < 30 /\ c.tov >= 40, 30)
    - W(c.symbol = "prefixed", 60)
    - W(In(c, "config") /\ ~StrongOverlap(c) /\ ~p.config, 15)
    - W(In(c, "docs") /\ ~p.docs, 15) - W(In(c, "test") /\ ~p.test, 55)

ScoreChunk(p, c) ==
    c.base + Overlap(c) + IdentifierRules(p, c) + DefinitionRules(p, c) + DocsRules(p, c)
    + ConfigRules(p, c) + OverviewRules(p, c) + CodeRules(p, c)
    + W(p.test /\ In(c, "test"), 45) - W(In(c, "noise") /\ ~StrongOverlap(c), 20)

-----------------------------------------------------------------------------
(* rerank: the loop over the candidates that remain. *)
Penalty(count) == CASE count = 0 -> 0 [] count = 1 -> 50 [] OTHER -> 80

Times(file) == Cardinality({i \in DOMAIN shown : shown[i].chunk.file = file})
Adjusted(s) == s.score - Penalty(Times(s.chunk.file))

(* The choice of one step: the first of the best, which the promotion of a
   definition to the first place cannot change unless it is one of the best: the
   second loop starts from its score and takes any candidate above it. *)
Best == {s \in ranked : \A other \in ranked : Adjusted(other) <= Adjusted(s)}
MentionsOnly(c) == c.symbol = "none" /\ c.names /\ Productive(c)
Promotable(p, c) == p.definitions /\ (PreferredDefinition(p, c) \/ MentionsOnly(c))
Promoted == {s \in Best : shown = <<>> /\ Promotable(Profile(question), s.chunk)}

RerankInit ==
    /\ question \in Asked
    /\ scored \in {S \in SUBSET Pool : Cardinality(S) \in 1 .. MaxPicked}
    /\ ranked = {} /\ shown = <<>>

Score ==
    /\ ranked = {} /\ shown = <<>>
    /\ ranked' = {[chunk |-> c, score |-> ScoreChunk(Profile(question), c)] : c \in scored}
    /\ UNCHANGED <<question, scored, shown>>

Select ==
    /\ ranked # {} /\ Len(shown) < TopK
    /\ \E s \in IF Promoted # {} THEN Promoted ELSE Best :
          /\ ranked' = ranked \ {s}
          /\ shown' = Append(shown, [s EXCEPT !.score = Adjusted(s)])
    /\ UNCHANGED <<question, scored>>

RerankNext == Score \/ Select
RerankSpec == RerankInit /\ [][RerankNext]_rerankVars

-----------------------------------------------------------------------------
RerankTypeOK ==
    /\ question \in Question /\ scored \subseteq Pool /\ scored \subseteq Chunk
    /\ \A s \in ranked : s.chunk \in scored
    /\ Len(shown) <= TopK

Rank(c) == ScoreChunk(Profile(question), c)

(* A lookup of a symbol puts its definition above every chunk that has another name, in
   whatever file it is, and that covers no more of the question, whatever words the
   question adds, unless they ask for documents or tests: apart from the scores of the
   search, by 0.88 at least. (The private symbol of the same name may go before one in a
   path of entry points.) The tests of the reranker give single examples of it. *)
DefinitionLead == 88

CoversNoMore(c, d) == c.sov <= d.sov /\ c.pov <= d.pov /\ c.tov <= d.tov

DefinitionWins ==
    \A d \in scored, c \in scored :
        LET p == Profile(question)
        IN  /\ PreferredDefinition(p, d) /\ ~p.docs /\ ~p.test
            /\ c.symbol \notin {"exact", "private"} /\ CoversNoMore(c, d)
            => Rank(c) - c.base + DefinitionLead <= Rank(d) - d.base

(* A question about documentation that looks nothing up puts a plain document that names
   the symbol above every chunk outside the documents that the search did not score
   higher, the code that is the symbol included. *)
PlainDocument(c) ==
    "docs" \in c.path /\ c.path \intersect {"test", "config", "example", "noise"} = {}

DocsWinDocsQuestions ==
    \A d \in scored, c \in scored :
        LET p == Profile(question)
        IN  /\ p.docs /\ ~p.test /\ ~p.definitions /\ PlainDocument(d) /\ d.names
            /\ "docs" \notin c.path /\ c.base <= d.base
            => Rank(c) < Rank(d)

(* No file is shown again while a file not yet shown has a candidate within its
   penalty: the second chunk of a file leads every new file by half a point. *)
RepeatsAreEarned ==
    \A i \in DOMAIN shown :
        (\E j \in 1 .. i - 1 : shown[j].chunk.file = shown[i].chunk.file) =>
            \A s \in ranked \union {shown[k] : k \in i + 1 .. Len(shown)} :
                s.chunk.file \notin {shown[j].chunk.file : j \in 1 .. i}
                    => Rank(s.chunk) + 50 <= Rank(shown[i].chunk)

(* The scores of the answer descend, penalties included. *)
ScoresDescend ==
    \A i, j \in DOMAIN shown : i < j => shown[j].score <= shown[i].score

-----------------------------------------------------------------------------
(* Why the answer is in order: the inductive invariant. A candidate has its own score, and
   with its penalty it is not above any chunk that was taken before it. *)
CandidatesAreScored ==
    /\ scored \subseteq Chunk /\ shown \in Seq([chunk : Chunk, score : Int])
    /\ ranked \subseteq [chunk : Chunk, score : Int]
    /\ \A s \in ranked : s.chunk \in scored /\ s.score = Rank(s.chunk)

TakenLead == \A s \in ranked, i \in DOMAIN shown : Adjusted(s) <= shown[i].score

RerankIInv ==
    RerankTypeOK /\ CandidatesAreScored /\ TakenLead /\ ScoresDescend /\ RepeatsAreEarned
=============================================================================
