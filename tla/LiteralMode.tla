----------------------------- MODULE LiteralMode ------------------------------
(* api/literal_mode.py: a question for the code of a component is answered with
   the text the index holds of it. The names the question holds are tried in
   turn; a lookup that fails is treated as one that found nothing. Beside it, the
   lines of a brace delimited symbol, which the refinement of the first chunk
   reads from the workspace. *)
EXTENDS Integers, Sequences, FiniteSets, SequencesExt

CONSTANTS
    Questions,     \* [files, symbols]: names in the order they are tried
    Definition,    \* symbol name -> set of [path, test] that define it in the graph
    FullText,      \* files whose text the lexical store holds
    SymbolText,    \* <<path, symbol>> that Chroma or the lexical store hold
    MaxLookupFaults,    \* bound: failed lookups
    Sources        \* files of the workspace: sequences of lines of brace characters

(* A symbol has finitely many definitions, and whether one is a test is read from its
   path (_looks_like_test_path). *)
ASSUME LiteralAssumption ==
    /\ MaxLookupFaults \in Nat
    /\ \A q \in Questions : q.files \in Seq(STRING) /\ q.symbols \in Seq(DOMAIN Definition)
    /\ \A s \in DOMAIN Definition :
          /\ IsFiniteSet(Definition[s])
          /\ \A d, e \in Definition[s] : d.path = e.path => d.test = e.test
    /\ \A lines \in Sources : lines \in Seq(Seq({"{", "}", "x"}))

VARIABLES wanted, tries, outages, lookupFailed, reply, source
literalVars == <<wanted, tries, outages, lookupFailed, reply, source>>

Unresolved == [status |-> "none", path |-> "none", symbol |-> "none"]

LiteralStart(q, lines) ==
    /\ wanted = q /\ source = lines
    /\ tries = 0 /\ outages = 0 /\ lookupFailed = {} /\ reply = Unresolved

LiteralInit ==
    \/ \E q \in Questions : LiteralStart(q, <<>>)
    \/ \E lines \in Sources : LiteralStart([files |-> <<>>, symbols |-> <<>>], lines)

-----------------------------------------------------------------------------
Names == Len(wanted.files) + Len(wanted.symbols)
Pending == reply = Unresolved
Located(path, symbol) ==
    reply' = [status |-> "resolved", path |-> path, symbol |-> symbol]

(* A lookup that raises: the name is passed over. *)
Miss ==
    /\ tries' = tries + 1 /\ reply' = reply /\ UNCHANGED <<wanted, source>>
LookupRaises(name) ==
    /\ outages < MaxLookupFaults /\ outages' = outages + 1 /\ lookupFailed' = lookupFailed \union {name}
    /\ Miss
LookupAnswers == UNCHANGED <<outages, lookupFailed>>

(* get_file_snippet for the next path of the question. *)
TryFile ==
    /\ Pending /\ tries < Len(wanted.files)
    /\ LET path == wanted.files[tries + 1]
       IN  \/ LookupRaises(path)
           \/ path \notin FullText /\ LookupAnswers /\ Miss
           \/ /\ path \in FullText /\ LookupAnswers
              /\ tries' = tries + 1 /\ Located(path, "none")
              /\ UNCHANGED <<wanted, source>>

(* _select_unambiguous_candidate: the only definition, or the only one that is no
   test. *)
Selected(defs) ==
    IF Cardinality(defs) = 1 THEN defs
    ELSE LET production == {d \in defs : ~d.test}
         IN  IF Cardinality(production) = 1 THEN production ELSE {}

(* get_symbol_definitions, then get_symbol_snippet, for the next name. *)
TrySymbol ==
    /\ Pending /\ tries >= Len(wanted.files) /\ tries < Names
    /\ LET name == wanted.symbols[tries + 1 - Len(wanted.files)]
           defs == Definition[name]
       IN  \/ LookupRaises(name)
           \/ defs = {} /\ LookupAnswers /\ Miss
           \/ /\ defs # {} /\ Selected(defs) = {} /\ LookupAnswers
              /\ reply' = [Unresolved EXCEPT !.status = "ambiguous_component"]
              /\ UNCHANGED <<wanted, tries, source>>
           \/ \E d \in Selected(defs) :
                 /\ <<d.path, name>> \notin SymbolText /\ LookupAnswers /\ Miss
           \/ \E d \in Selected(defs) :
                 /\ <<d.path, name>> \in SymbolText /\ LookupAnswers
                 /\ tries' = tries + 1 /\ Located(d.path, name)
                 /\ UNCHANGED <<wanted, source>>

(* No name is left. "file_not_found" is said only of a question with paths and
   no other name. *)
GiveUp ==
    /\ Pending /\ tries = Names
    /\ reply' = [Unresolved EXCEPT !.status =
                   IF wanted.symbols = <<>> /\ wanted.files # <<>>
                   THEN "file_not_found" ELSE "component_not_found"]
    /\ UNCHANGED <<wanted, tries, outages, lookupFailed, source>>

LiteralNext == TryFile \/ TrySymbol \/ GiveUp
LiteralSpec == LiteralInit /\ [][LiteralNext]_literalVars /\ WF_literalVars(LiteralNext)

-----------------------------------------------------------------------------
(* brace_block_end and the part of generic_symbol_spans that calls it. A line is
   a sequence of "{", "}" and "x"; the symbol starts on the first line. *)
Unopened == [balance |-> 0, opened |-> FALSE, end |-> 0]

Read(s, char, i) ==
    CASE s.end = 0 /\ char = "{" -> [s EXCEPT !.balance = @ + 1, !.opened = TRUE]
      [] s.end = 0 /\ char = "}" /\ s.opened ->
           [s EXCEPT !.balance = @ - 1, !.end = IF s.balance <= 1 THEN i ELSE 0]
      [] OTHER -> s

ScanLine(s, line, i) ==
    LET u[k \in 0 .. Len(line)] == IF k = 0 THEN s ELSE Read(u[k - 1], line[k], i)
    IN  u[Len(line)]

Scan(lines) ==
    LET s[i \in 0 .. Len(lines)] == IF i = 0 THEN Unopened ELSE ScanLine(s[i - 1], lines[i], i)
    IN  s[Len(lines)]

BraceBlockEnd(lines) == IF Scan(lines).end = 0 THEN 1 ELSE Scan(lines).end

HasBrace(line) == "{" \in ToSet(line)
SpanEnd(lines) ==
    IF HasBrace(lines[1]) \/ (Len(lines) > 1 /\ HasBrace(lines[2]))
    THEN BraceBlockEnd(lines) ELSE 1

-----------------------------------------------------------------------------
LiteralTypeOK ==
    /\ tries \in 0 .. Names /\ outages \in 0 .. MaxLookupFaults
    /\ reply.status \in {"none", "resolved", "ambiguous_component", "component_not_found",
                         "file_not_found"}

(* What the index can answer for a name. *)
FileAnswers(path) == path \in FullText
SymbolAnswers(name) == \E d \in Selected(Definition[name]) : <<d.path, name>> \in SymbolText

(* The answer is for the first name of the question the index can answer: one
   before it was passed over only because its lookup failed. *)
FirstNameIsAnswered ==
    reply.status = "resolved" =>
        /\ \A i \in DOMAIN wanted.files :
              FileAnswers(wanted.files[i]) /\ wanted.files[i] \notin lookupFailed =>
                  reply.symbol = "none"
                  /\ \E j \in 1 .. i : reply.path = wanted.files[j]
        /\ \A i \in DOMAIN wanted.symbols :
              /\ reply.symbol # "none"
              /\ SymbolAnswers(wanted.symbols[i]) /\ wanted.symbols[i] \notin lookupFailed
              => \E j \in 1 .. i : reply.symbol = wanted.symbols[j]

(* Code is never shown of one of several production definitions, nor of a test
   while there is another definition. *)
NeverGuesses ==
    reply.status = "resolved" /\ reply.symbol # "none" =>
        LET defs == Definition[reply.symbol]
        IN  /\ Cardinality({d \in defs : ~d.test}) <= 1
            /\ (\E d \in defs : d.path = reply.path /\ d.test) => Cardinality(defs) = 1

(* "Not found" is true of every name, or a lookup failed: an outage of the graph
   or of a store is reported as the absence of the component. *)
NotFoundIsTrueOrOutage ==
    reply.status \in {"component_not_found", "file_not_found"} =>
        /\ \A i \in DOMAIN wanted.files :
              FileAnswers(wanted.files[i]) => wanted.files[i] \in lookupFailed
        /\ \A i \in DOMAIN wanted.symbols :
              SymbolAnswers(wanted.symbols[i]) => wanted.symbols[i] \in lookupFailed

(* What is shown of a symbol ends on the line of the brace that closes its first
   one, if that one is on the line of the symbol or on the next; else it is the line
   of the symbol, whatever braces come before or later. *)
Flat(lines) ==
    LET t[n \in 0 .. Len(lines)] == IF n = 0 THEN <<>> ELSE t[n - 1] \o lines[n]
    IN  t
Closed(chars) ==
    \E first, last \in DOMAIN chars :
        LET Count(c) == Cardinality({i \in first .. last : chars[i] = c})
        IN  /\ first < last /\ chars[first] = "{" /\ \A i \in 1 .. first - 1 : chars[i] # "{"
            /\ Count("{") = Count("}")

BlockIsBalanced ==
    source # <<>> =>
        LET closing == {n \in DOMAIN source : Closed(Flat(source)[n])}
            begins  == \E n \in DOMAIN source : n <= 2 /\ "{" \in ToSet(Flat(source)[n])
        IN  IF closing = {} \/ ~begins THEN SpanEnd(source) = 1
            ELSE /\ SpanEnd(source) \in closing
                 /\ \A n \in closing : SpanEnd(source) <= n

(* Every question is answered. *)
QuestionEnded == ~Pending
QuestionsEnd == <>QuestionEnded

(* What is answered in the place of the question is: the first name that can be, no
   guess, and a refusal only for a reason. *)
LiteralIsSound == FirstNameIsAnswered /\ NeverGuesses /\ NotFoundIsTrueOrOutage

-----------------------------------------------------------------------------
(* Why it is so: the inductive invariant. While no answer is given, a name that was tried
   could not be answered, or its lookup failed. *)
PassedOver ==
    Pending =>
        /\ \A i \in 1 .. Len(wanted.files) :
              i <= tries /\ FileAnswers(wanted.files[i]) => wanted.files[i] \in lookupFailed
        /\ \A i \in 1 .. Len(wanted.symbols) :
              Len(wanted.files) + i <= tries /\ SymbolAnswers(wanted.symbols[i])
                  => wanted.symbols[i] \in lookupFailed

LiteralIInv ==
    /\ wanted.files \in Seq(STRING) /\ wanted.symbols \in Seq(DOMAIN Definition)
    /\ tries \in 0 .. Names
    /\ PassedOver /\ LiteralIsSound
=============================================================================
