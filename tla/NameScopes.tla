----------------------------- MODULE NameScopes ------------------------------
(* How a name in a source file is tied to a symbol of the repository: the target
   resolvers of ingestion/semantic_java.py, semantic_kotlin.py, semantic_swift.py,
   semantic_typescript.py, semantic_javascript.py and semantic_python.py. Each is
   a ladder: the first rule that finds a symbol answers, and names the method of
   resolution; a name no scope explains goes to the only symbol of that name in
   the repository, if there is only one.

   The symbols of a repository come in scan order, one at a time; a symbol is its
   position, and what the rules see of it is its name, its file, the package of
   the file (Python: its module; Swift: the directories of its path), whether it
   is a type, and the type that owns it: only methods and constructors have an
   owner. An answer is a set: empty, or the one symbol. *)
EXTENDS Integers, Sequences, FiniteSets

CONSTANTS
    Symbol,       \* what a scan may find
    Scope,        \* what the file under study says: its own path and package, its
                  \* imports, and the reference to resolve
    MaxSymbols

NoName == "none"

ASSUME ScopeAssumption ==
    /\ Symbol \subseteq [name : STRING, file : STRING, package : STRING, type : BOOLEAN,
                         owner : STRING]
    /\ \A s \in Symbol : s.type => s.owner = NoName
    /\ Scope \subseteq [name : STRING, file : STRING, package : STRING, prefix : STRING,
                        imported : STRING, wildcards : Seq(STRING \ {NoName}),
                        statics : Seq(STRING \X STRING), owner : STRING]

VARIABLES scanned, scope
scopeVars == <<scanned, scope>>

Where(code, P(_)) == {i \in DOMAIN code : P(code[i])}
Latest(S) == {i \in S : \A j \in S : j <= i}
Earliest(S) == {i \in S : \A j \in S : i <= j}

Only(S) == IF Cardinality(S) = 1 THEN S ELSE {}

-----------------------------------------------------------------------------
(* The indexes of all extractors. by_file_name keeps the last symbol of a name,
   and so does the index of qualified names. *)
InFile(code, n) == Where(code, LAMBDA s : s.file = scope.file /\ s.name = n)

(* Mutant: the index is keyed by the simple name. *)
QualifiedByName(code, package, n) ==
    IF package = NoName THEN {} ELSE Latest(Where(code, LAMBDA s : s.name = n))

Qualified(code, package, n) ==
    IF package = NoName THEN {} ELSE Latest(Where(code, LAMBDA s : s.package = package /\ s.name = n))
(* Kotlin indexes its classes, interfaces, enums and functions: a method or a
   constructor has no qualified name. *)
QualifiedTop(code, package, n) ==
    IF package = NoName THEN {}
    ELSE Latest(Where(code, LAMBDA s : s.package = package /\ s.name = n /\ s.owner = NoName))
QualifiedType(code, package, n) ==
    IF package = NoName THEN {}
    ELSE Latest(Where(code, LAMBDA s : s.package = package /\ s.name = n /\ s.type))
EverywhereType(code, n) == Where(code, LAMBDA s : s.name = n /\ s.type)
Everywhere(code, n) == Where(code, LAMBDA s : s.name = n)

(* The rules are tried in order. *)
Ladder(rules) ==
    LET found == {k \in DOMAIN rules : rules[k].is # {}}
    IN  IF found = {} THEN [by |-> "unresolved", is |-> {}]
        ELSE rules[CHOOSE k \in found : \A l \in found : k <= l]
Rule(by, is) == [by |-> by, is |-> is]

(* What is found in each package of an import list, and the first that has the name. *)
FirstOf(finds) ==
    LET hits == {k \in DOMAIN finds : finds[k] # {}}
    IN  IF hits = {} THEN {} ELSE finds[CHOOSE k \in hits : \A l \in hits : k <= l]

WildcardTypes(code, n) ==
    [k \in DOMAIN scope.wildcards |-> QualifiedType(code, scope.wildcards[k], n)]
WildcardNames(code, n) ==
    [k \in DOMAIN scope.wildcards |-> QualifiedTop(code, scope.wildcards[k], n)]
StaticTypes(code) ==
    [k \in DOMAIN scope.statics |->
        QualifiedType(code, scope.statics[k][1], scope.statics[k][2])]

(* semantic_java.py: the owner of a static import of the name, if there is one, then those
   of the static wildcards. A wildcard answers for every name, whether its owner has such
   a member or not, and before the file's own package. *)
JavaAnswer(code) ==
    LET n == scope.name
    IN  Ladder(<<
            Rule("fqcn", QualifiedType(code, scope.prefix, n)),
            Rule("local", Latest(InFile(code, n))),
            Rule("import", QualifiedType(code, scope.imported, n)),
            Rule("static_import", FirstOf(StaticTypes(code))),
            Rule("import_wildcard", FirstOf(WildcardTypes(code, n))),
            Rule("same_package", QualifiedType(code, scope.package, n)),
            Rule("global_unique", Only(EverywhereType(code, n))) >>)

(* semantic_kotlin.py: top-level functions have qualified names too, and the file's own
   package goes before the wildcards. *)
KotlinAnswer(code) ==
    LET n == scope.name
    IN  Ladder(<<
            Rule("import", QualifiedTop(code, scope.prefix, n)),
            Rule("local", Latest(InFile(code, n))),
            Rule("import", QualifiedTop(code, scope.imported, n)),
            Rule("same_package", QualifiedTop(code, scope.package, n)),
            Rule("import_wildcard", FirstOf(WildcardNames(code, n))),
            Rule("global_unique", Only(Everywhere(code, n))) >>)

(* semantic_typescript.py and semantic_javascript.py: a namespace import, then
   what an import clause binds, then the file, first symbol first. *)
ScriptAnswer(code) ==
    LET n == scope.name
    IN  Ladder(<<
            Rule("namespace_import", Qualified(code, scope.prefix, n)),
            Rule("import_binding", IF scope.prefix = NoName THEN Qualified(code, scope.imported, n) ELSE {}),
            Rule("local", IF scope.prefix = NoName THEN Earliest(InFile(code, n)) ELSE {}),
            Rule("global_unique", IF scope.prefix = NoName THEN Only(Everywhere(code, n)) ELSE {}) >>)

(* semantic_python.py: a plain name of the file wins even over an import of that
   name; the last part of a dotted name may be the only one of its kind. *)
PythonAnswer(code) ==
    LET n == scope.name
    IN  Ladder(<<
            Rule("local", IF scope.prefix = NoName THEN Latest(InFile(code, n)) ELSE {}),
            Rule("alias", IF scope.prefix = NoName THEN Qualified(code, scope.imported, n)
                                                 ELSE Qualified(code, scope.prefix, n)),
            Rule("qualified", Qualified(code, scope.prefix, n)),
            Rule("global_unique", Only(Everywhere(code, n))) >>)

(* semantic_swift.py: the only symbol of a name answers before the type of the
   receiver is asked; then the owner's name with a module written in the call or
   imported by the file, then an imported module alone. *)
OfOwner(code, n) ==
    IF scope.owner = NoName THEN {} ELSE Where(code, LAMBDA s : s.name = n /\ s.owner = scope.owner)
Within(code, S, packages) == {i \in S : code[i].package \in packages}
Modules == {scope.wildcards[k] : k \in DOMAIN scope.wildcards}
SwiftAnswer(code) ==
    LET n == scope.name
        written == IF scope.prefix = NoName THEN {} ELSE Within(code, OfOwner(code, n), {scope.prefix})
        viaImport == Within(code, OfOwner(code, n) \ written, Modules)
    IN  Ladder(<<
            Rule("local", Latest(InFile(code, n))),
            Rule("global_unique", Only(Everywhere(code, n))),
            Rule("owner_path", Only(written)),
            Rule("owner_import_module_path", Only(viaImport)),
            Rule("import_module_path", Only(Within(code, Everywhere(code, n), Modules))) >>)

Answer(language, code) ==
    CASE language = "java"   -> JavaAnswer(code)
      [] language = "kotlin" -> KotlinAnswer(code)
      [] language = "script" -> ScriptAnswer(code)
      [] language = "python" -> PythonAnswer(code)
      [] language = "swift"  -> SwiftAnswer(code)

Language == {"java", "kotlin", "script", "python", "swift"}

-----------------------------------------------------------------------------
ScopeInit == scanned = <<>> /\ scope \in Scope

Scan ==
    /\ Len(scanned) < MaxSymbols
    /\ \E s \in Symbol : scanned' = Append(scanned, s)
    /\ UNCHANGED scope

ScopeNext == Scan
ScopeSpec == ScopeInit /\ [][ScopeNext]_scopeVars

-----------------------------------------------------------------------------
(* The file can name the symbol: it is its own, of its package, or imported. *)
Visible(s) ==
    \/ s.file = scope.file
    \/ s.package \in ({scope.package, scope.imported, scope.prefix} \union Modules) \ {NoName}
    \/ \E k \in DOMAIN scope.statics : scope.statics[k] = <<s.package, s.name>>

Scoped(a) == a.by \notin {"global_unique", "unresolved"}

(* A file elsewhere in the repository never redirects an edge that a scope
   explains; it can only take away the uniqueness that an edge without a scope
   rests on. An incremental ingest relies on it: it leaves the edges of the files
   that did not change as they are (the _resolve_target of every extractor). *)
ScopedEdgesAreStable ==
    [][ scanned' # scanned /\ ~Visible(scanned'[Len(scanned')]) =>
          \A l \in Language :
             Scoped(Answer(l, scanned)) => Answer(l, scanned)' = Answer(l, scanned) ]_scopeVars

(* The order of the scan decides nothing, as long as no two symbols of a name
   share a file or a package (the indexes keep the last of them). *)
SwappedAt(k) == [i \in DOMAIN scanned |-> CASE i = k     -> scanned[k + 1]
                                            [] i = k + 1 -> scanned[k]
                                            [] OTHER     -> scanned[i]]
Distinct ==
    \A i, j \in DOMAIN scanned :
        i # j /\ scanned[i].name = scanned[j].name =>
            scanned[i].file # scanned[j].file /\ scanned[i].package # scanned[j].package
AnsweredSymbol(l, code) == {code[i] : i \in Answer(l, code).is}
OrderDoesNotMatter ==
    Distinct => \A l \in Language : \A k \in 1 .. Len(scanned) - 1 :
                    AnsweredSymbol(l, SwappedAt(k)) = AnsweredSymbol(l, scanned)

(* A type that is the only one of its name in sight is the one a Java or Kotlin
   reference goes to, whatever the repository holds out of sight. A static import is
   the exception: it answers with its owner, as a wildcard for every name. *)
TheOneInSightIsTaken ==
    LET sight == {i \in DOMAIN scanned : scanned[i].name = scope.name /\ Visible(scanned[i])}
    IN  ( /\ Cardinality(sight) = 1 /\ scope.statics = <<>>
          /\ \A i \in sight : scanned[i].type )
        => \A l \in {"java", "kotlin"} : Answer(l, scanned).is = sight
=============================================================================
