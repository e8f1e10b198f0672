------------------------------ MODULE JsExports ------------------------------
(* build_js_export_index of ingestion/module_resolver.py: which symbol a
   JavaScript or TypeScript file offers under which name. The files are read in
   scan order for what they declare; "export {..} from" and "export * from" are
   put aside and then resolved in one pass each, the named ones first, so that a
   chain of barrels depends on the order in which the files were scanned.

   A file is its position in the scan order. A symbol is the file and the name
   that declare it. Paths are resolved (normalize_js_import_path): a re-export
   whose target is no scanned file is never put aside. *)
EXTENDS Integers, Sequences, FiniteSets, SequencesExt

CONSTANTS
    ExportName,    \* the names that files declare and pass on
    Repositories   \* files in scan order: what each declares, re-exports, and
                   \* passes on with a star

(* A re-export belongs to the file it is written in, and its target is scanned. *)
InRepository(files) ==
    \A i \in DOMAIN files :
        /\ files[i].declares \subseteq ExportName
        /\ files[i].named \in Seq([owner : {i}, target : DOMAIN files, source : ExportName,
                                   name : ExportName])
        /\ files[i].stars \in Seq([owner : {i}, target : DOMAIN files])

ASSUME JsAssumption ==
    /\ IsFiniteSet(ExportName)
    /\ \A files \in Repositories : files = [i \in 1 .. Len(files) |-> files[i]] /\ Len(files) \in Nat
                                    /\ InRepository(files)

VARIABLES
    jsFiles,
    exported,      \* file -> the names it offers, each with its symbol
    named,         \* named re-exports still to resolve
    stars          \* star re-exports still to resolve

jsVars == <<jsFiles, exported, named, stars>>

JsFile == DOMAIN jsFiles
With(f, name, symbol) ==
    [n \in DOMAIN f \union {name} |-> IF n = name THEN symbol ELSE f[n]]

(* What a file declares, by name: "export function", "export { a as b }" and
   "export default". *)
Declares(i) == [n \in jsFiles[i].declares |-> <<i, n>>]

(* The re-exports of all files, in scan order. *)
PendingNamed == FlattenSeq([i \in JsFile |-> jsFiles[i].named])
PendingStars == FlattenSeq([i \in JsFile |-> jsFiles[i].stars])

JsStart(files) ==
    /\ jsFiles = files
    /\ exported = [i \in JsFile |-> Declares(i)]
    /\ named = PendingNamed
    /\ stars = PendingStars

JsInit == \E files \in Repositories : JsStart(files)

(* export { source as name } from target: nothing when the target does not offer
   the name at this moment; otherwise it takes the place of any other. *)
ResolveNamed ==
    /\ named # <<>>
    /\ LET r == Head(named)
       IN  exported' = IF r.source \in DOMAIN exported[r.target]
                       THEN [exported EXCEPT ![r.owner] =
                                With(@, r.name, exported[r.target][r.source])]
                       ELSE exported
    /\ named' = Tail(named)
    /\ UNCHANGED <<jsFiles, stars>>

(* export * from target: every name but "default", unless the file has it. *)
Passed(r) == DOMAIN exported[r.target] \ {"default"}

ResolveStar ==
    /\ named = <<>> /\ stars # <<>>
    /\ LET r == Head(stars)
       IN  exported' = [exported EXCEPT ![r.owner] =
                [n \in DOMAIN @ \union Passed(r) |->
                    IF n \in DOMAIN @ THEN @[n] ELSE exported[r.target][n]]]
    /\ stars' = Tail(stars)
    /\ UNCHANGED <<jsFiles, named>>

JsNext == ResolveNamed \/ ResolveStar
JsSpec == JsInit /\ [][JsNext]_jsVars

-----------------------------------------------------------------------------
(* What the language says: a name of a file stands for what it declares, what it
   re-exports by name, or, failing both, what a star brings. A symbol is reached from
   a name through re-exports, each of them leading to a name of another file. *)
Leads(from) ==
    LET f == jsFiles[from[1]]
    IN  {<<r.target, r.source>> : r \in {q \in ToSet(f.named) : q.name = from[2]}}
        \union {<<r.target, from[2]>> :
                    r \in {q \in ToSet(f.stars) : from[2] \notin f.declares \union {"default"}}}

(* One more re-export from any of the names of S. *)
Further(S) == S \union UNION {Leads(v) : v \in S}

Exportable == JsFile \X ExportName
Reached(from) ==
    LET reach[d \in 0 .. Cardinality(Exportable)] ==
            IF d = 0 THEN {from} ELSE Further(reach[d - 1])
    IN  reach[Cardinality(Exportable)]
Means(i, n) == {v \in Reached(<<i, n>>) : v[2] \in jsFiles[v[1]].declares}

ExportsDone == named = <<>> /\ stars = <<>>

(* The index never invents: whatever the order of the files, a name it offers
   leads to a symbol the name can stand for, at every step of both passes. *)
ExportsAreSound ==
    \A i \in JsFile : \A n \in DOMAIN exported[i] : exported[i][n] \in Means(i, n)

(* It is complete for barrels one level deep: a re-export of what its target
   declares is found, and a declared name survives every star. *)
DirectReexportsAreFound ==
    ExportsDone =>
        /\ \A i \in JsFile : \A k \in DOMAIN jsFiles[i].named :
              jsFiles[i].named[k].source \in jsFiles[jsFiles[i].named[k].target].declares
                => jsFiles[i].named[k].name \in DOMAIN exported[i]
        /\ \A i \in JsFile : \A k \in DOMAIN jsFiles[i].stars :
              jsFiles[jsFiles[i].stars[k].target].declares \ {"default"} \subseteq DOMAIN exported[i]

(* Not so: names that are used through two barrels, or by name through a star, are found
   as well; it depends on the scan order. *)
ReexportsAreComplete ==
    ExportsDone => \A i \in JsFile : \A n \in {"a", "b"} :
                    Means(i, n) # {} => n \in DOMAIN exported[i]

-----------------------------------------------------------------------------
(* Why it is so: the inductive invariant. What is put aside is of the files, what a file
   declares is never lost, and a re-export is put aside or done. *)
AllNamed == UNION {ToSet(jsFiles[i].named) : i \in JsFile}
AllStars == UNION {ToSet(jsFiles[i].stars) : i \in JsFile}

JsTypes ==
    /\ jsFiles \in Repositories \union {<<>>} /\ DOMAIN exported = JsFile
    /\ \A i \in JsFile : /\ DOMAIN exported[i] \subseteq ExportName
                         /\ jsFiles[i].declares \subseteq DOMAIN exported[i]
    /\ named \in Seq(AllNamed) /\ stars \in Seq(AllStars)

PassesBring ==
    /\ \A r \in AllNamed : r \in ToSet(named) \/
          (r.source \in jsFiles[r.target].declares => r.name \in DOMAIN exported[r.owner])
    /\ \A r \in AllStars : r \in ToSet(stars) \/
          jsFiles[r.target].declares \ {"default"} \subseteq DOMAIN exported[r.owner]

JsIInv == JsTypes /\ PassesBring /\ ExportsAreSound
=============================================================================
