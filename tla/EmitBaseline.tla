------------------------------ MODULE EmitBaseline ------------------------------
(***************************************************************************)
(* Where the products begin in an emit baseline (scripts/emit/src/             *)
(* baseline-parser.ts).  A baseline is a list of named segments: the sources,  *)
(* then what the compiler wrote, with nothing that tells one from the other    *)
(* but their names, from which the directories have been taken.                *)
(***************************************************************************)
EXTENDS Integers, Sequences, FiniteSets, SequencesExt

CONSTANTS Stems, \* names without their extension
          MaxSources \* bound: segments before the products

\* Names are [stem, ext].
TsExt == {"ts", "tsx", "mts", "cts"}
JsExt == {"js", "jsx", "mjs", "cjs"}
DtsExt == {"d.ts", "d.mts", "d.cts"}
isTsSourceLike(name) == name.ext \in TsExt
isJsLikeOutput(name) == name.ext \in JsExt
isDtsLikeOutput(name) == name.ext \in DtsExt
isAuxiliaryFile(name) == name.ext = "json"

\* toSourceDtsOutputName and jsLikeOutputToDts
DtsOf(name) ==
    [stem |-> name.stem,
     ext |-> CASE name.ext \in {"mts", "mjs"} -> "d.mts" [] name.ext \in {"cts", "cjs"} -> "d.cts" [] OTHER -> "d.ts"]

-----------------------------------------------------------------------------
(* The first product *)

NamesBefore(names, i) == {names[j] : j \in 1..(i - 1)}
lastAuxIndex(names) == LET aux == {j \in DOMAIN names : isAuxiliaryFile(names[j])}
                       IN IF aux = {} THEN 0 ELSE CHOOSE j \in aux : \A k \in aux : k <= j

\* What may have been compiled to a JavaScript name, among the names seen before it.
CompiledFrom(name, seen) ==
    \/ \E s \in seen : isTsSourceLike(s) /\ s.stem = name.stem
    \/ name.ext = "js" /\ [stem |-> name.stem, ext |-> "jsx"] \in seen

\* A declaration file that has its source before it may be a source as well: then
\* sources or the JavaScript of a source still follow.
Companion(names, i, seen) ==
    \E j \in (i + 1)..Len(names) :
        \/ isTsSourceLike(names[j])
        \/ isJsLikeOutput(names[j]) /\ CompiledFrom(names[j], seen)

\* Mutant: a repeated name does not end the sources.
Begins_NoRepeat(names, i, seen) ==
    LET name == names[i]
    IN /\ ~isAuxiliaryFile(name) /\ lastAuxIndex(names) < i
       /\ \/ name \notin seen /\ isJsLikeOutput(name) /\ CompiledFrom(name, seen)
          \/ /\ name.ext = "d.ts" /\ name \notin seen
             /\ \E s \in seen : isTsSourceLike(s) /\ s.stem = name.stem
             /\ ~Companion(names, i, seen)

\* The segment where the products may begin: a code file that repeats a name, the
\* JavaScript of an earlier source, or its declarations.  No auxiliary file follows it.
Begins(names, i, seen) ==
    LET name == names[i]
    IN /\ ~isAuxiliaryFile(name) /\ lastAuxIndex(names) < i
       /\ \/ name \in seen /\ isJsLikeOutput(name)
          \/ name \notin seen /\ isJsLikeOutput(name) /\ CompiledFrom(name, seen)
          \/ /\ name.ext = "d.ts" /\ name \notin seen
             /\ \E s \in seen : isTsSourceLike(s) /\ s.stem = name.stem
             /\ ~Companion(names, i, seen)

outputStart(names) ==
    LET starts == {i \in DOMAIN names : Begins(names, i, NamesBefore(names, i))}
    IN IF starts = {} THEN Len(names) + 1 ELSE CHOOSE i \in starts : \A j \in starts : i <= j

-----------------------------------------------------------------------------
(* What the parser makes of a baseline *)

\* sourceFiles, without repetition; a declaration among the products that nothing
\* before it explains is a source too.
dtsOutputCandidates(names) ==
    {DtsOf(names[i]) : i \in {j \in DOMAIN names :
        IF j < outputStart(names) THEN ~isDtsLikeOutput(names[j]) ELSE isJsLikeOutput(names[j])}}
ProductSegments(names) == {i \in DOMAIN names : i >= outputStart(names)}
jsOutputs(names) == {names[i] : i \in {j \in ProductSegments(names) : isJsLikeOutput(names[j])}}
dtsOutputs(names) ==
    {names[i] : i \in {j \in ProductSegments(names) : isDtsLikeOutput(names[j]) /\ names[j] \in dtsOutputCandidates(names)}}
sourceFiles(names) ==
    {names[i] : i \in DOMAIN names \ ProductSegments(names)}
      \cup {names[i] : i \in {j \in ProductSegments(names) : isDtsLikeOutput(names[j]) /\ names[j] \notin dtsOutputCandidates(names)}}

-----------------------------------------------------------------------------
(* The baselines TypeScript's harness writes *)

SourceNames == [stem : Stems, ext : {"ts", "tsx", "mts", "js", "jsx", "d.ts", "json"}]
JsOf(name) == [stem |-> name.stem, ext |-> IF name.ext = "mts" THEN "mjs" ELSE "js"]
Compiled(sources) == SelectSeq(sources, LAMBDA s : s.ext \in TsExt \cup JsExt)
AsWritten(sources, js, dts) ==
    (IF js THEN [i \in DOMAIN Compiled(sources) |-> JsOf(Compiled(sources)[i])] ELSE <<>>)
        \o (IF dts THEN [i \in DOMAIN Compiled(sources) |-> DtsOf(Compiled(sources)[i])] ELSE <<>>)

\* Names differ, and no two sources are written to the same product or beside a product
\* that is there already.
Distinct(sources) ==
    /\ \A i, j \in DOMAIN sources : i # j => sources[i].stem # sources[j].stem \/ isAuxiliaryFile(sources[i])
    /\ IsInjective(sources)
    /\ Compiled(sources) # <<>>
SourceLists == {s \in UNION {[1..n -> SourceNames] : n \in 1..MaxSources} : Distinct(s)}
Baselines == [sources : SourceLists, js : BOOLEAN, dts : BOOLEAN] \ [sources : SourceLists, js : {FALSE}, dts : {FALSE}]

\* The sources of a baseline are staged and its products are not, whatever the order of
\* the sources, if it has JavaScript: a product that is staged hides that the compiler
\* did not write it.
ProductsAreFound(b) ==
    LET names == b.sources \o AsWritten(b.sources, b.js, b.dts)
        written == AsWritten(b.sources, b.js, b.dts)
    IN b.js =>
        /\ sourceFiles(names) = ToSet(b.sources)
        /\ jsOutputs(names) = {n \in ToSet(written) : isJsLikeOutput(n)}
        /\ dtsOutputs(names) = {n \in ToSet(written) : isDtsLikeOutput(n)}
=============================================================================
