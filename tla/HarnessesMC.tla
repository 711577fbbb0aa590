------------------------------- MODULE HarnessesMC -------------------------------
(***************************************************************************)
(* The two harnesses that compare tsz with TypeScript, one part at a time,     *)
(* which share nothing: the conformance harness, and of the emit harness the    *)
(* discovery of the cases, their comparison, and the two algorithms that read   *)
(* what a baseline and a compiler say.  The cases the discovery leaves are the  *)
(* cases of the comparison, supported or not.                                   *)
(***************************************************************************)
EXTENDS ConformanceMC, EmitCorpus, EmitRunner, EmitBaseline, EmitWitness

VARIABLES part,  \* which of them moves
          sample \* what the two algorithms are given

\* Commits: a baseline appears with the second, and others lose their declarations.
Baselined(p) == IF p = 1 THEN {1, 2} ELSE {1, 2, 3}
Declarations(b, p) == b = 1 \/ p = 1
OneFile(b) == "test.ts"
ByName(b) == IF b = 2 THEN "target" :> "es2022" ELSE Empty
InTheFile(f) == ("target" :> "es2015") @@ ("module" :> "esnext")
InTheConfig(f) == ("module" :> "preserve") @@ ("base" :> "x")

Product(path, kind, content) == [path |-> path, kind |-> kind, content |-> content]
Input(t) == IF t = 1 THEN {Product("a.js", "js", "source")} ELSE {}
DeclaresFirst(t) == t = 1
Written ==
    {{Product("b.js", "js", "x")},
     {Product("b.js", "js", "y"), Product("a.js", "js", "x"), Product("b.d.ts", "dts", "x")}}
End(e, c, w) == [exit |-> e, codes |-> c, witnesses |-> w]
Ways == {End(0, <<>>, "none"), End(2, <<"TS1">>, "first"), End(2, <<"TS1">>, "second"),
         End(3, <<"TS1">>, "unknown")}
Run(js, supported, rootless) == [js |-> js, dts |-> TRUE, supported |-> supported, rootless |-> rootless]
SomeRuns == {Run(TRUE, Cases, {}), Run(FALSE, {1}, {}), Run(TRUE, Cases, {2})}


\* Diagnostics that differ in every part the order looks at, two at a time.
Diagnostic(place, code, text, related, category) ==
    [path |-> place, pos |-> 0, code |-> code, text |-> text, related |-> related, category |-> category]
Diagnostics == {Diagnostic(p, c, 1, r, 1) : p \in {0, 1}, c \in {1, 2}, r \in {0, 1}}
                   \cup {Diagnostic(0, 1, 2, 0, 1), Diagnostic(0, 1, 1, 0, 0)}

allVars == <<vars, corpusVars, emitVars, part, sample>>
AnyInit ==
    /\ Init /\ CorpusInit /\ EmitInit
    /\ \/ part \in {"conformance", "corpus", "runner"} /\ sample = <<>>
       \/ part = "baseline" /\ sample \in Baselines
       \/ part = "chain" /\ sample \in Chains
       \/ part = "witness" /\ sample \in DiagnosticLists
    /\ part # "runner" => selected = Run(TRUE, Cases, {})
    /\ part # "conformance" => commit = c1
Still == UNCHANGED <<part, sample>>
Conforms(move) == part = "conformance" /\ move /\ UNCHANGED <<corpusVars, emitVars>> /\ Still
Discovers == part = "corpus" /\ CorpusNext /\ UNCHANGED <<vars, emitVars>> /\ Still
Emits(move) == part = "runner" /\ move /\ UNCHANGED <<vars, corpusVars>> /\ Still
AnyNext == Conforms(Next) \/ Discovers \/ Emits(EmitNext)
\* The fairness of both harnesses is that of their specifications.
AnySpec ==
    /\ AnyInit /\ [][AnyNext]_allVars
    /\ \A t \in Test : WF_allVars(Conforms(t \in DOMAIN job /\ ThreadStep(t) /\ UNCHANGED runnerVars))
    /\ WF_allVars(Conforms(Finish /\ UNCHANGED runnerVars))
    /\ WF_allVars(Conforms(Preflight))
    /\ \A t \in Test : WF_allVars(Conforms(t \in DOMAIN test /\ TestStep(t)))
    /\ WF_allVars(Conforms(Account \/ Publish))
    /\ WF_allVars(Emits(CallNext))
    /\ WF_allVars(Emits(\E t \in Cases : Begin(t) \/ Record(t)))
    /\ WF_allVars(Emits(EndRun))

\* The discovery by itself.
DiscoverySpec == (AnyInit /\ part = "corpus") /\ [][Discovers]_allVars

\* parseBaseline finds the products of every baseline with JavaScript.
BaselinesAreSplit == part = "baseline" => ProductsAreFound(sample)

\* The witnesses of both compilers say what was said, whatever the form they came in.
WitnessesAreCanonical ==
    /\ part = "chain" => ChainIsItsWalk(sample)
    /\ part = "witness" => WitnessesAreOfTheSet(sample)

\* Neither reading loses or invents what was written (baseline-parser.ts,
\* parseBaseline; diagnostic-witness.ts).
ReadingsAreTrue == BaselinesAreSplit /\ WitnessesAreCanonical

\* A run of the conformance harness that has loaded its cache, and a run of the emit
\* comparison, end with an answer, whatever their children do (tsz_runner.rs, the
\* accounting of a run; runner.ts, main).
Underway == (part = "conformance" /\ run.at # "start") \/ (part = "runner" /\ exit = NoExit)
IsOver == (part = "conformance" /\ run.at \in {"refused", "published"}) \/ (part = "runner" /\ exit # NoExit)
RunsEnd == Underway ~> IsOver
=============================================================================
