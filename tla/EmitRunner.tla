------------------------------- MODULE EmitRunner -------------------------------
(***************************************************************************)
(* How the emit runner compares two compilers (runner.ts, runTest and main;   *)
(* cli-transpiler.ts, CliTranspiler): for each test the pinned TypeScript and *)
(* tsz are started side by side, each in a directory of its own; what they    *)
(* leave there, how they end and what they said is compared.                  *)
(***************************************************************************)
EXTENDS Integers, Sequences, FiniteSets

CONSTANTS
    Cases,       \* the selected test cases, a set of numbers
    Runs,        \* what there is to run: the surfaces asked for (--js-only, --dts-only, neither),
                 \* the cases without an unsupportedReason, those whose root file cannot be
                 \* staged, as [js, dts, supported, rootless]
    Declares(_), \* does the case ask for declarations?
    Staged(_),   \* the inputs of a case, as files
    Emissions,   \* what a compiler may write, as sets of files
    Endings,     \* how a compiler may end, as [exit, codes, witnesses]
    Concurrency

\* --js-only and --dts-only are refused together, so some surface is always asked for;
\* nobody reads the witnesses of a success, for which one value stands.
ASSUME RunAssumption ==
    /\ IsFiniteSet(Cases)
    /\ \A run \in Runs : run.js \/ run.dts
    /\ \A ending \in Endings :
           /\ ending = [exit |-> ending.exit, codes |-> ending.codes, witnesses |-> ending.witnesses]
           /\ ending.exit = 0 => ending.witnesses = "none"

VARIABLES
    selected, \* this run
    call,     \* per case and compiler: the call of transpile
    counter,  \* per compiler: how many scopes it has made
    disk,     \* per compiler: the files in each scope
    alive,    \* the children that run, as <<case, compiler>>
    wrote,    \* per running case and compiler: the files its child wrote
    row,      \* per case: the TestResult that is recorded, or NoRow
    truth,    \* per case: did the compilers do the same, on the surfaces of the run?
    exit      \* NoExit before the run is over
emitVars == <<selected, call, counter, disk, alive, wrote, row, truth, exit>>

Compiler == {"oracle", "tsz"}
NoExit == -1
NoRow == [js |-> "none", dts |-> "none"]
NotCalled == [stage |-> "idle"]
Empty == <<>>

\* Files are [path, kind, content] with a kind of "js" or "dts".
OfKind(files, kind) == {f \in files : f.kind = kind}

-----------------------------------------------------------------------------
(* One call of transpile *)

EmitInit ==
    /\ selected \in Runs
    /\ call = [t \in Cases |-> [c \in Compiler |-> NotCalled]]
    /\ counter = [c \in Compiler |-> 0]
    /\ disk = [c \in Compiler |-> Empty]
    /\ alive = {} /\ wrote = [t \in Cases |-> [c \in Compiler |-> {}]]
    /\ row = [t \in Cases |-> NoRow] /\ truth = [t \in Cases |-> FALSE]
    /\ exit = NoExit

Running == {t \in Cases : row[t] = NoRow /\ \E c \in Compiler : call[t][c] # NotCalled}
Unstarted == {t \in Cases : row[t] = NoRow /\ \A c \in Compiler : call[t][c] = NotCalled}

\* What lies in a scope, and what does when files are written there.
Files(c, scope) == IF scope \in DOMAIN disk[c] THEN disk[c][scope] ELSE {}
Over(files, written) == {f \in files : \A w \in written : w.path # f.path} \cup written
Staging(c, scope, written) ==
    [s \in DOMAIN disk[c] \cup {scope} |->
        IF s = scope THEN Over(Files(c, scope), written) ELSE disk[c][s]]

\* Mutant: a compiler has one directory for all its calls.
ScopeOf_Shared(c) == 0

\* this.counter++
ScopeOf(c) == counter[c]

\* artifactSurfaceObservation and artifactStatus of a case that ended in a state, or was
\* compared: the surfaces that are not selected are skipped.
SurfaceStatus(state, chosen, matches) ==
    IF ~chosen THEN "skip" ELSE IF state # "complete" THEN state ELSE IF matches THEN "pass" ELSE "fail"

\* selectArtifactSurfaces
Surfaces(t) == [js |-> selected.js, dts |-> selected.dts /\ (~selected.js \/ Declares(t))]
ResultOf(t, state, jsMatch, dtsMatch) ==
    [js |-> SurfaceStatus(state, Surfaces(t).js, jsMatch),
     dts |-> SurfaceStatus(state, Surfaces(t).dts, dtsMatch)]

\* runTest: an unsupported case is only recorded; else both calls run up to their child,
\* which has its inputs in a scope nobody else has.
Begin(t) ==
    /\ exit = NoExit /\ t \in Unstarted /\ Cardinality(Running) < Concurrency
    /\ IF t \notin selected.supported
       THEN /\ row' = [row EXCEPT ![t] = ResultOf(t, "unsupported", FALSE, FALSE)]
            /\ UNCHANGED <<call, counter, disk, alive>>
       ELSE IF t \in selected.rootless
       THEN /\ call' = [call EXCEPT ![t] = [c \in Compiler |-> [stage |-> "lost", reason |-> "crash"]]]
            /\ counter' = [c \in Compiler |-> counter[c] + 1]
            /\ UNCHANGED <<row, disk, alive>>
       ELSE /\ call' = [call EXCEPT ![t] = [c \in Compiler |-> [stage |-> "running", scope |-> ScopeOf(c)]]]
            /\ counter' = [c \in Compiler |-> counter[c] + 1]
            /\ disk' = [c \in Compiler |-> Staging(c, ScopeOf(c), Staged(t))]
            /\ alive' = alive \cup {<<t, c>> : c \in Compiler}
            /\ UNCHANGED row
    /\ UNCHANGED <<selected, wrote, truth, exit>>

ChildWrites(t, c) ==
    /\ exit = NoExit /\ <<t, c>> \in alive /\ call[t][c].stage = "running"
    /\ \E files \in Emissions :
           /\ wrote' = [wrote EXCEPT ![t][c] = files]
           /\ disk' = [disk EXCEPT ![c] = Staging(c, call[t][c].scope, files)]
    /\ call' = [call EXCEPT ![t][c].stage = "wrote"]
    /\ UNCHANGED <<selected, counter, alive, row, truth, exit>>

Removed(c, scope) == [disk EXCEPT ![c] = [s \in DOMAIN @ \ {scope} |-> @[s]]]
IsStaged(f, t) == \E s \in Staged(t) : s.path = f.path

\* collectActualProducts: what lies in the scope, but for the inputs.
Products(t, c) == {f \in Files(c, call[t][c].scope) : ~IsStaged(f, t)}

\* The child ends by itself and its products are collected before its scope is removed.
ChildEnds(t, c) ==
    /\ exit = NoExit /\ <<t, c>> \in alive /\ call[t][c].stage = "wrote"
    /\ alive' = alive \ {<<t, c>>}
    /\ \E ending \in Endings :
           call' = [call EXCEPT ![t][c] = [stage |-> "ended", outcome |-> ending, products |-> Products(t, c)]]
    /\ disk' = Removed(c, call[t][c].scope)
    /\ UNCHANGED <<selected, counter, wrote, row, truth, exit>>

\* Mutant: there is no timeout.
ChildIsKilled_Never(t, c) == FALSE /\ UNCHANGED emitVars

\* The timeout kills it, or a signal does: nothing it wrote is looked at.
ChildIsKilled(t, c) ==
    /\ exit = NoExit /\ <<t, c>> \in alive
    /\ alive' = alive \ {<<t, c>>}
    /\ \E reason \in {"timeout", "crash"} :
           call' = [call EXCEPT ![t][c] = [stage |-> "lost", reason |-> reason]]
    /\ disk' = Removed(c, call[t][c].scope)
    /\ UNCHANGED <<selected, counter, wrote, row, truth, exit>>

-----------------------------------------------------------------------------
(* The comparison *)

\* isCrashOutcome; 3 is how tsz says that it could not finish.
IsCrash(o) == o.exit > 2 \/ (o.exit # 0 /\ o.codes = <<>>)

\* compilerArtifactState
ArtifactState(oracle, product) ==
    CASE IsCrash(oracle) -> "crash"
      [] ~IsCrash(oracle) /\ product.exit = 3 -> "incomplete"
      [] ~IsCrash(oracle) /\ product.exit # 3 /\ IsCrash(product) -> "crash"
      [] OTHER -> "complete"

\* compareCompilerOutcomes: failures are the same only when both have complete witnesses
\* and these are the same.  "unknown" stands for no witness.
OutcomesMatch(oracle, product) ==
    /\ oracle.exit = product.exit
    /\ oracle.codes = product.codes
    /\ oracle.exit # 0 =>
           /\ oracle.exit \in {1, 2}
           /\ "unknown" \notin {oracle.witnesses, product.witnesses}
           /\ oracle.witnesses = product.witnesses

Compared(t) ==
    LET oracle == call[t]["oracle"]  product == call[t]["tsz"]
        same(kind) == OfKind(oracle.products, kind) = OfKind(product.products, kind)
        outcome == OutcomesMatch(oracle.outcome, product.outcome)
    IN ResultOf(t, ArtifactState(oracle.outcome, product.outcome), outcome /\ same("js"), outcome /\ same("dts"))

\* What really happened, by the files the children wrote and the way they ended.
Agree(t) ==
    LET oracle == call[t]["oracle"]  product == call[t]["tsz"]
        emitted(c) == {f \in wrote[t][c] : ~IsStaged(f, t)}
    IN /\ {oracle.stage, product.stage} = {"ended"}
       /\ oracle.outcome = product.outcome
       /\ \A kind \in {"js", "dts"} : Surfaces(t)[kind] =>
              OfKind(emitted("oracle"), kind) = OfKind(emitted("tsz"), kind)

\* Promise.allSettled
Settled(t) == \A c \in Compiler : call[t][c].stage \in {"ended", "lost"}

\* runTest goes on and recordResult counts the row: the side that was lost decides, the
\* oracle's first.
Record(t) ==
    /\ exit = NoExit /\ t \in Running /\ Settled(t)
    /\ row' = [row EXCEPT ![t] =
                 CASE call[t]["oracle"].stage = "lost" -> ResultOf(t, call[t]["oracle"].reason, FALSE, FALSE)
                   [] call[t]["oracle"].stage # "lost" /\ call[t]["tsz"].stage = "lost" ->
                          ResultOf(t, call[t]["tsz"].reason, FALSE, FALSE)
                   [] OTHER -> Compared(t)]
    /\ truth' = [truth EXCEPT ![t] = Agree(t)]
    /\ call' = [call EXCEPT ![t] = [c \in Compiler |-> NotCalled]]
    /\ wrote' = [wrote EXCEPT ![t] = [c \in Compiler |-> {}]]
    /\ UNCHANGED <<selected, counter, disk, alive, exit>>

\* terminate, for both compilers
CleanUp == alive' = {} /\ disk' = [c \in Compiler |-> Empty]

\* artifactHasNonPass: the candidates of a surface are those that are not skipped.
HasNonPass(surface) == \E t \in Cases : row[t][surface] \notin {"pass", "skip"}

\* main, after the last row.
EndRun ==
    /\ exit = NoExit /\ \A t \in Cases : row[t] # NoRow
    /\ exit' = IF HasNonPass("js") \/ HasNonPass("dts") THEN 1 ELSE 0
    /\ CleanUp
    /\ UNCHANGED <<selected, call, counter, wrote, row, truth>>

\* SIGINT and SIGTERM
Interrupted ==
    /\ exit = NoExit
    /\ exit' = 130
    /\ CleanUp
    /\ UNCHANGED <<selected, call, counter, wrote, row, truth>>

CallNext == \E t \in Cases, c \in Compiler : ChildEnds(t, c) \/ ChildIsKilled(t, c)
EmitNext ==
    \/ \E t \in Cases : Begin(t) \/ Record(t)
    \/ \E t \in Cases, c \in Compiler : ChildWrites(t, c)
    \/ CallNext \/ EndRun \/ Interrupted

EmitSpec == EmitInit /\ [][EmitNext]_emitVars

-----------------------------------------------------------------------------
(* Properties *)

\* The run succeeds only if each case was compared, on a surface that was asked for, and
\* its two compilers did the same there, whatever else was running, was killed or had
\* been left in a directory.
ExitIsEarned == exit = 0 => \A t \in Cases : t \in selected.supported /\ truth[t]

\* No child and no scope outlives the row of its case, or the run.
RecordedIsOver ==
    /\ \A child \in alive : row[child[1]] = NoRow /\ exit = NoExit
    /\ \A c \in Compiler : Cardinality(DOMAIN disk[c]) <= Cardinality({child \in alive : child[2] = c})

\* What a run says of a case is earned, and said when nothing of the case can still
\* change it (runner.ts, recordResult; cli-transpiler.ts, the cleanup of a scope).
ComparisonIsEarned == ExitIsEarned /\ RecordedIsOver
=============================================================================
