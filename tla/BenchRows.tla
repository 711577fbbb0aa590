-------------------------------- MODULE BenchRows --------------------------------
(***************************************************************************)
(* What a benchmark row may say.  A project row carries compatibility         *)
(* evidence: record() in scripts/ci/project-compatibility.mjs writes it, and   *)
(* hasExactProjectEvidence and its companions in scripts/bench/row-utils.mjs   *)
(* read it back, months and checkouts later.  A digest that is present or       *)
(* agrees is a Boolean here.                                                     *)
(***************************************************************************)
EXTENDS Integers, Sequences, FiniteSets, TLC

CONSTANTS Names,   \* the rows a benchmark may report
          Define,  \* [Names -> definition]: what project-rows.mjs says of a row
          Stubbed  \* the rows whose fixtures the reader's checkout stubs

ASSUME BenchAssumption == Stubbed \subseteq Names

\* PROJECT_ROW_DEFINITIONS and the lists derived from it.
IsProject(n) == Define[n].project
REQUIRED_PROJECT_ROWS == {n \in Names : IsProject(n) /\ Define[n].benchmark = "required"}
COMPILE_CANARY_PROJECT_ROWS == {n \in Names : IsProject(n) /\ Define[n].guard = "canary"}
APPLICATION_ROWS == {n \in Names : IsProject(n) /\ Define[n].application}
PERF_TIMED_PROJECT_ROWS == {n \in Names : IsProject(n) /\ Define[n].timed}
BENCH_RUNNER_EXCLUDED_ROWS == {n \in Names : IsProject(n) /\ Define[n].excluded}
RUNTIME_GATED_REQUIRED_ROWS == {n \in Names : IsProject(n) /\ Define[n].gated}
REQUIRED_MEASURED_ROWS ==
    REQUIRED_PROJECT_ROWS \ (BENCH_RUNNER_EXCLUDED_ROWS \cup RUNTIME_GATED_REQUIRED_ROWS \cup APPLICATION_ROWS)

\* A nonzero code, and an exit that is one ordinary code.
HasNonZeroExitCode(codes) == \E i \in DOMAIN codes : codes[i] # 0
IsOrdinary(codes) == Len(codes) = 1 /\ codes[1] \in 0..4
exactOrdinaryExit(a, b) == IsOrdinary(a) /\ IsOrdinary(b) /\ a = b

\* Which side failed, by its codes or by its diagnostics.
oracleClassificationFrom(e) ==
    LET signaled(exits, codes) == exits # <<>> \/ codes # {}
        failed(exits, codes) == codes # {} \/ HasNonZeroExitCode(exits)
        tsc == failed(e.tsc, e.tscCodes)
        tsz == failed(e.tsz, e.tszCodes)
    IN  IF ~signaled(e.tsz, e.tszCodes) \/ ~signaled(e.tsc, e.tscCodes)
        THEN IF ~signaled(e.tsz, e.tszCodes) /\ tsc THEN "tsc-fails-only" ELSE "unknown"
        ELSE CASE ~tsc /\ ~tsz -> "both-pass"
               [] tsc /\ ~tsz -> "tsc-fails-only"
               [] ~tsc /\ tsz -> "tsz-fails-only"
               [] tsc /\ tsz -> IF e.tscCodes = e.tszCodes /\ e.tsc = e.tsz THEN "both-fail-same"
                                ELSE "both-fail-different"

Unavailable == {"fixture invalid", "runner error", "tsz unavailable", "oracle unavailable"}
rowStateFrom(e) ==
    IF e.exit = "exit success" /\ e.diagnostics = "none" THEN "green"
    ELSE IF e.exit \in Unavailable THEN "gray"
    ELSE IF e.diagnostics = "diagnostic mismatch" THEN "yellow"
    ELSE IF e.exit \in {"nonzero exit", "timeout", "oom", "crash", "slowdown"} THEN "red"
    ELSE "yellow"

\* evidenceV3Failures is empty.
NoFailures(e, class) ==
    /\ e.identified /\ e.stable /\ e.complete /\ e.graph /\ e.records /\ e.stubs = 0
    /\ exactOrdinaryExit(e.tsz, e.tsc)
    /\ class \in {"both-pass", "both-fail-same"}
    /\ e.exit = "exit success" /\ e.diagnostics = "none"

\* record: what is appended for an observation e, its state lowered when the evidence is not exact.
record(e) ==
    LET class == oracleClassificationFrom(e)
        exact == e.schema = 3 /\ NoFailures(e, class)
        state == rowStateFrom(e)
    IN  [e EXCEPT !.schema = IF exact THEN 3 ELSE 0] @@
        [class |-> class, phases |-> TRUE, state |-> IF state = "green" /\ ~exact THEN "gray" ELSE state]

\* A row without compatibility, and what the exporter puts where nothing was recorded.
NoCompat == [state |-> "absent"]
fallbackCompatibility(status) ==
    IF status = "" THEN [state |-> "green", exit |-> "exit success", diagnostics |-> "none"]
    ELSE IF status = "fixture failed" THEN [state |-> "gray", exit |-> "fixture invalid", diagnostics |-> "tsc fixture failed"]
    ELSE [state |-> "red", exit |-> IF status = "timeout" THEN "timeout" ELSE "nonzero exit", diagnostics |-> "compiler error"]
Fallback(status) ==
    fallbackCompatibility(status) @@
    [schema |-> 0, identified |-> FALSE, stable |-> FALSE, complete |-> FALSE, graph |-> FALSE, records |-> FALSE,
     sources |-> FALSE, stubs |-> 0, tsc |-> <<>>, tsz |-> <<>>, tsgo |-> <<>>, tscCodes |-> {}, tszCodes |-> {}, class |-> "unknown", phases |-> TRUE]

hasExactFixtureStubEvidence(c, n) == n \notin Stubbed /\ c.stubs = 0
hasExactProjectEvidence(c, n) ==
    /\ c # NoCompat /\ c.schema = 3
    /\ c.identified /\ c.stable /\ c.complete
    /\ hasExactFixtureStubEvidence(c, n)
    /\ c.graph /\ c.records
    /\ exactOrdinaryExit(c.tsz, c.tsc)
    /\ c.class \in {"both-pass", "both-fail-same"}

hasCompletePhaseMetadata(c) == c.phases
isGreen(r) ==
    /\ r.status = "" /\ ~r.missing
    /\ IF r.compat = NoCompat THEN ~IsProject(r.name)
       ELSE /\ hasCompletePhaseMetadata(r.compat) /\ hasExactProjectEvidence(r.compat, r.name)
            /\ r.compat.state = "green" /\ r.compat.exit = "exit success" /\ r.compat.diagnostics = "none"

didNotFinish(r) ==
    \/ r.winner = "error"
    \/ /\ r.compat # NoCompat
       /\ \/ r.compat.exit \in {"timeout", "nonzero exit"}
          \/ HasNonZeroExitCode(r.compat.tsz) \/ HasNonZeroExitCode(r.compat.tsgo)

isPositiveFiniteTiming(t) == t > 0
\* Mutant: the times alone qualify a row.
isSpeedRatioEligible_ByTimes(r) ==
    r.status = "" /\ ~didNotFinish(r) /\ isPositiveFiniteTiming(r.tsz) /\ isPositiveFiniteTiming(r.tsgo)
isSpeedRatioEligible(r) ==
    /\ r.status = "" /\ ~didNotFinish(r)
    /\ (IsProject(r.name) => r.compat # NoCompat)
    /\ (r.compat # NoCompat => hasExactProjectEvidence(r.compat, r.name))
    /\ isPositiveFiniteTiming(r.tsz) /\ isPositiveFiniteTiming(r.tsgo)

\* Strictly below one and a half times tsgo.
isSpeedChartEligible(r) == isSpeedRatioEligible(r) /\ 2 * r.tsz < 3 * r.tsgo

missingDeclaredRows(declared, rows) == declared \ {rows[i].name : i \in DOMAIN rows}
===================================================================================
