------------------------------- MODULE BenchPipeline -------------------------------
(***************************************************************************)
(* From the compilers to the page.  Shards of the benchmark measure rows       *)
(* (scripts/bench/lib/bench-vs-tsgo-results.sh), merge-results.mjs makes one    *)
(* artifact of them, check-artifact-readiness.mjs judges it, gh-pages.yml        *)
(* publishes it or keeps what it had, and the website charts its rows            *)
(* (crates/tsz-website/src/_data/benchmark_data.js).  Times are small integers,  *)
(* 0 is a time that was not recorded.                                              *)
(***************************************************************************)
EXTENDS BenchRows
LOCAL INSTANCE SequencesExt
LOCAL INSTANCE FiniteSetsExt

CONSTANTS Shards,       \* the jobs that measure
          Covers(_),    \* the rows of a shard, in order
          Optional,     \* the shards whose loss is tolerated
          Ends(_),      \* the ways the measurement of a row may end
          Hosts,        \* the hardware a job may get
          MaxFiles      \* bound on the payloads of one run

VARIABLES files,    \* the payloads, in the order of the command line
          guard,    \* the lines of the compile guard's JSONL
          artifact, \* the merged artifact
          verdict   \* the exit of the readiness check and its options
benchVars == <<files, guard, artifact, verdict>>

NoArtifact == [results |-> <<>>, absent |-> TRUE, runStatus |-> "", clean |-> FALSE, checked |-> FALSE, at |-> 0]
Unjudged == [exit |-> -1]

BenchInit == files = <<>> /\ guard = <<>> /\ artifact = NoArtifact /\ verdict = Unjudged

\* Two fields are what happened and no code reads them: ran, both compilers ended
\* while they were timed; edited, the sources changed while they were timed.
Row(n, tsz, tsgo, winner, status, compat, ran) ==
    [name |-> n, tsz |-> tsz, tsgo |-> tsgo, winner |-> winner, status |-> status, compat |-> compat,
     missing |-> FALSE, ran |-> ran, edited |-> FALSE]

\* run_project_benchmark and run_benchmark: the row a measurement leaves.  The fence
\* at publication sees an edit, and lowers the record the row gets here.
Recorded(n, end, e, status) ==
    IF ~IsProject(n) THEN NoCompat
    ELSE IF end.unrecorded THEN Fallback(status)
    ELSE record([e EXCEPT !.stable = @ /\ ~end.edited])
Failed(n, end, e, status) ==
    Row(n, 0, 0, "error", status, Recorded(n, end, e, status), FALSE)
Measured(n, end) ==
    LET e == end.seen
        row ==
          CASE end.kind = "refused" -> Failed(n, end, e, "evidence unavailable")
          [] end.kind = "nonzero" -> Failed(n, end, e, "")
          [] end.kind = "hyperfine" ->
                Failed(n, end, [e EXCEPT !.exit = "runner error", !.diagnostics = "hyperfine failed", !.tsz = <<>>, !.tsgo = <<>>],
                       "hyperfine error")
          [] end.kind = "killed" ->
                Failed(n, end, [e EXCEPT !.exit = "timeout", !.diagnostics = "timeout", !.tsz = <<124>>], "timeout")
          [] end.kind = "fixture" ->
                Failed(n, end, [e EXCEPT !.exit = "runner error", !.diagnostics = "fixture failed", !.tsz = <<>>, !.tsc = <<>>],
                       "fixture failed")
          [] OTHER ->
                Row(n, end.tsz, end.tsgo, IF end.tsz < end.tsgo THEN "tsz" ELSE "tsgo", "",
                    Recorded(n, end, [e EXCEPT !.exit = "exit success", !.diagnostics = "none", !.tsz = <<0>>, !.tsgo = <<0>>], ""),
                    TRUE)
    IN  [row EXCEPT !.edited = end.edited]

\* A job ends with a row for each it was told to measure and did not skip, or
\* with none, and is sometimes run again.
Measure(s, ends, host, signed) ==
    /\ Len(files) < MaxFiles /\ artifact = NoArtifact
    /\ LET names == SelectSeq(Covers(s), LAMBDA n : ends[n].kind # "skipped")
       IN  files' = Append(files, [shard |-> s, host |-> host, signed |-> signed, status |-> "completed",
                                   results |-> [i \in DOMAIN names |-> Measured(names[i], ends[names[i]])]])
    /\ UNCHANGED <<guard, artifact, verdict>>
Fail(s) ==
    /\ Len(files) < MaxFiles /\ artifact = NoArtifact
    /\ files' = Append(files, [shard |-> s, host |-> CHOOSE h \in Hosts : TRUE, signed |-> FALSE, status |-> "completed",
                               results |-> <<>>])
    /\ UNCHANGED <<guard, artifact, verdict>>

\* The compile guard of the matching CI run appends a line.
Guard(line) ==
    /\ artifact = NoArtifact /\ guard = <<>> /\ files # <<>>
    /\ guard' = line
    /\ UNCHANGED <<files, artifact, verdict>>

-----------------------------------------------------------------------------
\* merge-results.mjs
isFailedShardStub(p) == p.results = <<>>
Kept == SelectSeq(files, LAMBDA p : ~isFailedShardStub(p))

compatNames == COMPILE_CANARY_PROJECT_ROWS \cup APPLICATION_ROWS \cup (BENCH_RUNNER_EXCLUDED_ROWS \cap REQUIRED_PROJECT_ROWS)
TakesGuard(n) == n \in compatNames
                 /\ ~(n \in REQUIRED_PROJECT_ROWS /\ n \notin APPLICATION_ROWS /\ n \notin BENCH_RUNNER_EXCLUDED_ROWS)
CanaryStatus == "compile canary tracked in CI"
\* mergeCompatibilityCanaries, one line: the last row of the name keeps its times and
\* gets the guard's record for its own, or a row that was never timed is added.
WithLine(rows, line) ==
    LET at == {i \in DOMAIN rows : rows[i].name = line.name}
    IN  IF line.name \notin compatNames THEN rows
        ELSE IF at = {}
        THEN Append(rows, Row(line.name, 0, 0, "error", CanaryStatus, line.compat, FALSE))
        ELSE IF ~TakesGuard(line.name) THEN rows
        ELSE [rows EXCEPT ![Max(at)].compat = line.compat,
                          ![Max(at)].status = IF rows[Max(at)].tsz = 0 /\ @ = "" THEN CanaryStatus ELSE @]
mergeCompatibilityCanaries(rows) == FoldLeft(WithLine, rows, guard)

\* collectMissingRequiredRows: nothing is missing where nothing was meant to be.
\* Mutant: only the rows the runner times are looked for.
collectMissingRequiredRows_Timed(rows) == missingDeclaredRows(REQUIRED_MEASURED_ROWS, rows)
collectMissingRequiredRows(rows) ==
    LET missing == missingDeclaredRows(REQUIRED_PROJECT_ROWS, rows)
    IN  IF missing = REQUIRED_PROJECT_ROWS THEN {} ELSE missing

PROJECT_COMPATIBILITY_ROWS == REQUIRED_PROJECT_ROWS \cup COMPILE_CANARY_PROJECT_ROWS
IsRepeated(rows, n) == Cardinality({i \in DOMAIN rows : rows[i].name = n}) > 1
CompatibilityBlocks(rows) == \E n \in PROJECT_COMPATIBILITY_ROWS : IsRepeated(rows, n)

\* collectRunnerSignatureFailures: unsigned, a label seen before, another machine than the first payload's.
SignatureFails(kept, i) ==
    \/ ~kept[i].signed
    \/ \E j \in 1..(i - 1) : kept[j].shard = kept[i].shard
    \/ kept[i].host # kept[1].host
SignatureBlocks(kept) == \E i \in DOMAIN kept : kept[i].shard \notin Optional /\ SignatureFails(kept, i)
HostsDiffer(kept) == \E i \in DOMAIN kept : kept[i].host # kept[1].host

\* main: the artifact, unless something blocks.
Merge(requireRunnerSignature) ==
    LET results == mergeCompatibilityCanaries(FlattenSeq([i \in DOMAIN Kept |-> Kept[i].results]))
        missing == collectMissingRequiredRows(results)
    IN  /\ files # <<>> /\ artifact = NoArtifact
        /\ ~CompatibilityBlocks(results)
        /\ requireRunnerSignature => ~SignatureBlocks(Kept)
        /\ artifact' = [results |-> results, absent |-> FALSE,
                        runStatus |-> IF missing # {} THEN "partial" ELSE "completed",
                        clean |-> ~HostsDiffer(Kept), checked |-> TRUE, at |-> 2]
        /\ UNCHANGED <<files, guard, verdict>>

\* bench.yml: the one job's own file is the artifact.
Upload ==
    /\ Len(files) = 1 /\ guard = <<>> /\ artifact = NoArtifact /\ Kept # <<>>
    /\ artifact' = [results |-> files[1].results, absent |-> FALSE, runStatus |-> files[1].status,
                    clean |-> TRUE, checked |-> TRUE, at |-> 2]
    /\ UNCHANGED <<files, guard, verdict>>

-----------------------------------------------------------------------------
\* check-artifact-readiness.mjs
Places(a, n) == {i \in DOMAIN a.results : a.results[i].name = n}
RowOf(a, n) == a.results[Min(Places(a, n))]
Unproven(r) == r.compat = NoCompat \/ ~hasCompletePhaseMetadata(r.compat)
               \/ (r.compat.state = "green" /\ ~hasExactProjectEvidence(r.compat, r.name))

rowState(a, n) ==
    IF Places(a, n) = {} THEN "missing"
    ELSE LET r == RowOf(a, n)
         IN  IF Cardinality(Places(a, n)) > 1 \/ r.missing \/ Unproven(r) THEN "gray"
             ELSE IF r.status # "" THEN "red"
             ELSE IF isGreen(r) THEN "green"
             ELSE IF r.compat.state \in {"yellow", "red"} THEN r.compat.state ELSE "gray"

invalidProjectEvidenceRows(a) ==
    {n \in Names : /\ IsProject(n) /\ Places(a, n) # {}
                   /\ LET r == RowOf(a, n)
                      IN  /\ r.compat.state = "green" \/ (r.tsz > 0 /\ r.tsgo > 0) \/ r.winner \in {"tsz", "tsgo"}
                          /\ ~hasExactProjectEvidence(r.compat, n)}

InState(a, s) == {n \in REQUIRED_MEASURED_ROWS : rowState(a, n) = s}
\* Application rows that are missing, incomplete or repeated.
applicationGaps(a) ==
    {n \in APPLICATION_ROWS : Cardinality(Places(a, n)) # 1 \/ RowOf(a, n).missing \/ Unproven(RowOf(a, n))}
isBlockingApplicationRow(n) == n \in REQUIRED_PROJECT_ROWS
blockingApplicationGaps(a) == {n \in applicationGaps(a) : isBlockingApplicationRow(n)}

hasGreenCompatibilityEvidence(r) ==
    /\ r.compat # NoCompat /\ r.compat.state = "green" /\ r.compat.exit = "exit success"
    /\ r.compat.diagnostics = "none" /\ hasExactProjectEvidence(r.compat, r.name)
greenTimedRowsMissingTimingPairs(a) ==
    {n \in PERF_TIMED_PROJECT_ROWS : /\ Cardinality(Places(a, n)) = 1
                                     /\ hasGreenCompatibilityEvidence(RowOf(a, n)) /\ ~isSpeedRatioEligible(RowOf(a, n))}
blockingTimedRowsMissingTimingPairs(a) == greenTimedRowsMissingTimingPairs(a) \cap REQUIRED_MEASURED_ROWS
successfulProjectTimingPairs(a) == {n \in InState(a, "green") : isSpeedRatioEligible(RowOf(a, n))}
IsTwice(a, n) == Cardinality(Places(a, n)) > 1

\* Nothing to read is one exit, and whatever is not ready is another.
ExitOf(a, o) ==
    IF a.absent THEN 2
    ELSE IF \/ InState(a, "missing") # {} \/ \E n \in REQUIRED_MEASURED_ROWS : IsTwice(a, n)
            \/ invalidProjectEvidenceRows(a) # {}
            \/ REQUIRED_MEASURED_ROWS # {} /\ Cardinality(InState(a, "green")) < o.minGreen
            \/ o.appCompat /\ blockingApplicationGaps(a) # {}
            \/ o.green /\ InState(a, "green") # REQUIRED_MEASURED_ROWS
            \/ o.cleanMetadata /\ ~a.clean
            \/ Cardinality(successfulProjectTimingPairs(a)) < o.pairs
            \/ o.timingPairs /\ blockingTimedRowsMissingTimingPairs(a) # {}
            \/ o.coverage /\ missingDeclaredRows(REQUIRED_PROJECT_ROWS, a.results) # {}
         THEN 1 ELSE 0

Judge(o) ==
    /\ verdict = Unjudged /\ files # <<>>
    /\ verdict' = [exit |-> ExitOf(artifact, o), options |-> o, pagesReady |->
                     /\ ~artifact.absent /\ o.appCompat
                     /\ blockingApplicationGaps(artifact) = {} /\ blockingTimedRowsMissingTimingPairs(artifact) = {}
                     /\ Cardinality(successfulProjectTimingPairs(artifact)) >= o.pairs
                     /\ ~(REQUIRED_MEASURED_ROWS # {} /\ InState(artifact, "green") = {})]
    /\ UNCHANGED <<files, guard, artifact>>
===================================================================================
