--------------------------------- MODULE BenchSite ---------------------------------
(***************************************************************************)
(* The website: which artifact it is built from                               *)
(* (scripts/bench/benchmark-artifact-selection.mjs) and what its benchmark      *)
(* pages show of it (crates/tsz-website/src/_data/benchmark_data.js).            *)
(***************************************************************************)
EXTENDS BenchPipeline
LOCAL INSTANCE SequencesExt
LOCAL INSTANCE FiniteSetsExt

CONSTANT Unguarded  \* large-ts-repo: a time of an old run may be the one it was killed at

VARIABLE site  \* what the site was built from and what it shows

NoSite == [from |-> NoArtifact, rows |-> <<>>]
SiteInit == site = NoSite

\* readBenchmarkArtifact and selectLatestBenchmarkArtifact: of the readable
\* candidates with rows, the one generated last, the first in the list among equals.
IsReadable(a) == ~a.absent /\ a.results # <<>>
NoneSelected == 0
selectLatestBenchmarkArtifact(as) ==
    LET candidates == {i \in DOMAIN as : IsReadable(as[i])}
        Precedes(i, j) == as[i].at > as[j].at \/ (as[i].at = as[j].at /\ i < j)
    IN  IF candidates = {} THEN NoneSelected
        ELSE CHOOSE i \in candidates : \A j \in candidates \ {i} : Precedes(i, j)

\* sanitizeLegacyBenchmarkData
Sanitized(a) == IF a.checked THEN a.results ELSE SelectSeq(a.results, LAMBDA r : r.name \notin Unguarded)

\* withExpectedProjectRows
NotMeasured(n, status) == Row(n, 0, 0, "error", status, NoCompat, FALSE)
withExpectedProjectRows(rows) ==
    LET lacks(ns) == SetToSeq(missingDeclaredRows(ns, rows))
        required == lacks(REQUIRED_PROJECT_ROWS)
        canaries == lacks(COMPILE_CANARY_PROJECT_ROWS)
    IN  rows \o [i \in DOMAIN required |-> NotMeasured(required[i], "not recorded")]
             \o [i \in DOMAIN canaries |-> NotMeasured(canaries[i], CanaryStatus)]

\* buildGroupedBenchmarks: what is charted, and what is listed as not charted.
Charted(rows) == {i \in DOMAIN rows : isSpeedChartEligible(rows[i])}
\* Mutant: a slow row has its times, so it has not failed.
isExcludedSlowTimedRow_Never(r) == FALSE
isExcludedSlowTimedRow(r) == isSpeedRatioEligible(r) /\ ~isSpeedChartEligible(r)
isFailedBenchmark(r) ==
    /\ ~isSpeedRatioEligible(r)
    /\ r.status # "" \/ r.winner = "error" \/ isPositiveFiniteTiming(r.tsz) \/ isPositiveFiniteTiming(r.tsgo)
Listed(rows) ==
    {i \in DOMAIN rows : /\ isFailedBenchmark(rows[i]) \/ isExcludedSlowTimedRow(rows[i])
                         /\ rows[i].name \notin {rows[j].name : j \in Charted(rows)}}

\* compatibilityState: the state the dashboard shows of a row.
hasCompleteCompatibilityMetadata(c) == c.phases /\ c.sources
compatibilityState(r) ==
    LET c == r.compat
        passes == (c.state = "green" \/ c.exit = "exit success") /\ c.diagnostics = "none"
    IN  IF c = NoCompat THEN "gray"
        ELSE IF c.state = "gray" THEN "gray"
        ELSE IF passes /\ hasCompleteCompatibilityMetadata(c) THEN "green"
        ELSE IF r.status \in {"not recorded", "fixture failed"} THEN "gray"
        ELSE IF c.diagnostics = "diagnostic mismatch" THEN "yellow" ELSE "red"
FirstOf(rows, n) == rows[Min({i \in DOMAIN rows : rows[i].name = n})]
Dashboard(rows) ==
    [n \in {m \in Names : IsProject(m)} |->
        IF \E i \in DOMAIN rows : rows[i].name = n THEN compatibilityState(FirstOf(rows, n)) ELSE "gray"]

\* gh-pages.yml: the run's artifact is downloaded when its readiness allows it,
\* and dropped when the checkout's snapshot, older, is newer; the site is built of what
\* is there.
Publish(older) ==
    /\ verdict # Unjudged /\ site = NoSite
    /\ LET fresh == IF verdict.pagesReady /\ older.at <= artifact.at THEN artifact ELSE NoArtifact
           as == <<fresh, older>>
           chosen == selectLatestBenchmarkArtifact(as)
       IN  /\ chosen # NoneSelected
           /\ site' = [from |-> as[chosen], rows |-> withExpectedProjectRows(Sanitized(as[chosen]))]
    /\ UNCHANGED benchVars

-----------------------------------------------------------------------------
\* A compatibility record that was written by record() of what was seen, and of
\* sources that nobody changed while it was: by the compile guard, when the merge took
\* its record, which tells nothing of the sources the row's times were taken of.
IsProven(c) == c # NoCompat /\ c.schema = 3 /\ c.stable /\ c.complete /\ c.graph /\ c.records /\ c.tsz = c.tsc
\* The record of a row is a line of the compile guard.
IsTheGuards(r) == \E i \in DOMAIN guard : guard[i].name = r.name /\ guard[i].compat = r.compat

\* A speed ratio is shown only where both compilers were timed to their end; of a
\* project only where tsz was also proven to do what the oracle did, and such a
\* project is not shown as failing beside its bar; and where the sources were edited
\* while they were timed, only with the compile guard's record in place of the row's
\* own, which NoEditIsCharted is about (row-utils.mjs, isSpeedRatioEligible;
\* benchmark_data.js, compatibilityState; merge-results.mjs:140-159).
PageIsHonest ==
    LET rows == site.rows
        dashboard == Dashboard(rows)
    IN  /\ \A i \in Charted(rows) :
             /\ rows[i].ran
             /\ IsProject(rows[i].name) => /\ IsProven(rows[i].compat)
                                           /\ dashboard[rows[i].name] = "green"
                                           /\ rows[i].edited => IsTheGuards(rows[i])
        /\ \A n \in DOMAIN dashboard : dashboard[n] = "green" => IsProven(FirstOf(rows, n).compat)

\* What bench-vs-tsgo-results.sh:45-47 says of a project's row, "a mid-benchmark edit
\* downgrades the row instead of attaching fresh timing to stale evidence": times of
\* sources that were edited while they were taken are not on the chart.  The merge
\* undoes it for a canary, whose lowered record it replaces and whose times it keeps
\* (merge-results.mjs:152-159).
NoEditIsCharted == \A i \in Charted(site.rows) : IsProject(site.rows[i].name) => ~site.rows[i].edited

\* Every row that was measured or that project-rows.mjs expects is on the page:
\* in the chart, or in the list of what is not charted, and not in both
\* (benchmark_data.js, buildGroupedBenchmarks).
NothingVanishes ==
    LET rows == site.rows
        Of(is) == {rows[i].name : i \in is}
    IN  site # NoSite =>
          /\ Of(Charted(rows)) \cap Of(Listed(rows)) = {}
          /\ {r.name : r \in Range(Sanitized(site.from))} \cup REQUIRED_PROJECT_ROWS \cup COMPILE_CANARY_PROJECT_ROWS
               \subseteq Of(Charted(rows)) \cup Of(Listed(rows))

\* An artifact that passes the readiness check has each row the gate measures
\* exactly once and, of these, a proven one; no project in it wins a comparison
\* nobody proved, and a row that keeps the record of its own measurement none that was
\* taken of sources being edited; and it says "completed" of itself only with every required row
\* there, however its shards failed, ran twice or were filled in by the compile
\* guard (check-artifact-readiness.mjs:1119; merge-results.mjs, main).
ReadyIsWhole ==
    (verdict # Unjudged /\ verdict.exit = 0) =>
        /\ \A n \in REQUIRED_MEASURED_ROWS : Cardinality(Places(artifact, n)) = 1
        /\ \E n \in REQUIRED_MEASURED_ROWS : IsProven(RowOf(artifact, n).compat)
        /\ \A i \in DOMAIN artifact.results :
             LET r == artifact.results[i]
             IN  (IsProject(r.name) /\ r.winner \in {"tsz", "tsgo"}) =>
                    IsProven(r.compat) /\ r.ran /\ (TakesGuard(r.name) \/ ~r.edited)
        /\ (Len(files) > 1 /\ artifact.runStatus = "completed") =>
             missingDeclaredRows(REQUIRED_PROJECT_ROWS, artifact.results) = {}
===================================================================================
