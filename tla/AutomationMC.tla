-------------------------------- MODULE AutomationMC --------------------------------
(***************************************************************************)
(* The automation of the repository, one part at a time, which share nothing   *)
(* but GitHub: the benchmarks from the jobs to the page, the sentinel issues,   *)
(* and the refreshing of pull requests.                                           *)
(*                                                                         *)
(* The benchmarks: a required library and a required generated app, a required  *)
(* row the runner never times, a canary library, a canary application and a       *)
(* single file, in two jobs of which the second is optional.                      *)
(***************************************************************************)
EXTENDS BenchSite, Sentinels, GreenPrs
LOCAL INSTANCE SequencesExt

Is(project, benchmark, guarded, application, timed, excluded) ==
    [project |-> project, benchmark |-> benchmark, guard |-> guarded, application |-> application,
     timed |-> timed, excluded |-> excluded, gated |-> FALSE]
Definitions(n) ==
    CASE n = "zod" -> Is(TRUE, "required", "required", FALSE, FALSE, FALSE)
      [] n = "vite" -> Is(TRUE, "required", "required", FALSE, FALSE, FALSE)
      [] n = "challenges" -> Is(TRUE, "required", "canary", FALSE, FALSE, TRUE)
      [] n = "ofetch" -> Is(TRUE, "canary", "canary", FALSE, TRUE, FALSE)
      [] n = "affine" -> Is(TRUE, "canary", "canary", TRUE, TRUE, FALSE)
      [] OTHER -> Is(FALSE, "", "", FALSE, FALSE, FALSE)
AllNames == {"zod", "vite", "challenges", "ofetch", "affine", "file"}
NoNames == {}
BothShards == {"libraries", "canaries"}
OptionalShards == {"canaries"}
SomeHosts == {"h1", "h2"}
AllDefinitions == [n \in AllNames |-> Definitions(n)]

RowsOf(s) == IF s = "libraries" THEN <<"zod", "vite", "file">> ELSE <<"ofetch", "affine">>

\* What the proof run sees of a project.
Seen(tsc, tsz, exit, diagnostics) ==
    [schema |-> 3, identified |-> TRUE, stable |-> TRUE, complete |-> TRUE, graph |-> TRUE,
     records |-> tsc = tsz, sources |-> TRUE, stubs |-> 0, tsc |-> tsc, tsz |-> tsz, tsgo |-> <<>>,
     tscCodes |-> IF tsc = <<0>> THEN {} ELSE {"TS1"}, tszCodes |-> IF tsz = <<0>> THEN {} ELSE {"TS1"},
     exit |-> exit, diagnostics |-> diagnostics]
Agrees == Seen(<<0>>, <<0>>, "exit success", "none")
BothFail == Seen(<<1>>, <<1>>, "exit success", "none")
Differs == Seen(<<0>>, <<1>>, "nonzero exit", "diagnostic mismatch")
Partial == [Agrees EXCEPT !.complete = FALSE, !.exit = "exit success", !.diagnostics = "evidence incomplete"]

End(kind, seen, tsz, tsgo, edited, unrecorded) ==
    [kind |-> kind, seen |-> seen, tsz |-> tsz, tsgo |-> tsgo, edited |-> edited, unrecorded |-> unrecorded]
Fast == End("timed", Agrees, 2, 3, FALSE, FALSE)
Slow == End("timed", Agrees, 3, 2, FALSE, FALSE)
Edited == End("timed", Agrees, 2, 3, TRUE, FALSE)
Unrecorded == End("timed", Agrees, 2, 3, FALSE, TRUE)
Diverges == End("refused", Differs, 0, 0, FALSE, FALSE)
Unproved == End("refused", Partial, 0, 0, FALSE, FALSE)
FailsAlike == End("nonzero", BothFail, 0, 0, FALSE, FALSE)
Killed == End("killed", Agrees, 0, 0, FALSE, FALSE)
Broken == End("hyperfine", Agrees, 0, 0, FALSE, FALSE)
NoFixture == End("fixture", Agrees, 0, 0, FALSE, FALSE)
Skipped == End("skipped", Agrees, 0, 0, FALSE, FALSE)
EndsOf(n) ==
    CASE n = "zod" -> {Fast, Slow, Diverges, Edited, NoFixture}
      [] n = "vite" -> {Fast, FailsAlike, Skipped}
      [] n = "file" -> {Fast, Killed}
      [] n = "ofetch" -> {Fast, Slow, Edited, Broken, Unproved}
      [] OTHER -> {Fast, Unrecorded, Diverges, Skipped}

Line(n, e) == <<[name |-> n, compat |-> record(e)]>>
GuardLines == {Line("challenges", Agrees), Line("challenges", Agrees) \o Line("affine", Differs),
               Line("ofetch", BothFail) \o Line("zod", Differs), Line("ofetch", Agrees)}

Options(green, clean, coverage, minGreen) ==
    [appCompat |-> TRUE, timingPairs |-> TRUE, pairs |-> 1, green |-> green, cleanMetadata |-> clean,
     coverage |-> coverage, minGreen |-> minGreen]
\* bench.yml's, and every gate of a release.
BothJudgements == {Options(FALSE, FALSE, FALSE, 1), Options(TRUE, TRUE, TRUE, 2)}

Old(rows, checked, at) == [results |-> rows, absent |-> FALSE, runStatus |-> "completed", clean |-> TRUE,
                           checked |-> checked, at |-> at]
OldRows == <<Measured("file", Slow), Measured("zod", Fast), Measured("ofetch", Unrecorded)>>
\* A run that did not look at the exit codes of what it timed.
Careless == <<[Measured("file", Fast) EXCEPT !.ran = FALSE], Measured("zod", Fast)>>
OldOnes == {NoArtifact, Old(OldRows, TRUE, 1), Old(Careless, FALSE, 2), Old(OldRows, TRUE, 3)}
UncheckedRows == {"file"}

\* One way to end for each row of a shard, at most Troubles of them out of the
\* ordinary, and all of them in the ordinary on another machine or unsigned.
Troubles == 1
WaysToEnd(s) ==
    LET rows == Range(RowsOf(s))
    IN  {f \in [rows -> UNION {EndsOf(n) : n \in rows}] :
            /\ \A n \in rows : f[n] \in EndsOf(n)
            /\ Cardinality({n \in rows : f[n] # Fast}) <= Troubles}
\* A machine and whether the job signed its file.
Jobs == {<<"h1", TRUE>>, <<"h2", TRUE>>, <<"h1", FALSE>>}

MeasureSome ==
    \E s \in Shards : \E ends \in WaysToEnd(s), job \in Jobs :
        /\ job = <<"h1", TRUE>> \/ \A n \in DOMAIN ends : ends[n] = Fast
        /\ Measure(s, ends, job[1], job[2])
FailSome == \E s \in Shards : Fail(s)
GuardSome == \E line \in GuardLines : Guard(line)
MergeSome == \E required \in BOOLEAN : Merge(required)
JudgeSome == \E o \in BothJudgements : Judge(o)
PublishSome == \E older \in OldOnes : Publish(older)

VARIABLE part \* what moves
vars == <<benchVars, site, sentinelVars, greenVars, part>>

TwoPullRequests == {1, 2}
NobodyWaits == prs = [n \in PullRequests |-> Opened(1, FALSE, FALSE)]
Init ==
    /\ BenchInit /\ SiteInit /\ SentinelInit /\ GreenInit
    /\ part \in {"benchmarks", "sentinels", "prs"}
    /\ part # "sentinels" => watched = "main"
    /\ part # "prs" => NobodyWaits

Measures ==
    /\ part = "benchmarks"
    /\ MeasureSome \/ FailSome \/ GuardSome \/ MergeSome \/ Upload \/ JudgeSome
    /\ UNCHANGED <<site, sentinelVars, greenVars, part>>
Publishes == part = "benchmarks" /\ PublishSome /\ UNCHANGED <<sentinelVars, greenVars, part>>
Monitors == part = "sentinels" /\ MonitorNext /\ UNCHANGED <<benchVars, site, greenVars, part>>
Watches == part = "sentinels" /\ WorldNext /\ UNCHANGED <<benchVars, site, greenVars, part>>
Refreshes == part = "prs" /\ GreenNext /\ UNCHANGED <<benchVars, site, sentinelVars, part>>
Next == Measures \/ Publishes \/ Monitors \/ Watches \/ Refreshes
Spec == Init /\ [][Next]_vars /\ WF_vars(Monitors)
===================================================================================
