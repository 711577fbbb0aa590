--------------------------- MODULE ConformanceRunner --------------------------
(***************************************************************************)
(* The conformance runner (src/crates/conformance/src/runner.rs) beside the   *)
(* generator: it accepts a cache and a domain that agree with the tests on     *)
(* disk, compiles the selected tests with tsz, some at a time, and compares    *)
(* what tsz says with the rows of the cache.                                  *)
(***************************************************************************)
EXTENDS OracleCache, SequencesExt

CONSTANTS
    Tsz(_, _),   \* Tsz(text, i): what tsz ends with: an answer, Crash or Incomplete
    Crash,
    Incomplete,
    Selections,  \* what --shard, --offset, --max and --filter may leave of the tests
    Limit        \* --workers

ASSUME RunnerAssumption ==
    /\ Selections \subseteq SUBSET Test
    /\ Limit \in Nat \ {0}

VARIABLES
    run,      \* where the runner is
    cache,    \* Runner::cache, once loaded
    domain,   \* Runner::domain
    live,     \* what validate_live_domain has read of the tests, in order
    test,     \* the futures of the selected tests
    stats,    \* Runner::stats
    fatal     \* the tests in fatal_errors

loaded == <<cache, domain>>
outcome == <<stats, fatal>>
runnerVars == <<run, loaded, live, test, outcome>>
vars == <<oracleVars, runnerVars>>

At(step) == [at |-> step]
Refused == At("refused")
Counter == {"selected", "total", "pass", "fail", "skipped", "unsupported", "crashed", "timeout"}
NoStats == [c \in Counter |-> 0]
Terminal == Counter \ {"selected", "total"}

Init ==
    /\ OracleInit
    /\ run = At("start")
    /\ cache = Missing
    /\ domain = Missing
    /\ live = <<>>
    /\ test = <<>>
    /\ stats = NoStats
    /\ fatal = {}

-----------------------------------------------------------------------------
(***************************************************************************)
(* Runner::new                                                              *)
(***************************************************************************)
Go(step) == run' = At(step)
OnlyIf(condition, step) == IF condition THEN Go(step) ELSE run' = Refused

\* validate_runnable_evidence refuses a cache without rows.
load_cache ==
    /\ run.at = "start"
    /\ cache' = cacheFile
    /\ OnlyIf(cacheFile \notin {Missing, Torn, <<>>}, "load domain")
    /\ UNCHANGED <<oracleVars, domain, live, test, outcome>>

load_domain ==
    /\ run.at = "load domain"
    /\ domain' = domainFile
    /\ OnlyIf(domainFile \notin {Missing, Torn}, "identify")
    /\ UNCHANGED <<oracleVars, cache, live, test, outcome>>

Identify ==
    /\ run.at = "identify"
    /\ OnlyIf(verify_pinned_corpus /\ domain.commit = commit, "read disposition")
    /\ UNCHANGED <<oracleVars, loaded, live, test, outcome>>

-----------------------------------------------------------------------------
(***************************************************************************)
(* validate_live_domain                                                      *)
(***************************************************************************)
Declared(disposition) ==
    {t \in DOMAIN domain.content : domain.content[t].disposition = disposition}
NotRunnable == Declared("unsupported") \cup Declared("skipped")

\* What the cache and the lists of the domain say of each path.
Expected ==
    [t \in DOMAIN cache \cup NotRunnable |->
        IF t \in DOMAIN cache THEN "runnable" ELSE domain.content[t].disposition]

PartitionIsDeclared ==
    /\ DOMAIN cache \cap NotRunnable = {}
    /\ Cardinality(Declared("runnable")) = Cardinality(DOMAIN cache)

\* The lists are compared before the first test is read.  A test is read
\* twice: for its disposition,
DispositionRead ==
    /\ run.at = "read disposition"
    /\ live' = Append(live, [disposition |-> Disposition[texts[TestOrder[Len(live) + 1]]]])
    /\ OnlyIf(PartitionIsDeclared, "read source")
    /\ UNCHANGED <<oracleVars, loaded, test, outcome>>

\* A mutant of SourceRead: the row of the test may be of another text.
SourceRead_AnyRow ==
    /\ run.at = "read source"
    /\ LET n == Len(live)
           record == [disposition |-> live[n].disposition, source |-> texts[TestOrder[n]]]
       IN  /\ live' = [live EXCEPT ![n] = record]
           /\ OnlyIf(record.disposition = "runnable" => TestOrder[n] \in DOMAIN cache,
                     IF n = Len(TestOrder) THEN "compare" ELSE "read disposition")
    /\ UNCHANGED <<oracleVars, loaded, test, outcome>>

\* and for its digest.
SourceRead ==
    /\ run.at = "read source"
    /\ LET n == Len(live)
           t == TestOrder[n]
           record == [disposition |-> live[n].disposition, source |-> texts[t]]
       IN  /\ live' = [live EXCEPT ![n] = record]
           /\ OnlyIf(record.disposition = "runnable"
                        => t \in DOMAIN cache /\ cache[t].source = record.source,
                     IF n = Len(TestOrder) THEN "compare" ELSE "read disposition")
    /\ UNCHANGED <<oracleVars, loaded, test, outcome>>

Place(t) == CHOOSE n \in DOMAIN TestOrder : TestOrder[n] = t
LiveContent == [t \in Test |-> live[Place(t)]]
source_hashes == [t \in Test |-> LiveContent[t].source]

\* The last comparison of the preflight; then the tests are selected.
Compare ==
    /\ run.at = "compare"
    /\ \E selected \in Selections :
          /\ OnlyIf(/\ [t \in Test |-> LiveContent[t].disposition] = Expected
                    /\ LiveContent = domain.content
                    /\ selected # {}, "testing")
          /\ test' = [t \in selected |-> At("queued")]
          /\ stats' = [NoStats EXCEPT !["selected"] = Cardinality(selected)]
    /\ UNCHANGED <<oracleVars, loaded, live, fatal>>

-----------------------------------------------------------------------------
(***************************************************************************)
(* The tests                                                                *)
(***************************************************************************)
TestsAt(steps) == {t \in DOMAIN test : test[t].at \in steps}

\* A mutant of Count: a timeout is no result.
Count_NoTimeout(result) ==
    stats' = [stats EXCEPT !["total"] = IF result = "timeout" THEN @ ELSE @ + 1, ![result] = @ + 1]

Count(result) == stats' = [stats EXCEPT !["total"] = @ + 1, ![result] = @ + 1]

Result(t, result) ==
    /\ test' = [test EXCEPT ![t] = [at |-> "finished", result |-> result]]
    /\ Count(result)
    /\ fatal' = fatal

FatalError(t) ==
    /\ test' = [test EXCEPT ![t] = At("fatal")]
    /\ fatal' = fatal \cup {t}
    /\ stats' = stats

\* A mutant of run_test: the text need not be the one of the preflight.
run_test_AnyText(t) ==
    /\ run.at = "testing"
    /\ test[t].at = "queued"
    /\ Cardinality(TestsAt({"compiling"})) < Limit
    /\ IF Disposition[texts[t]] # "runnable" THEN Result(t, Disposition[texts[t]])
       ELSE IF t \notin DOMAIN cache THEN FatalError(t)
       ELSE /\ test' = [test EXCEPT ![t] =
                          [at |-> "compiling", text |-> texts[t], answers |-> <<>>]]
            /\ UNCHANGED outcome
    /\ UNCHANGED <<oracleVars, run, loaded, live>>

\* The one read of the test, which validate_candidate_source_bytes compares
\* with the digest of the preflight.
run_test(t) ==
    /\ run.at = "testing"
    /\ test[t].at = "queued"
    /\ Cardinality(TestsAt({"compiling"})) < Limit
    /\ \/ FatalError(t)
       \/ /\ texts[t] # source_hashes[t]
          /\ FatalError(t)
       \/ /\ texts[t] = source_hashes[t]
          /\ IF Disposition[texts[t]] # "runnable" THEN Result(t, Disposition[texts[t]])
             ELSE IF t \notin DOMAIN cache THEN FatalError(t)
             ELSE /\ test' = [test EXCEPT ![t] =
                                [at |-> "compiling", text |-> texts[t], answers |-> <<>>]]
                  /\ UNCHANGED outcome
    /\ UNCHANGED <<oracleVars, run, loaded, live>>

Joined(answers) == FlattenSeq([n \in DOMAIN answers |-> answers[n].diagnostics])

\* The diagnostics of all configurations one after the other, and one exit
\* status of each.
canonical(answers) ==
    [diagnostics |-> Joined(answers), exits |-> [n \in DOMAIN answers |-> answers[n].exit]]

compare_diagnostics(t, answers) ==
    IF canonical(answers) = canonical(cache[t].answers) THEN "pass" ELSE "fail"

\* tsz ends by itself.
ProcessEnds(t) ==
    LET ended == Tsz(test[t].text, Len(test[t].answers) + 1)
        answers == Append(test[t].answers, ended)
    IN  IF ended = Crash THEN Result(t, "crashed")
        ELSE IF ended = Incomplete THEN Result(t, "unsupported")
        ELSE IF Len(answers) < Variants[test[t].text]
        THEN /\ test' = [test EXCEPT ![t].answers = answers]
             /\ UNCHANGED outcome
        ELSE Result(t, compare_diagnostics(t, answers))

\* A configuration: its directory is prepared and tsz is spawned, and either
\* may fail; then the timeout races the process.
compile_text_variant(t) ==
    /\ run.at = "testing"
    /\ test[t].at = "compiling"
    /\ \/ ProcessEnds(t)
       \/ Result(t, "timeout")
       \/ FatalError(t)
    /\ UNCHANGED <<oracleVars, run, loaded, live>>

-----------------------------------------------------------------------------
(***************************************************************************)
(* The summary                                                              *)
(***************************************************************************)
has_result_bijection ==
    /\ stats["selected"] > 0
    /\ stats["total"] = stats["selected"]
    /\ stats["pass"] + stats["fail"] + stats["skipped"] + stats["unsupported"]
          + stats["crashed"] + stats["timeout"] = stats["total"]

has_terminal_failure == \E c \in {"fail", "crashed", "timeout"} : stats[c] > 0

\* A mutant of Account: it waits for the tests that ended with a fatal error.
Account_Results ==
    /\ run.at = "testing"
    /\ TestsAt({"finished"}) = DOMAIN test
    /\ run' = IF has_result_bijection THEN At("timings") ELSE At("unaccounted")
    /\ UNCHANGED <<oracleVars, loaded, live, test, outcome>>

Account ==
    /\ run.at = "testing"
    /\ TestsAt({"finished", "fatal"}) = DOMAIN test
    /\ run' = IF fatal # {} THEN Refused
              ELSE IF ~has_result_bijection THEN At("unaccounted")
              ELSE At("timings")
    /\ UNCHANGED <<oracleVars, loaded, live, test, outcome>>

\* The timings file is written before the summary is printed, or not written.
Publish ==
    /\ run.at = "timings"
    /\ \/ run' = Refused
       \/ run' = [at |-> "published", exit |-> IF has_terminal_failure THEN 1 ELSE 0]
    /\ UNCHANGED <<oracleVars, loaded, live, test, outcome>>

Preflight ==
    \/ load_domain
    \/ Identify
    \/ DispositionRead
    \/ SourceRead
    \/ Compare

TestStep(t) == run_test(t) \/ compile_text_variant(t)

RunnerStep ==
    \/ load_cache
    \/ Preflight
    \/ \E t \in DOMAIN test : TestStep(t)
    \/ Account
    \/ Publish

Next ==
    \/ (Edit \/ Checkout \/ GeneratorStep) /\ UNCHANGED runnerVars
    \/ RunnerStep

Spec == Init /\ [][Next]_vars

\* Every thread and every future goes on, and each compiler ends or times out;
\* nobody has to start a program, to change a test or to kill the generator.
Fairness ==
    /\ \A t \in Test : WF_vars(t \in DOMAIN job /\ ThreadStep(t) /\ UNCHANGED runnerVars)
    /\ WF_vars(Finish /\ UNCHANGED runnerVars)
    /\ WF_vars(Preflight)
    /\ \A t \in Test : WF_vars(t \in DOMAIN test /\ TestStep(t))
    /\ WF_vars(Account \/ Publish)

FairSpec == Spec /\ Fairness
=============================================================================
