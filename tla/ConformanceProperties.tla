-------------------------- MODULE ConformanceProperties -----------------------
(***************************************************************************)
(* What the generator and the runner promise together.                       *)
(***************************************************************************)
EXTENDS ConformanceRunner

Answers(text) == [i \in 1..Variants[text] |-> Native(text, i)]

\* A cache that can be read has the answers of every configuration of the text
\* its row names, whatever failed, was edited or was killed on the way: no
\* partial evidence is ever written.
RowsAreWhole ==
    cacheFile \notin {Missing, Torn} =>
        \A t \in DOMAIN cacheFile :
            /\ Disposition[cacheFile[t].source] = "runnable"
            /\ cacheFile[t].answers = Answers(cacheFile[t].source)

\* Once the preflight has let the runner go on, the rows, the domain and the
\* digests the tests are held to are of the same texts of the whole corpus, also
\* when a generation was cut off between its two files, when another ended
\* between the two loads, or when a test was edited between its two reads.
AcceptedEvidenceIsOfOneCorpus ==
    run.at \in {"testing", "timings", "published"} =>
        /\ DOMAIN domain.content = Test
        /\ DOMAIN cache = {t \in Test : Disposition[source_hashes[t]] = "runnable"}
        /\ \A t \in Test : domain.content[t].source = source_hashes[t]
        /\ \A t \in DOMAIN cache : cache[t].source = source_hashes[t]

\* No evidence is partial, mixed or stale, in the files or in the runner that has
\* accepted them (RepositoryTscCache, validate_live_domain).
EvidenceIsSound == RowsAreWhole /\ AcceptedEvidenceIsOfOneCorpus

TszAnswers(text) == [i \in 1..Variants[text] |-> Tsz(text, i)]

\* A test is compiled from the text its row was made from, whatever is edited
\* meanwhile.  It passes only if tsz completed every configuration and said what
\* the native compiler says of that text, and is set aside only for what the text
\* selects or for what tsz leaves incomplete; and a run succeeds only if every
\* selected test passed or was set aside.
PassesAreEarned ==
    /\ \A t \in TestsAt({"compiling"}) : test[t].text = source_hashes[t]
    /\ \A t \in TestsAt({"finished"}) :
          LET text == source_hashes[t]
              ends == {Tsz(text, i) : i \in 1..Variants[text]}
          IN  /\ test[t].result = "pass" =>
                    /\ Disposition[text] = "runnable"
                    /\ {Crash, Incomplete} \cap ends = {}
                    /\ canonical(TszAnswers(text)) = canonical(Answers(text))
              /\ test[t].result \in {"skipped", "unsupported"} =>
                    Disposition[text] = test[t].result \/ Incomplete \in ends
    /\ (run.at = "published" /\ run.exit = 0) =>
          \A t \in DOMAIN test :
              test[t].at = "finished" /\ test[t].result \in {"pass", "skipped", "unsupported"}

\* Every selected test is counted once, under its own result, whatever the
\* order in which the tests end and whichever of the timeout and the process is
\* first: the check of the accounting never refuses a run.
ResultsAreCountedOnce ==
    /\ run.at # "unaccounted"
    /\ run.at = "published" =>
          \A result \in Terminal :
              stats[result] = Cardinality({t \in DOMAIN test : test[t].result = result})

\* A generation that is started ends: no thread waits for ever for a permit.
GenerationEnds == generation # Idle ~> generation = Idle
=============================================================================
