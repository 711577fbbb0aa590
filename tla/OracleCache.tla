------------------------------ MODULE OracleCache -----------------------------
(***************************************************************************)
(* generate-tsc-cache (src/crates/conformance/src/bin/generate-tsc-cache.rs):  *)
(* threads run the pinned compiler on the tests of the corpus, under a        *)
(* semaphore, and the answers are written as a cache and a domain manifest.   *)
(*                                                                         *)
(* Others change the tests while the program works, and it may be killed.     *)
(* A digest stands for the bytes it is of.                                   *)
(***************************************************************************)
EXTENDS Naturals, Sequences, FiniteSets

CONSTANTS
    TestOrder,        \* the tests of the corpus, in the order of their paths
    Text,             \* what a test may hold
    Disposition,      \* text -> "runnable", "unsupported" or "skipped"
    Variants,         \* text -> how many configurations its directives select
    Native(_, _),     \* Native(text, i): the pinned compiler on configuration i
    Commit,
    Pinned,           \* commit -> test -> text
    Filters,          \* the sets of tests that --filter and --max may leave
    Workers,          \* rayon threads
    MaxNode,          \* permits of the semaphore
    Missing,          \* there is no such file
    Torn,             \* a file that is created and not, or not wholly, written
    MaxGenerations, MaxEdits  \* bounds

Test == {TestOrder[n] : n \in DOMAIN TestOrder}

ASSUME OracleCacheAssumption ==
    /\ TestOrder \in Seq(Test)
    /\ Disposition \in [Text -> {"runnable", "unsupported", "skipped"}]
    /\ Variants \in [Text -> Nat \ {0}]
    /\ Pinned \in [Commit -> [Test -> Text]]
    /\ Filters \subseteq SUBSET Test
    /\ {Workers, MaxNode} \subseteq Nat \ {0}
    /\ {MaxGenerations, MaxEdits} \subseteq Nat

VARIABLES
    commit,       \* the commit that the corpus is checked out at, and pinned
    texts,        \* the tests on disk
    cacheFile,
    domainFile,
    generation,   \* where the generator is
    job,          \* what its threads make of each test
    permits,      \* CountingSemaphore::state
    generations, edits

corpus == <<commit, texts, edits>>
evidenceFiles == <<cacheFile, domainFile>>
oracleVars == <<corpus, evidenceFiles, generation, job, permits, generations>>

Idle == [at |-> "idle"]
Unread == [at |-> "queued"]
Working == generation.at = "working"
JobsAt(steps) == {t \in DOMAIN job : job[t].at \in steps}
Busy == JobsAt({"ready", "woken", "waiting", "running"})

OracleInit ==
    /\ commit \in Commit
    /\ texts = Pinned[commit]
    /\ cacheFile = Missing
    /\ domainFile = Missing
    /\ generation = Idle
    /\ job = <<>>
    /\ permits = MaxNode
    /\ generations = 0
    /\ edits = 0

-----------------------------------------------------------------------------
(***************************************************************************)
(* The worktree                                                             *)
(***************************************************************************)
Edit ==
    /\ edits < MaxEdits
    /\ \E t \in Test : \E text \in Text \ {texts[t]} : texts' = [texts EXCEPT ![t] = text]
    /\ edits' = edits + 1
    /\ UNCHANGED <<commit, evidenceFiles, generation, job, permits, generations>>

\* Another commit, with its pin; or the same again, which undoes the edits.
Checkout ==
    /\ \E c \in Commit :
          /\ commit' = c
          /\ texts' = Pinned[c]
          /\ edits' = IF c = commit THEN edits ELSE edits + 1
    /\ edits' <= MaxEdits
    /\ UNCHANGED <<evidenceFiles, generation, job, permits, generations>>

verify_pinned_corpus == texts = Pinned[commit]

-----------------------------------------------------------------------------
(***************************************************************************)
(* The threads                                                              *)
(***************************************************************************)
Generate ==
    /\ generation = Idle
    /\ generations < MaxGenerations
    /\ verify_pinned_corpus
    /\ \E selected \in Filters : job' = [t \in selected |-> Unread]
    /\ generation' = [at |-> "working", commit |-> commit]
    /\ permits' = MaxNode
    /\ generations' = generations + 1
    /\ UNCHANGED <<corpus, evidenceFiles>>

JobStep(t, step) ==
    /\ job' = [job EXCEPT ![t] = step]
    /\ UNCHANGED <<corpus, evidenceFiles, generation, permits, generations>>

Done(text, answers) == [at |-> "done", text |-> text, answers |-> answers]
Failed == [at |-> "failed"]
Started(text) ==
    IF Disposition[text] = "runnable"
    THEN [at |-> "ready", text |-> text, answers |-> <<>>]
    ELSE Done(text, <<>>)

\* The one read of the test; digest and answers are of what it returned.
ReadTest(t) ==
    /\ Working /\ job[t] = Unread
    /\ Cardinality(Busy) < Workers
    /\ \E step \in {Started(texts[t]), Failed} : JobStep(t, step)

PrepareFails(t) ==
    /\ Working /\ job[t].at = "ready"
    /\ JobStep(t, Failed)

acquire(t) ==
    /\ Working /\ job[t].at \in {"ready", "woken"}
    /\ IF permits = 0
       THEN /\ job' = [job EXCEPT ![t].at = "waiting"]
            /\ permits' = permits
       ELSE /\ job' = [job EXCEPT ![t].at = "running"]
            /\ permits' = permits - 1
    /\ UNCHANGED <<corpus, evidenceFiles, generation, generations>>

\* A condition variable may wake a waiter that nobody notified.
SpuriousWakeup(t) ==
    /\ Working /\ job[t].at = "waiting"
    /\ JobStep(t, [job[t] EXCEPT !.at = "woken"])

\* A mutant of release: it does not notify.
release_Silent(jobs) ==
    /\ permits' = permits + 1
    /\ job' = jobs

\* Returns the permit and wakes one waiter, if there is one.
release(jobs) ==
    LET waiting == {t \in DOMAIN jobs : jobs[t].at = "waiting"}
    IN  /\ permits' = permits + 1
        /\ \/ waiting = {} /\ job' = jobs
           \/ \E t \in waiting : job' = [jobs EXCEPT ![t].at = "woken"]

Answered(t) ==
    LET answers == Append(job[t].answers, Native(job[t].text, Len(job[t].answers) + 1))
    IN  IF Len(answers) = Variants[job[t].text]
        THEN Done(job[t].text, answers)
        ELSE [job[t] EXCEPT !.at = "ready", !.answers = answers]

\* The compiler answers; or it times out, cannot start, or its output is no
\* complete evidence.
NativeEnds(t) ==
    /\ Working /\ job[t].at = "running"
    /\ \E step \in {Answered(t), Failed} : release([job EXCEPT ![t] = step])
    /\ UNCHANGED <<corpus, evidenceFiles, generation, generations>>

-----------------------------------------------------------------------------
(***************************************************************************)
(* What the generator writes                                                *)
(***************************************************************************)
Stop ==
    /\ generation' = Idle
    /\ job' = <<>>
    /\ permits' = MaxNode

rows == {t \in DOMAIN job : Disposition[job[t].text] = "runnable"}
GeneratedCache == [t \in rows |-> [source |-> job[t].text, answers |-> job[t].answers]]
GeneratedDomain ==
    [commit  |-> generation.commit,
     content |-> [t \in DOMAIN job |->
                    [disposition |-> Disposition[job[t].text], source |-> job[t].text]]]

AllProcessed ==
    /\ Working
    /\ JobsAt({"done", "failed"}) = DOMAIN job
    /\ IF JobsAt({"failed"}) # {}
       THEN Stop
       ELSE /\ generation' = [at |-> "recheck", commit |-> generation.commit, next |-> 1]
            /\ UNCHANGED <<job, permits>>
    /\ UNCHANGED <<corpus, evidenceFiles, generations>>

Advance(at) ==
    /\ generation' = [at |-> at, commit |-> generation.commit]
    /\ UNCHANGED <<job, permits>>

\* One test after the other is read again.
Recheck ==
    /\ generation.at = "recheck"
    /\ LET n == generation.next
       IN  IF n > Len(TestOrder) THEN Advance("create cache")
           ELSE IF TestOrder[n] \in DOMAIN job /\ texts[TestOrder[n]] # job[TestOrder[n]].text
           THEN Stop
           ELSE /\ generation' = [generation EXCEPT !.next = n + 1]
                /\ UNCHANGED <<job, permits>>
    /\ UNCHANGED <<corpus, evidenceFiles, generations>>

CreateCache ==
    /\ generation.at = "create cache"
    /\ \/ cacheFile' = Torn /\ Advance("write cache")
       \/ cacheFile' = cacheFile /\ Stop
    /\ UNCHANGED <<corpus, domainFile, generations>>

\* What the buffered writer still holds is written when it is dropped, and an
\* error of that write is not reported.
write_cache ==
    /\ generation.at = "write cache"
    /\ \/ cacheFile' \in {GeneratedCache, Torn} /\ Advance("create domain")
       \/ cacheFile' = Torn /\ Stop
    /\ UNCHANGED <<corpus, domainFile, generations>>

CreateDomain ==
    /\ generation.at = "create domain"
    /\ \/ domainFile' = Torn /\ Advance("write domain")
       \/ domainFile' = domainFile /\ Stop
    /\ UNCHANGED <<corpus, cacheFile, generations>>

write_domain ==
    /\ generation.at = "write domain"
    /\ domainFile' \in {GeneratedDomain, Torn}
    /\ Stop
    /\ UNCHANGED <<corpus, cacheFile, generations>>

Killed ==
    /\ generation # Idle
    /\ Stop
    /\ UNCHANGED <<corpus, evidenceFiles, generations>>

ThreadStep(t) ==
    \/ ReadTest(t)
    \/ acquire(t)
    \/ NativeEnds(t)

Finish ==
    \/ AllProcessed
    \/ Recheck
    \/ CreateCache
    \/ write_cache
    \/ CreateDomain
    \/ write_domain

GeneratorStep ==
    \/ Generate
    \/ \E t \in DOMAIN job : ThreadStep(t) \/ PrepareFails(t) \/ SpuriousWakeup(t)
    \/ Finish
    \/ Killed
=============================================================================
