--------------------------- MODULE ConformanceProofs --------------------------
(***************************************************************************)
(* No evidence is partial, mixed or stale, no pass is unearned and no result   *)
(* is lost: for every corpus, every compiler, every number of threads and      *)
(* however often tests are edited and generations killed.                     *)
(***************************************************************************)
EXTENDS ConformanceProperties, FiniteSetTheorems, TLAPS

-----------------------------------------------------------------------------
(***************************************************************************)
(* The invariant of the generator.                                           *)
(***************************************************************************)
Whole(c) ==
    c \notin {Missing, Torn} =>
        /\ DOMAIN c \subseteq Test
        /\ c # <<>> => DOMAIN c # {}
        /\ \A t \in DOMAIN c :
              /\ c[t].source \in Text
              /\ Disposition[c[t].source] = "runnable"
              /\ c[t].answers = Answers(c[t].source)

\* A domain says of each source what the source is.
Consistent(d) ==
    d \notin {Missing, Torn} =>
        \A t \in DOMAIN d.content :
            d.content[t].disposition = Disposition[d.content[t].source]

Begun == {"ready", "woken", "waiting", "running"}

\* The answers so far are those of the first configurations.
FirstAnswers(text, answers) ==
    \E n \in Nat : n < Variants[text] /\ answers = [i \in 1..n |-> Native(text, i)]

JobIsSound(j) ==
    /\ j.at \in {"queued", "failed", "done"} \cup Begun
    /\ j.at \in Begun =>
          /\ j = [at |-> j.at, text |-> j.text, answers |-> j.answers]
          /\ j.text \in Text
          /\ Disposition[j.text] = "runnable"
          /\ FirstAnswers(j.text, j.answers)
    /\ j.at = "done" =>
          /\ j.text \in Text
          /\ Disposition[j.text] = "runnable" => j.answers = Answers(j.text)

Writing == {"recheck", "create cache", "write cache", "create domain", "write domain"}

GeneratorInv ==
    /\ texts \in [Test -> Text]
    /\ commit \in Commit
    /\ generation.at \in {"idle", "working"} \cup Writing
    /\ generation.at = "recheck" =>
          generation = [at |-> "recheck", commit |-> generation.commit, next |-> generation.next]
    /\ DOMAIN job \subseteq Test
    /\ \A t \in DOMAIN job : JobIsSound(job[t])
    /\ generation.at \in Writing => \A t \in DOMAIN job : job[t].at = "done"
    /\ Whole(cacheFile)
    /\ Consistent(domainFile)

-----------------------------------------------------------------------------
LEMMA TestsAreFinite == IsFiniteSet(Test)
<1>1. TestOrder \in [1..Len(TestOrder) -> Test] /\ Len(TestOrder) \in Nat
    BY OracleCacheAssumption
<1>2. TestOrder \in Surjection(1..Len(TestOrder), Test)
    BY <1>1 DEF Surjection, Test
<1>3. IsFiniteSet(1..Len(TestOrder))
    BY <1>1, FS_Interval
<1> QED BY <1>2, <1>3, FS_Surjection

LEMMA NoTests == <<>> = [t \in {} |-> 0] /\ DOMAIN <<>> = {}
OBVIOUS

LEMMA GeneratorInitInv == OracleInit => GeneratorInv
<1> SUFFICES ASSUME OracleInit PROVE GeneratorInv
    OBVIOUS
<1>1. texts \in [Test -> Text] /\ commit \in Commit
    BY OracleCacheAssumption DEF OracleInit
<1>2. DOMAIN job = {} /\ generation.at = "idle"
    BY NoTests DEF OracleInit, Idle
<1>3. Whole(cacheFile) /\ Consistent(domainFile)
    BY DEF OracleInit, Whole, Consistent
<1> QED BY <1>1, <1>2, <1>3 DEF GeneratorInv, Writing

\* Once more, what the compiler says of the next configuration.
LEMMA NextAnswer ==
    ASSUME NEW text \in Text, NEW answers, FirstAnswers(text, answers)
    PROVE  LET more == Append(answers, Native(text, Len(answers) + 1))
           IN  IF Len(more) = Variants[text] THEN more = Answers(text)
               ELSE FirstAnswers(text, more)
<1>1. PICK n \in Nat : n < Variants[text] /\ answers = [i \in 1..n |-> Native(text, i)]
    BY DEF FirstAnswers
<1>2. Variants[text] \in Nat
    BY OracleCacheAssumption
<1> DEFINE S == {Native(text, i) : i \in 1..n}
           more == [i \in 1..(n + 1) |-> Native(text, i)]
<1>3. answers \in Seq(S) /\ Len(answers) = n
    BY <1>1
<1>4. Append(answers, Native(text, n + 1)) = more
    BY <1>1, <1>3
<1>5. Len(more) = n + 1
    OBVIOUS
<1>6. CASE n + 1 = Variants[text]
    BY <1>3, <1>4, <1>5, <1>6 DEF Answers
<1>7. CASE n + 1 # Variants[text]
  <2>1. n + 1 < Variants[text] /\ n + 1 \in Nat
      BY <1>1, <1>2, <1>7
  <2>2. FirstAnswers(text, more)
      BY <2>1 DEF FirstAnswers
  <2> QED BY <1>3, <1>4, <1>5, <1>7, <2>2
<1> QED BY <1>6, <1>7

\* A thread makes one job sound again and leaves the rest.
LEMMA OneJob ==
    ASSUME GeneratorInv, NEW t \in DOMAIN job, NEW j, JobIsSound(j), Working,
           job' = [job EXCEPT ![t] = j],
           UNCHANGED <<corpus, evidenceFiles, generation>>
    PROVE  GeneratorInv'
<1>1. UNCHANGED <<commit, texts, cacheFile, domainFile, generation>>
    BY DEF corpus, evidenceFiles
<1>2. DOMAIN job' = DOMAIN job /\ \A u \in DOMAIN job : job'[u] = IF u = t THEN j ELSE job[u]
    OBVIOUS
<1>3. generation.at \notin Writing
    BY DEF Working, Writing
<1>4. \A u \in DOMAIN job' : JobIsSound(job'[u])
    BY <1>2 DEF GeneratorInv
<1> QED BY <1>1, <1>2, <1>3, <1>4 DEF GeneratorInv, Whole, Consistent

\* A waiter that is woken is as sound as it was.
LEMMA Woken ==
    ASSUME NEW j, JobIsSound(j), j.at \in Begun, NEW at \in Begun
    PROVE  JobIsSound([j EXCEPT !.at = at]) /\ [j EXCEPT !.at = at].at \in Begun
<1>1. j = [at |-> j.at, text |-> j.text, answers |-> j.answers]
    BY DEF JobIsSound
<1>2. [j EXCEPT !.at = at] = [at |-> at, text |-> j.text, answers |-> j.answers]
    BY <1>1
<1> QED BY <1>2 DEF JobIsSound, Begun

LEMMA ThreadSteps ==
    ASSUME GeneratorInv, NEW t \in DOMAIN job, ThreadStep(t) \/ PrepareFails(t) \/ SpuriousWakeup(t)
    PROVE  GeneratorInv'
<1>j. JobIsSound(job[t]) /\ t \in Test /\ texts[t] \in Text
    BY DEF GeneratorInv
<1>f. JobIsSound(Failed)
    BY DEF JobIsSound, Failed, Begun
<1>1. CASE ReadTest(t)
  <2>1. PICK step \in {Started(texts[t]), Failed} : JobStep(t, step)
      BY <1>1 DEF ReadTest
  <2>2. JobIsSound(Started(texts[t]))
    <3>1. CASE Disposition[texts[t]] = "runnable"
      <4>1. <<>> = [i \in 1..0 |-> Native(texts[t], i)]
          OBVIOUS
      <4>2. 0 \in Nat /\ 0 < Variants[texts[t]]
          BY <1>j, OracleCacheAssumption
      <4>3. FirstAnswers(texts[t], <<>>)
          BY <4>1, <4>2 DEF FirstAnswers
      <4> QED BY <1>j, <3>1, <4>3 DEF Started, JobIsSound, Begun
    <3>2. CASE Disposition[texts[t]] # "runnable"
        BY <1>j, <3>2 DEF Started, Done, JobIsSound, Begun
    <3> QED BY <3>1, <3>2
  <2>3. JobIsSound(step)
      BY <1>f, <2>2
  <2> QED BY <1>1, <2>1, <2>3, OneJob DEF ReadTest, JobStep
<1>2. CASE PrepareFails(t)
    BY <1>2, <1>f, OneJob DEF PrepareFails, JobStep
<1>3. CASE acquire(t)
  <2>1. job[t].at \in Begun /\ Working /\ UNCHANGED <<corpus, evidenceFiles, generation>>
      BY <1>3 DEF acquire, Begun
  <2>2. PICK at \in {"waiting", "running"} : job' = [job EXCEPT ![t].at = at]
      BY <1>3 DEF acquire
  <2>3. job' = [job EXCEPT ![t] = [job[t] EXCEPT !.at = at]]
      BY <2>2
  <2>4. JobIsSound([job[t] EXCEPT !.at = at])
      BY <1>j, <2>1, Woken DEF Begun
  <2> QED BY <2>1, <2>3, <2>4, OneJob
<1>4. CASE SpuriousWakeup(t)
  <2>1. JobIsSound([job[t] EXCEPT !.at = "woken"])
      BY <1>j, <1>4, Woken DEF SpuriousWakeup, Begun
  <2> QED BY <1>4, <2>1, OneJob DEF SpuriousWakeup, JobStep
<1>5. CASE NativeEnds(t)
  <2>1. PICK step \in {Answered(t), Failed} : release([job EXCEPT ![t] = step])
      BY <1>5 DEF NativeEnds
  <2>2. Working /\ job[t].at = "running" /\ UNCHANGED <<corpus, evidenceFiles, generation>>
      BY <1>5 DEF NativeEnds
  <2>3. JobIsSound(Answered(t))
    <3> DEFINE text == job[t].text
               answers == job[t].answers
               more == Append(answers, Native(text, Len(answers) + 1))
    <3>1. /\ text \in Text /\ Disposition[text] = "runnable" /\ FirstAnswers(text, answers)
          /\ job[t] = [at |-> "running", text |-> text, answers |-> answers]
        BY <1>j, <2>2 DEF JobIsSound, Begun
    <3>2. IF Len(more) = Variants[text] THEN more = Answers(text) ELSE FirstAnswers(text, more)
        BY <3>1, NextAnswer
    <3>3. CASE Len(more) = Variants[text]
      <4>1. Answered(t) = [at |-> "done", text |-> text, answers |-> more]
          BY <3>3 DEF Answered, Done
      <4> HIDE DEF text, more
      <4> QED BY <3>1, <3>2, <3>3, <4>1 DEF JobIsSound, Begun
    <3>4. CASE Len(more) # Variants[text]
      <4>1. Answered(t) = [at |-> "ready", text |-> text, answers |-> more]
          BY <3>1, <3>4 DEF Answered
      <4> HIDE DEF text, more
      <4> QED BY <3>1, <3>2, <3>4, <4>1 DEF JobIsSound, Begun
    <3> QED BY <3>3, <3>4
  <2>4. JobIsSound(step)
      BY <1>f, <2>3
  <2> DEFINE jobs == [job EXCEPT ![t] = step]
  <2>5. CASE job' = jobs
      BY <2>2, <2>4, <2>5, OneJob
  <2>6. CASE \E u \in {v \in DOMAIN jobs : jobs[v].at = "waiting"} : job' = [jobs EXCEPT ![u].at = "woken"]
    <3>1. PICK u \in DOMAIN jobs : jobs[u].at = "waiting" /\ job' = [jobs EXCEPT ![u].at = "woken"]
        BY <2>6
    <3>2. DOMAIN jobs = DOMAIN job /\ \A v \in DOMAIN job : jobs[v] = IF v = t THEN step ELSE job[v]
        OBVIOUS
    <3>3. \A v \in DOMAIN jobs : JobIsSound(jobs[v])
        BY <2>4, <3>2 DEF GeneratorInv
    <3> HIDE DEF jobs
    <3>4. JobIsSound([jobs[u] EXCEPT !.at = "woken"])
        BY <3>1, <3>3, Woken DEF Begun
    <3>5. DOMAIN job' = DOMAIN job /\ \A v \in DOMAIN job' : JobIsSound(job'[v])
        BY <3>1, <3>2, <3>3, <3>4
    <3>6. UNCHANGED <<commit, texts, cacheFile, domainFile, generation>> /\ generation.at \notin Writing
        BY <2>2 DEF corpus, evidenceFiles, Working, Writing
    <3> QED BY <3>5, <3>6 DEF GeneratorInv, Whole, Consistent
  <2> QED BY <2>1, <2>5, <2>6 DEF release
<1> QED BY <1>1, <1>2, <1>3, <1>4, <1>5 DEF ThreadStep

\* A generation that stops leaves no job.
LEMMA StopStep ==
    ASSUME GeneratorInv, Stop, UNCHANGED corpus, Whole(cacheFile'), Consistent(domainFile')
    PROVE  GeneratorInv'
<1>1. DOMAIN job' = {} /\ generation' = [at |-> "idle"]
    BY NoTests DEF Stop, Idle
<1>2. UNCHANGED <<commit, texts>>
    BY DEF corpus
<1>3. Whole(cacheFile)' /\ Consistent(domainFile)'
    BY DEF Whole, Consistent
<1> QED BY <1>1, <1>2, <1>3 DEF GeneratorInv, Writing

\* One that goes on writes what all its jobs have done.
LEMMA AdvanceStep ==
    ASSUME GeneratorInv, generation.at \in Writing, NEW at \in Writing \ {"recheck"}, Advance(at),
           UNCHANGED corpus, Whole(cacheFile'), Consistent(domainFile')
    PROVE  GeneratorInv'
<1>1. generation'.at = at /\ job' = job
    BY DEF Advance
<1>2. UNCHANGED <<commit, texts>>
    BY DEF corpus
<1>3. Whole(cacheFile)' /\ Consistent(domainFile)'
    BY DEF Whole, Consistent
<1> QED BY <1>1, <1>2, <1>3 DEF GeneratorInv, JobIsSound, FirstAnswers, Answers

LEMMA EvidenceIsWhole ==
    ASSUME GeneratorInv, generation.at \in Writing
    PROVE  Whole(GeneratedCache) /\ Consistent(GeneratedDomain) /\ Whole(Torn) /\ Consistent(Torn)
<1>1. \A t \in DOMAIN job : job[t].at = "done" /\ JobIsSound(job[t])
    BY DEF GeneratorInv
<1>2. \A t \in DOMAIN job : Disposition[job[t].text] = "runnable" =>
          job[t].text \in Text /\ job[t].answers = Answers(job[t].text)
    BY <1>1 DEF JobIsSound
<1>3. DOMAIN GeneratedCache = rows /\ rows \subseteq Test
    BY DEF GeneratedCache, rows, GeneratorInv
<1>4. GeneratedCache # <<>> => rows # {}
    BY NoTests DEF GeneratedCache
<1>5. ASSUME NEW t \in rows
      PROVE  /\ GeneratedCache[t].source \in Text
             /\ Disposition[GeneratedCache[t].source] = "runnable"
             /\ GeneratedCache[t].answers = Answers(GeneratedCache[t].source)
    BY <1>2 DEF GeneratedCache, rows
<1>6. Whole(GeneratedCache)
    BY <1>3, <1>4, <1>5 DEF Whole
<1>7. Consistent(GeneratedDomain)
    BY DEF Consistent, GeneratedDomain
<1> QED BY <1>6, <1>7 DEF Whole, Consistent

LEMMA FinishStep ==
    ASSUME GeneratorInv, Finish
    PROVE  GeneratorInv'
<1>o. Whole(cacheFile) /\ Consistent(domainFile)
    BY DEF GeneratorInv
<1>t. UNCHANGED corpus
    BY DEF Finish, AllProcessed, Recheck, CreateCache, write_cache, CreateDomain, write_domain
<1>1. CASE AllProcessed
  <2>1. CASE JobsAt({"failed"}) # {}
      BY <1>1, <1>o, <1>t, <2>1, StopStep DEF AllProcessed, evidenceFiles
  <2>2. CASE JobsAt({"failed"}) = {}
    <3>1. /\ generation' = [at |-> "recheck", commit |-> generation.commit, next |-> 1]
          /\ UNCHANGED <<commit, texts, cacheFile, domainFile, job>>
          /\ JobsAt({"done", "failed"}) = DOMAIN job
        BY <1>1, <2>2 DEF AllProcessed, corpus, evidenceFiles
    <3>2. \A t \in DOMAIN job : job[t].at = "done"
        BY <2>2, <3>1 DEF JobsAt
    <3> QED BY <3>1, <3>2 DEF GeneratorInv, Writing, Whole, Consistent
  <2> QED BY <2>1, <2>2
<1>2. CASE Recheck
  <2>1. generation.at = "recheck" /\ UNCHANGED <<cacheFile, domainFile>>
      BY <1>2 DEF Recheck, evidenceFiles
  <2>2. CASE Advance("create cache")
      BY <1>o, <1>t, <2>1, <2>2, AdvanceStep DEF Writing
  <2>3. CASE Stop
      BY <1>o, <1>t, <2>1, <2>3, StopStep
  <2>4. CASE generation' = [generation EXCEPT !.next = generation.next + 1] /\ job' = job
    <3>1. generation = [at |-> "recheck", commit |-> generation.commit, next |-> generation.next]
        BY <2>1 DEF GeneratorInv
    <3>2. generation' = [at |-> "recheck", commit |-> generation.commit, next |-> generation.next + 1]
        BY <2>4, <3>1
    <3>3. UNCHANGED <<commit, texts, cacheFile, domainFile, job>>
        BY <1>t, <2>1, <2>4 DEF corpus
    <3> QED BY <2>1, <3>2, <3>3 DEF GeneratorInv, Writing, Whole, Consistent
  <2> QED BY <1>2, <2>2, <2>3, <2>4 DEF Recheck
<1>3. CASE CreateCache
  <2>1. generation.at = "create cache" /\ domainFile' = domainFile
      BY <1>3 DEF CreateCache
  <2>2. Whole(Torn)
      BY DEF Whole
  <2>3. CASE cacheFile' = Torn /\ Advance("write cache")
      BY <1>o, <1>t, <2>1, <2>2, <2>3, AdvanceStep DEF Writing
  <2>4. CASE cacheFile' = cacheFile /\ Stop
      BY <1>o, <1>t, <2>1, <2>4, StopStep
  <2> QED BY <1>3, <2>3, <2>4 DEF CreateCache
<1>4. CASE write_cache
  <2>1. generation.at = "write cache" /\ domainFile' = domainFile
      BY <1>4 DEF write_cache
  <2>2. Whole(Torn) /\ Whole(GeneratedCache)
      BY <2>1, EvidenceIsWhole DEF Writing
  <2>3. CASE cacheFile' \in {GeneratedCache, Torn} /\ Advance("create domain")
      BY <1>o, <1>t, <2>1, <2>2, <2>3, AdvanceStep DEF Writing
  <2>4. CASE cacheFile' = Torn /\ Stop
      BY <1>o, <1>t, <2>1, <2>2, <2>4, StopStep
  <2> QED BY <1>4, <2>3, <2>4 DEF write_cache
<1>5. CASE CreateDomain
  <2>1. generation.at = "create domain" /\ cacheFile' = cacheFile
      BY <1>5 DEF CreateDomain
  <2>2. Consistent(Torn)
      BY DEF Consistent
  <2>3. CASE domainFile' = Torn /\ Advance("write domain")
      BY <1>o, <1>t, <2>1, <2>2, <2>3, AdvanceStep DEF Writing
  <2>4. CASE domainFile' = domainFile /\ Stop
      BY <1>o, <1>t, <2>1, <2>4, StopStep
  <2> QED BY <1>5, <2>3, <2>4 DEF CreateDomain
<1>6. CASE write_domain
  <2>1. /\ generation.at = "write domain" /\ cacheFile' = cacheFile
        /\ domainFile' \in {GeneratedDomain, Torn} /\ Stop
      BY <1>6 DEF write_domain
  <2>2. Consistent(Torn) /\ Consistent(GeneratedDomain)
      BY <2>1, EvidenceIsWhole DEF Writing
  <2> QED BY <1>o, <1>t, <2>1, <2>2, StopStep
<1> QED BY <1>1, <1>2, <1>3, <1>4, <1>5, <1>6 DEF Finish

\* Whatever is edited, started or killed.
LEMMA GeneratorStepInv ==
    ASSUME GeneratorInv, Edit \/ Checkout \/ GeneratorStep \/ UNCHANGED oracleVars
    PROVE  GeneratorInv'
<1>1. CASE Edit \/ Checkout
  <2>1. texts' \in [Test -> Text] /\ commit' \in Commit
      BY <1>1, OracleCacheAssumption DEF Edit, Checkout, GeneratorInv
  <2>2. UNCHANGED <<cacheFile, domainFile, generation, job>>
      BY <1>1 DEF Edit, Checkout, evidenceFiles
  <2> QED BY <2>1, <2>2 DEF GeneratorInv
<1>2. CASE Generate
  <2>1. PICK selected \in Filters : job' = [t \in selected |-> Unread]
      BY <1>2 DEF Generate
  <2>2. DOMAIN job' \subseteq Test /\ \A t \in DOMAIN job' : JobIsSound(job'[t])
      BY <2>1, OracleCacheAssumption DEF JobIsSound, Unread, Begun
  <2>3. generation'.at = "working" /\ UNCHANGED <<commit, texts, cacheFile, domainFile>>
      BY <1>2 DEF Generate, corpus, evidenceFiles
  <2> QED BY <2>2, <2>3 DEF GeneratorInv, Writing, Whole, Consistent
<1>3. CASE \E t \in DOMAIN job : ThreadStep(t) \/ PrepareFails(t) \/ SpuriousWakeup(t)
    BY <1>3, ThreadSteps
<1>4. CASE Finish
    BY <1>4, FinishStep
<1>5. CASE Killed
    BY <1>5, StopStep DEF Killed, GeneratorInv, evidenceFiles
<1>6. CASE UNCHANGED oracleVars
    BY <1>6 DEF oracleVars, corpus, evidenceFiles, GeneratorInv
<1> QED BY <1>1, <1>2, <1>3, <1>4, <1>5, <1>6 DEF GeneratorStep

-----------------------------------------------------------------------------
(***************************************************************************)
(* The invariant of the runner.                                             *)
(***************************************************************************)
Early == {"start", "load domain", "identify", "read disposition", "read source", "compare"}
Late == {"testing", "timings", "published"}
DispositionOf == {"runnable", "unsupported", "skipped"}
ReadOnce == [disposition : DispositionOf]
ReadTwice == [disposition : DispositionOf, source : Text]

\* The n-th test was read twice, and what can run has a row of what was read.
Checked(n) ==
    /\ live[n] \in ReadTwice
    /\ live[n].disposition = "runnable" =>
          TestOrder[n] \in DOMAIN cache /\ cache[TestOrder[n]].source = live[n].source

PreflightInv ==
    /\ run.at \in Early \cup Late \cup {"refused"}
    /\ Whole(cache)
    /\ Consistent(domain)
    /\ run.at \in (Early \cup Late) \ {"start"} => cache \notin {Missing, Torn, <<>>}
    /\ run.at \in (Early \cup Late) \ {"start", "load domain"} => domain \notin {Missing, Torn}
    /\ live \in Seq(ReadOnce \cup ReadTwice)
    /\ run.at \in {"start", "load domain", "identify"} => live = <<>>
    /\ run.at = "read disposition" =>
          Len(live) < Len(TestOrder) /\ \A n \in 1..Len(live) : Checked(n)
    /\ run.at = "read source" =>
          /\ Len(live) \in 1..Len(TestOrder)
          /\ live[Len(live)].disposition \in DispositionOf
          /\ \A n \in 1..(Len(live) - 1) : Checked(n)
    /\ run.at = "compare" =>
          Len(live) = Len(TestOrder) /\ \A n \in 1..Len(live) : Checked(n)

SourcesAreTexts == \A t \in Test : source_hashes[t] \in Text

AcceptedInv ==
    run.at \in Late =>
        /\ SourcesAreTexts
        /\ DOMAIN domain.content = Test
        /\ DOMAIN cache = {t \in Test : Disposition[source_hashes[t]] = "runnable"}
        /\ \A t \in Test : domain.content[t].source = source_hashes[t]
        /\ \A t \in DOMAIN cache : cache[t].source = source_hashes[t]

\* What tsz said of the first configurations, all of which it completed.
FirstEnds(text, answers) ==
    \E n \in Nat :
        /\ n < Variants[text]
        /\ answers = [i \in 1..n |-> Tsz(text, i)]
        /\ \A i \in 1..n : Tsz(text, i) \notin {Crash, Incomplete}

Earned(text, result) ==
    LET ends == {Tsz(text, i) : i \in 1..Variants[text]}
    IN  /\ result = "pass" =>
              /\ Disposition[text] = "runnable"
              /\ {Crash, Incomplete} \cap ends = {}
              /\ canonical(TszAnswers(text)) = canonical(Answers(text))
        /\ result \in {"skipped", "unsupported"} =>
              Disposition[text] = result \/ Incomplete \in ends

FutureIsSound(t, f) ==
    /\ f.at \in {"queued", "fatal", "compiling", "finished"}
    /\ f.at = "compiling" =>
          /\ f = [at |-> "compiling", text |-> source_hashes[t], answers |-> f.answers]
          /\ t \in DOMAIN cache
          /\ FirstEnds(source_hashes[t], f.answers)
    /\ f.at = "finished" => f.result \in Terminal /\ Earned(source_hashes[t], f.result)

TestsInv ==
    /\ run.at \in Early => test = <<>>
    /\ DOMAIN test \subseteq Test
    /\ \A t \in DOMAIN test : FutureIsSound(t, test[t])

Having(result) == {t \in DOMAIN test : test[t].at = "finished" /\ test[t].result = result}
Partition ==
    stats["pass"] + stats["fail"] + stats["skipped"] + stats["unsupported"]
      + stats["crashed"] + stats["timeout"]

CountInv ==
    /\ stats \in [Counter -> Nat]
    /\ stats["selected"] = Cardinality(DOMAIN test)
    /\ stats["total"] = Cardinality(TestsAt({"finished"}))
    /\ Partition = stats["total"]
    /\ \A result \in Terminal : stats[result] = Cardinality(Having(result))
    /\ fatal = TestsAt({"fatal"})

EndInv ==
    /\ run.at \in Late => DOMAIN test # {}
    /\ run.at \in {"timings", "published"} => TestsAt({"finished"}) = DOMAIN test
    /\ run.at = "published" => (run.exit = 0 => ~has_terminal_failure)

RunnerInv == PreflightInv /\ AcceptedInv /\ TestsInv /\ CountInv /\ EndInv

-----------------------------------------------------------------------------
LEMMA RunnerInitInv == Init => RunnerInv
<1> SUFFICES ASSUME Init PROVE RunnerInv
    OBVIOUS
<1>i. /\ run.at = "start" /\ cache = Missing /\ domain = Missing /\ live = <<>>
      /\ test = <<>> /\ stats = NoStats /\ fatal = {} /\ DOMAIN test = {}
    BY NoTests DEF Init, At
<1>1. PreflightInv
    BY <1>i DEF PreflightInv, Early, Late, Whole, Consistent
<1>2. AcceptedInv /\ EndInv
    BY <1>i DEF AcceptedInv, EndInv, Late
<1>3. TestsInv
    BY <1>i DEF TestsInv
<1>4. TestsAt({"finished"}) = {} /\ TestsAt({"fatal"}) = {} /\ \A result \in Terminal : Having(result) = {}
    BY <1>i DEF TestsAt, Having
<1>5. Cardinality({}) = 0
    BY FS_EmptySet
<1>6. \A c \in Counter : stats[c] = 0
    BY <1>i DEF NoStats
<1>7. stats \in [Counter -> Nat]
    BY <1>i DEF NoStats
<1>8. Partition = 0 /\ stats["selected"] = 0 /\ stats["total"] = 0
    BY <1>6 DEF Partition, Counter
<1>9. \A result \in Terminal : stats[result] = Cardinality(Having(result))
    BY <1>4, <1>5, <1>6 DEF Terminal
<1>10. CountInv
    BY <1>i, <1>4, <1>5, <1>7, <1>8, <1>9 DEF CountInv
<1> QED BY <1>1, <1>2, <1>3, <1>10 DEF RunnerInv

\* Where no test is touched and the run goes on to an early step, or is refused.
LEMMA StillEarly ==
    ASSUME RunnerInv, run.at \in Early, run'.at \in Early \cup {"refused"}, UNCHANGED <<test, outcome>>,
           PreflightInv'
    PROVE  RunnerInv'
<1>1. run'.at \notin Late
    BY DEF Early, Late
<1>2. UNCHANGED <<test, stats, fatal>>
    BY DEF outcome
<1>3. test = <<>> /\ DOMAIN test = {}
    BY NoTests DEF RunnerInv, TestsInv
<1>4. AcceptedInv' /\ EndInv'
    BY <1>1 DEF AcceptedInv, EndInv, Late
<1>5. TestsInv'
    BY <1>2, <1>3 DEF TestsInv
<1>6. CountInv'
    BY <1>2 DEF RunnerInv, CountInv, Partition, Having, TestsAt
<1> QED BY <1>4, <1>5, <1>6 DEF RunnerInv

LEMMA Appended ==
    ASSUME NEW X, NEW s \in Seq(X), NEW e \in X
    PROVE  /\ Append(s, e) \in Seq(X)
           /\ Len(Append(s, e)) = Len(s) + 1
           /\ \A n \in 1..Len(s) : Append(s, e)[n] = s[n]
           /\ Append(s, e)[Len(s) + 1] = e
OBVIOUS

LEMMA Replaced ==
    ASSUME NEW X, NEW s \in Seq(X), NEW n \in 1..Len(s), NEW e \in X
    PROVE  /\ [s EXCEPT ![n] = e] \in Seq(X)
           /\ Len([s EXCEPT ![n] = e]) = Len(s)
           /\ \A k \in 1..Len(s) : [s EXCEPT ![n] = e][k] = IF k = n THEN e ELSE s[k]
OBVIOUS

LEMMA AtStep == \A step : At(step).at = step
BY DEF At

LEMMA LoadSteps ==
    ASSUME RunnerInv, GeneratorInv, load_cache \/ load_domain \/ Identify
    PROVE  RunnerInv'
<1>p. PreflightInv
    BY DEF RunnerInv
<1>g. Whole(cacheFile) /\ Consistent(domainFile)
    BY DEF GeneratorInv
<1>1. CASE load_cache
  <2>1. /\ run.at = "start" /\ cache' = cacheFile /\ domain' = domain /\ live' = live
        /\ run' = IF cacheFile \notin {Missing, Torn, <<>>} THEN At("load domain") ELSE At("refused")
        /\ UNCHANGED <<test, outcome>>
      BY <1>1 DEF load_cache, OnlyIf, Go, Refused
  <2>2. Whole(cache') /\ Consistent(domain')
      BY <1>p, <1>g, <2>1 DEF PreflightInv
  <2>3. PreflightInv'
      BY <1>p, <2>1, <2>2 DEF PreflightInv, At, Early, Late, Whole, Consistent
  <2> QED BY <2>1, <2>3, StillEarly DEF At, Early
<1>2. CASE load_domain
  <2>1. /\ run.at = "load domain" /\ domain' = domainFile /\ cache' = cache /\ live' = live
        /\ run' = IF domainFile \notin {Missing, Torn} THEN At("identify") ELSE At("refused")
        /\ UNCHANGED <<test, outcome>>
      BY <1>2 DEF load_domain, OnlyIf, Go, Refused
  <2>2. Whole(cache') /\ Consistent(domain')
      BY <1>p, <1>g, <2>1 DEF PreflightInv
  <2>3. PreflightInv'
      BY <1>p, <2>1, <2>2 DEF PreflightInv, At, Early, Late, Whole, Consistent
  <2> QED BY <2>1, <2>3, StillEarly DEF At, Early
<1>3. CASE Identify
  <2>1. /\ run.at = "identify" /\ UNCHANGED <<cache, domain, live>>
        /\ run' \in {At("read disposition"), At("refused")}
        /\ UNCHANGED <<test, outcome>>
      BY <1>3 DEF Identify, OnlyIf, Go, Refused, loaded
  \* A cache with rows is of tests.
  <2>2. Len(TestOrder) > 0 /\ live = <<>>
    <3>1. cache \notin {Missing, Torn, <<>>} /\ Whole(cache) /\ live = <<>>
        BY <1>p, <2>1 DEF PreflightInv, Early, Late
    <3>2. PICK t \in Test : TRUE
        BY <3>1 DEF Whole
    <3>3. DOMAIN TestOrder # {}
        BY DEF Test
    <3> QED BY <3>1, <3>3, OracleCacheAssumption
  <2>3. Whole(cache') /\ Consistent(domain')
      BY <1>p, <2>1 DEF PreflightInv
  <2>a. run' = At("read disposition") \/ run' = At("refused")
      BY <2>1
  <2>b. run'.at \in {"read disposition", "refused"}
      BY <2>a, AtStep
  <2>4. run'.at \in {"read disposition", "refused"} /\ UNCHANGED <<cache, domain, live>>
      BY <2>1, <2>b
  <2>c. live' = <<>>
      BY <2>2, <2>4
  <2>5. live' = <<>> /\ Len(live') = 0 /\ 1..0 = {}
      BY <2>c
  <2>6. cache \notin {Missing, Torn, <<>>} /\ domain \notin {Missing, Torn}
      BY <1>p, <2>1 DEF PreflightInv, Early, Late
  <2>7. live' \in Seq(ReadOnce \cup ReadTwice)
      BY <2>5
  <2>8. (run.at = "read disposition" => Len(live) < Len(TestOrder) /\ \A n \in 1..Len(live) : Checked(n))'
      BY <2>2, <2>5
  <2>9. Whole(cache)' /\ Consistent(domain)'
      BY <2>3, <2>4 DEF Whole, Consistent
  <2>10. PreflightInv'
      BY <2>4, <2>6, <2>7, <2>8, <2>9 DEF PreflightInv, Early, Late
  <2>11. run'.at \in Early \cup {"refused"} /\ run.at \in Early
      BY <2>1, <2>4 DEF Early
  <2> QED BY <2>1, <2>10, <2>11, StillEarly
<1> QED BY <1>1, <1>2, <1>3

LEMMA ReadSteps ==
    ASSUME RunnerInv, GeneratorInv, DispositionRead \/ SourceRead
    PROVE  RunnerInv'
<1>p. PreflightInv
    BY DEF RunnerInv
<1>s. live \in Seq(ReadOnce \cup ReadTwice) /\ TestOrder \in Seq(Test)
    BY <1>p, OracleCacheAssumption DEF PreflightInv
<1>l. /\ Len(live) \in Nat /\ DOMAIN live = 1..Len(live)
      /\ Len(TestOrder) \in Nat /\ DOMAIN TestOrder = 1..Len(TestOrder)
      /\ \A n \in 1..Len(TestOrder) : TestOrder[n] \in Test
    BY <1>s
<1>1. CASE DispositionRead
  <2> DEFINE record == [disposition |-> Disposition[texts[TestOrder[Len(live) + 1]]]]
  <2>1. /\ run.at = "read disposition" /\ UNCHANGED <<cache, domain>>
        /\ live' = Append(live, record)
        /\ run' \in {At("read source"), At("refused")}
        /\ UNCHANGED <<test, outcome>>
      BY <1>1 DEF DispositionRead, OnlyIf, Go, Refused, loaded
  <2>r. run' = At("read source") \/ run' = At("refused")
      BY <2>1
  <2>q. run'.at \in {"read source", "refused"}
      BY <2>r, AtStep
  <2>e. run.at = "read disposition" /\ cache' = cache /\ domain' = domain
      BY <2>1
  <2>2. Len(live) < Len(TestOrder) /\ \A n \in 1..Len(live) : Checked(n)
      BY <1>p, <2>1 DEF PreflightInv
  <2>3. TestOrder[Len(live) + 1] \in Test
      BY <1>l, <2>2
  <2>4. record \in ReadOnce
      BY <2>3, OracleCacheAssumption DEF ReadOnce, DispositionOf, GeneratorInv
  <2> HIDE DEF record
  <2>a. live' = Append(live, record) /\ record \in ReadOnce \cup ReadTwice
      BY <2>1, <2>4
  <2>5. /\ live' \in Seq(ReadOnce \cup ReadTwice) /\ Len(live') = Len(live) + 1
        /\ \A n \in 1..Len(live) : live'[n] = live[n]
        /\ live'[Len(live) + 1] = record
      BY <1>s, <2>a, Appended
  <2>6. ASSUME NEW n \in 1..(Len(live') - 1)
        PROVE  Checked(n)'
    <3>1. Len(live') = Len(live) + 1 /\ Len(live) \in Nat
        BY <1>l, <2>5
    <3>2. n \in 1..Len(live)
        BY <3>1
    <3>3. live'[n] = live[n] /\ cache' = cache
        BY <2>5, <2>e, <3>2
    <3> QED BY <2>2, <3>2, <3>3 DEF Checked
  <2>7. live'[Len(live')].disposition \in DispositionOf
      BY <2>4, <2>5 DEF ReadOnce
  <2>8. Len(live') \in 1..Len(TestOrder)
      BY <1>l, <2>2, <2>5
  <2>9. /\ Whole(cache') /\ Consistent(domain')
        /\ cache \notin {Missing, Torn, <<>>} /\ domain \notin {Missing, Torn}
      BY <1>p, <2>1 DEF PreflightInv, Early, Late
  <2>10. PreflightInv'
    <3>1. Whole(cache)' /\ Consistent(domain)' /\ UNCHANGED <<cache, domain>>
        BY <2>e, <2>9 DEF Whole, Consistent
    <3> QED BY <2>5, <2>6, <2>7, <2>8, <2>9, <3>1, <2>q DEF PreflightInv, Early, Late
  <2>11. run'.at \in Early \cup {"refused"} /\ run.at \in Early
      BY <2>e, <2>q DEF Early
  <2> QED BY <2>1, <2>10, <2>11, StillEarly
<1>2. CASE SourceRead
  <2> DEFINE n == Len(live)
             t == TestOrder[n]
             record == [disposition |-> live[n].disposition, source |-> texts[t]]
             held == record.disposition = "runnable" => t \in DOMAIN cache /\ cache[t].source = record.source
  <2>1. /\ run.at = "read source" /\ UNCHANGED <<cache, domain>>
        /\ live' = [live EXCEPT ![n] = record]
        /\ run' = IF held THEN (IF n = Len(TestOrder) THEN At("compare") ELSE At("read disposition"))
                  ELSE At("refused")
        /\ UNCHANGED <<test, outcome>>
      BY <1>2 DEF SourceRead, OnlyIf, Go, Refused, loaded
  <2>2. /\ n \in 1..Len(TestOrder) /\ live[n].disposition \in DispositionOf
        /\ \A k \in 1..(n - 1) : Checked(k)
      BY <1>p, <2>1 DEF PreflightInv
  <2>3. t \in Test /\ texts[t] \in Text
      BY <1>l, <2>2 DEF GeneratorInv
  <2>4. record \in ReadTwice
      BY <2>2, <2>3 DEF ReadTwice
  <2>b. n \in 1..Len(live)
      BY <1>l, <2>2
  <2>c. live' = [live EXCEPT ![n] = record] /\ cache' = cache /\ domain' = domain
      BY <2>1
  <2>d. record \in ReadOnce \cup ReadTwice
      BY <2>4
  <2> HIDE DEF n, record, t
  <2>a. /\ live' = [live EXCEPT ![n] = record] /\ record \in ReadOnce \cup ReadTwice
        /\ n \in 1..Len(live)
      BY <2>b, <2>c, <2>d
  <2>5. /\ live' \in Seq(ReadOnce \cup ReadTwice) /\ Len(live') = Len(live)
        /\ \A k \in 1..Len(live) : live'[k] = IF k = n THEN record ELSE live[k]
      BY <1>s, <2>a, Replaced
  <2>e. n = Len(live)
      BY DEF n
  <2>6. ASSUME held, NEW k \in 1..n
        PROVE  Checked(k)'
    <3>1. CASE k = n
      <4>1. live'[k] = record /\ record \in ReadTwice /\ cache' = cache
          BY <2>4, <2>5, <2>b, <2>c, <3>1
      <4>2. record.disposition = "runnable" => t \in DOMAIN cache /\ cache[t].source = record.source
          BY <2>6
      <4>3. t = TestOrder[k]
          BY <3>1 DEF t
      <4> QED BY <4>1, <4>2, <4>3 DEF Checked
    <3>2. CASE k # n
      <4>1. n \in Nat /\ k \in 1..Len(live)
          BY <1>l, <2>e
      <4>2. k \in 1..(n - 1)
          BY <3>2, <4>1
      <4>3. live'[k] = live[k] /\ cache' = cache
          BY <2>5, <2>c, <3>2, <4>1
      <4> QED BY <2>2, <4>2, <4>3 DEF Checked
    <3> QED BY <3>1, <3>2
  <2>7. /\ Whole(cache') /\ Consistent(domain')
        /\ cache \notin {Missing, Torn, <<>>} /\ domain \notin {Missing, Torn}
      BY <1>p, <2>1 DEF PreflightInv, Early, Late
  <2>8. n \in Nat /\ n <= Len(TestOrder) /\ Len(TestOrder) \in Nat
      BY <1>l, <2>2
  <2> HIDE DEF held
  <2>9. Whole(cache)' /\ Consistent(domain)' /\ UNCHANGED <<cache, domain>> /\ Len(live') = n
      BY <2>5, <2>7, <2>c, <2>e DEF Whole, Consistent
  <2>10. /\ run'.at \in {"compare", "read disposition", "refused"}
         /\ run'.at = "compare" => held /\ n = Len(TestOrder)
         /\ run'.at = "read disposition" => held /\ n # Len(TestOrder)
      BY <2>1 DEF At
  <2>f. n # Len(TestOrder) => n < Len(TestOrder)
      BY <2>8
  <2>11. run'.at = "read disposition" => n < Len(TestOrder)
      BY <2>f, <2>10
  <2>12. run'.at \in {"compare", "read disposition"} => \A k \in 1..n : Checked(k)'
      BY <2>6, <2>10
  <2>13. PreflightInv'
      BY <2>5, <2>7, <2>9, <2>10, <2>11, <2>12 DEF PreflightInv, Early, Late
  <2>14. run'.at \in Early \cup {"refused"} /\ run.at \in Early
      BY <2>1, <2>10 DEF Early
  <2> QED BY <2>1, <2>13, <2>14, StillEarly
<1> QED BY <1>1, <1>2

\* What the preflight has read of a test, and what it has compared it with.
LEMMA ReadOfTests ==
    ASSUME RunnerInv, run.at = "compare", NEW t \in Test
    PROVE  /\ LiveContent[t] \in ReadTwice
           /\ source_hashes[t] = LiveContent[t].source
           /\ LiveContent[t].disposition = "runnable" =>
                 t \in DOMAIN cache /\ cache[t].source = LiveContent[t].source
<1>1. Place(t) \in DOMAIN TestOrder /\ TestOrder[Place(t)] = t
    BY DEF Place, Test
<1>2. Len(live) = Len(TestOrder) /\ \A n \in 1..Len(live) : Checked(n)
    BY DEF RunnerInv, PreflightInv
<1>3. Checked(Place(t))
    BY <1>1, <1>2, OracleCacheAssumption
<1>4. LiveContent[t] = live[Place(t)] /\ source_hashes[t] = LiveContent[t].source
    BY DEF LiveContent, source_hashes
<1> QED BY <1>1, <1>3, <1>4 DEF Checked

\* What is accepted is of one corpus.
LEMMA Acceptance ==
    ASSUME RunnerInv, run.at = "compare",
           [t \in Test |-> LiveContent[t].disposition] = Expected,
           LiveContent = domain.content
    PROVE  /\ SourcesAreTexts
           /\ DOMAIN domain.content = Test
           /\ DOMAIN cache = {t \in Test : Disposition[source_hashes[t]] = "runnable"}
           /\ \A t \in Test : domain.content[t].source = source_hashes[t]
           /\ \A t \in DOMAIN cache : cache[t].source = source_hashes[t]
<1>1. SourcesAreTexts
    BY ReadOfTests DEF SourcesAreTexts, ReadTwice
<1>2. DOMAIN domain.content = Test /\ \A t \in Test : domain.content[t].source = source_hashes[t]
    BY ReadOfTests DEF LiveContent
<1>3. DOMAIN cache \subseteq Test
    BY DEF Expected
<1>4. ASSUME NEW t \in DOMAIN cache
      PROVE  cache[t].source = source_hashes[t] /\ Disposition[source_hashes[t]] = "runnable"
  <2>1. LiveContent[t].disposition = "runnable"
      BY <1>3 DEF Expected
  <2>2. cache[t].source = source_hashes[t]
      BY <1>3, <2>1, ReadOfTests
  <2>3. Whole(cache) /\ cache \notin {Missing, Torn}
      BY DEF RunnerInv, PreflightInv, Early, Late
  <2> QED BY <2>2, <2>3 DEF Whole
<1>5. ASSUME NEW t \in Test, Disposition[source_hashes[t]] = "runnable"
      PROVE  t \in DOMAIN cache
  <2>1. Consistent(domain) /\ domain \notin {Missing, Torn}
      BY DEF RunnerInv, PreflightInv, Early, Late
  <2>2. LiveContent[t].disposition = "runnable"
      BY <1>2, <1>5, <2>1 DEF Consistent
  <2> QED BY <2>2, ReadOfTests
<1> QED BY <1>1, <1>2, <1>3, <1>4, <1>5

LEMMA CompareStep == ASSUME RunnerInv, Compare PROVE RunnerInv'
<1>1. PICK selected \in Selections :
        /\ run' = IF /\ [t \in Test |-> LiveContent[t].disposition] = Expected
                     /\ LiveContent = domain.content
                     /\ selected # {}
                  THEN At("testing") ELSE At("refused")
        /\ test' = [t \in selected |-> At("queued")]
        /\ stats' = [NoStats EXCEPT !["selected"] = Cardinality(selected)]
    BY DEF Compare, OnlyIf, Go, Refused
<1>2. run.at = "compare" /\ UNCHANGED <<cache, domain, live, fatal>>
    BY DEF Compare, loaded
<1>3. selected \subseteq Test /\ IsFiniteSet(selected) /\ Cardinality(selected) \in Nat
  <2>1. selected \subseteq Test
      BY RunnerAssumption
  <2> QED BY <2>1, TestsAreFinite, FS_Subset, FS_CardinalityType
<1>4. /\ run'.at \in {"testing", "refused"}
      /\ run'.at = "testing" =>
            /\ [t \in Test |-> LiveContent[t].disposition] = Expected
            /\ LiveContent = domain.content
            /\ selected # {}
    BY <1>1, AtStep
<1>5. DOMAIN test' = selected /\ \A t \in selected : test'[t] = At("queued") /\ test'[t].at = "queued"
    BY <1>1, AtStep
<1>6. PreflightInv'
    BY <1>2, <1>4 DEF RunnerInv, PreflightInv, Early, Late, Whole, Consistent
<1>7. AcceptedInv'
  <2>1. source_hashes' = source_hashes
      BY <1>2 DEF source_hashes, LiveContent
  <2>2. CASE run'.at = "testing"
      BY <1>2, <1>4, <2>1, <2>2, Acceptance DEF AcceptedInv, SourcesAreTexts
  <2>3. CASE run'.at # "testing"
      BY <1>4, <2>3 DEF AcceptedInv, Late
  <2> QED BY <2>2, <2>3
<1>8. TestsInv'
    BY <1>3, <1>4, <1>5 DEF TestsInv, FutureIsSound, Early
<1>9. CountInv'
  <2>1. TestsAt({"finished"})' = {} /\ TestsAt({"fatal"})' = {} /\ \A result \in Terminal : Having(result)' = {}
      BY <1>5 DEF TestsAt, Having
  <2>2. fatal' = {}
    <3>1. test = <<>> /\ DOMAIN test = {} /\ fatal = TestsAt({"fatal"})
        BY <1>2, NoTests DEF RunnerInv, TestsInv, CountInv, Early
    <3> QED BY <1>2, <3>1 DEF TestsAt
  <2>3. \A c \in Counter : stats'[c] = IF c = "selected" THEN Cardinality(selected) ELSE 0
      BY <1>1 DEF NoStats
  <2>4. stats' \in [Counter -> Nat]
      BY <1>1, <1>3 DEF NoStats
  <2>5. Cardinality({}) = 0
      BY FS_EmptySet
  <2>6. \A result \in Terminal : stats'[result] = 0
      BY <2>3 DEF Terminal
  <2>7. stats'["total"] = 0 /\ stats'["selected"] = Cardinality(selected)
      BY <2>3 DEF Counter
  <2>8. Partition' = 0
      BY <2>6 DEF Partition, Terminal, Counter
  <2> QED BY <1>5, <2>1, <2>2, <2>4, <2>5, <2>6, <2>7, <2>8 DEF CountInv
<1>10. EndInv'
    BY <1>4, <1>5 DEF EndInv, Late
<1> QED BY <1>6, <1>7, <1>8, <1>9, <1>10 DEF RunnerInv

-----------------------------------------------------------------------------
(***************************************************************************)
(* The tests.                                                               *)
(***************************************************************************)
\* While the tests run, a step of one test leaves what was accepted, and what is
\* known of the other tests.
LEMMA OneTest ==
    ASSUME RunnerInv, run.at = "testing", NEW t \in DOMAIN test, NEW f, FutureIsSound(t, f),
           test' = [test EXCEPT ![t] = f], UNCHANGED <<run, loaded, live>>
    PROVE  /\ PreflightInv' /\ AcceptedInv' /\ TestsInv' /\ EndInv'
           /\ DOMAIN test' = DOMAIN test
           /\ \A u \in DOMAIN test : test'[u] = IF u = t THEN f ELSE test[u]
<1>1. UNCHANGED <<run, cache, domain, live>>
    BY DEF loaded
<1>2. DOMAIN test' = DOMAIN test /\ \A u \in DOMAIN test : test'[u] = IF u = t THEN f ELSE test[u]
    OBVIOUS
<1>3. source_hashes' = source_hashes
    BY <1>1 DEF source_hashes, LiveContent
<1>4. PreflightInv'
    BY <1>1 DEF RunnerInv, PreflightInv, Early, Late, Whole, Consistent, Checked
<1>5. AcceptedInv'
    BY <1>1, <1>3 DEF RunnerInv, AcceptedInv, SourcesAreTexts
<1>6. ASSUME NEW u \in DOMAIN test'
      PROVE  FutureIsSound(u, test[u])'
  <2>1. FutureIsSound(u, test'[u])
      BY <1>2 DEF RunnerInv, TestsInv
  <2> QED BY <1>1, <1>3, <2>1 DEF FutureIsSound, FirstEnds, Earned, Answers, TszAnswers
<1>7. TestsInv'
    BY <1>1, <1>2, <1>6 DEF RunnerInv, TestsInv, Early
<1>8. EndInv'
    BY <1>1, <1>2 DEF RunnerInv, EndInv
<1> QED BY <1>2, <1>4, <1>5, <1>7, <1>8

LEMMA TestsAreCountable ==
    ASSUME RunnerInv
    PROVE  /\ IsFiniteSet(DOMAIN test)
           /\ \A T \in SUBSET DOMAIN test : IsFiniteSet(T) /\ Cardinality(T) \in Nat
<1>1. DOMAIN test \subseteq Test
    BY DEF RunnerInv, TestsInv
<1>2. \A T \in SUBSET DOMAIN test : IsFiniteSet(T)
    BY <1>1, TestsAreFinite, FS_Subset
<1> QED BY <1>2, FS_CardinalityType

\* A test that does not end with a result is not counted.
LEMMA NoResult ==
    ASSUME RunnerInv, run.at = "testing", NEW t \in DOMAIN test, test[t].at \in {"queued", "compiling"},
           NEW f, FutureIsSound(t, f), f.at \in {"compiling", "fatal"},
           test' = [test EXCEPT ![t] = f], UNCHANGED <<run, loaded, live, stats>>,
           fatal' = IF f.at = "fatal" THEN fatal \cup {t} ELSE fatal
    PROVE  RunnerInv'
<1>1. /\ PreflightInv' /\ AcceptedInv' /\ TestsInv' /\ EndInv'
      /\ DOMAIN test' = DOMAIN test
      /\ \A u \in DOMAIN test : test'[u] = IF u = t THEN f ELSE test[u]
    BY OneTest
<1>2. TestsAt({"finished"})' = TestsAt({"finished"}) /\ \A result \in Terminal : Having(result)' = Having(result)
    BY <1>1 DEF TestsAt, Having
<1>3. fatal' = TestsAt({"fatal"})'
    BY <1>1 DEF RunnerInv, CountInv, TestsAt
<1>4. CountInv'
    BY <1>1, <1>2, <1>3 DEF RunnerInv, CountInv, Partition
<1> QED BY <1>1, <1>4 DEF RunnerInv

\* One that does is counted once, under its result.
LEMMA ResultStep ==
    ASSUME RunnerInv, run.at = "testing", NEW t \in DOMAIN test, test[t].at \in {"queued", "compiling"},
           NEW result \in Terminal, Earned(source_hashes[t], result), Result(t, result),
           UNCHANGED <<run, loaded, live>>
    PROVE  RunnerInv'
<1> DEFINE f == [at |-> "finished", result |-> result]
<1>1. FutureIsSound(t, f)
    BY DEF FutureIsSound
<1>2. /\ PreflightInv' /\ AcceptedInv' /\ TestsInv' /\ EndInv'
      /\ DOMAIN test' = DOMAIN test
      /\ \A u \in DOMAIN test : test'[u] = IF u = t THEN f ELSE test[u]
  <2>1. test' = [test EXCEPT ![t] = f]
      BY DEF Result
  <2> HIDE DEF f
  <2> QED BY <1>1, <2>1, OneTest
<1>3. TestsAt({"finished"})' = TestsAt({"finished"}) \cup {t} /\ t \notin TestsAt({"finished"})
    BY <1>2 DEF TestsAt
<1>4. \A r \in Terminal : Having(r)' = IF r = result THEN Having(r) \cup {t} ELSE Having(r)
    BY <1>2 DEF Having
<1>5. t \notin Having(result)
    BY DEF Having
<1>6. Cardinality(TestsAt({"finished"})') = Cardinality(TestsAt({"finished"})) + 1
    BY <1>3, TestsAreCountable, FS_AddElement DEF TestsAt
<1>7. \A r \in Terminal : Cardinality(Having(r)') = IF r = result THEN Cardinality(Having(r)) + 1
                                                   ELSE Cardinality(Having(r))
  <2> SUFFICES ASSUME NEW r \in Terminal
               PROVE  Cardinality(Having(r)') = IF r = result THEN Cardinality(Having(r)) + 1
                                                ELSE Cardinality(Having(r))
      OBVIOUS
  <2>1. IsFiniteSet(Having(r))
      BY TestsAreCountable DEF Having
  <2>2. r = result => Cardinality(Having(r) \cup {t}) = Cardinality(Having(r)) + 1
      BY <2>1, <1>5, FS_AddElement
  <2> QED BY <1>4, <2>2
<1>8. fatal' = TestsAt({"fatal"})'
    BY <1>2 DEF RunnerInv, CountInv, TestsAt, Result
<1>9. stats \in [Counter -> Nat] /\ result \in Counter /\ result # "total" /\ result # "selected"
    BY DEF RunnerInv, CountInv, Terminal
<1>10. stats' = [stats EXCEPT !["total"] = stats["total"] + 1, ![result] = stats[result] + 1]
    BY <1>9 DEF Result, Count
<1>11. /\ stats' \in [Counter -> Nat]
       /\ \A c \in Counter : stats'[c] = IF c \in {"total", result} THEN stats[c] + 1 ELSE stats[c]
    BY <1>9, <1>10
<1>12. Partition' = Partition + 1
  <2>1. \A c \in Terminal : stats[c] \in Nat /\ stats'[c] = IF c = result THEN stats[c] + 1 ELSE stats[c]
      BY <1>9, <1>11 DEF Terminal
  <2> QED BY <2>1 DEF Partition, Terminal, Counter
<1>13. stats'["total"] = stats["total"] + 1 /\ stats'["selected"] = stats["selected"]
    BY <1>9, <1>11 DEF Counter
<1>14. \A r \in Terminal : stats'[r] = IF r = result THEN stats[r] + 1 ELSE stats[r]
    BY <1>11 DEF Terminal
<1>15. CountInv'
    BY <1>2, <1>6, <1>7, <1>8, <1>11, <1>12, <1>13, <1>14 DEF RunnerInv, CountInv
<1> QED BY <1>2, <1>15 DEF RunnerInv

LEMMA FatalStep ==
    ASSUME RunnerInv, run.at = "testing", NEW t \in DOMAIN test, test[t].at \in {"queued", "compiling"},
           FatalError(t), UNCHANGED <<run, loaded, live>>
    PROVE  RunnerInv'
<1> DEFINE f == At("fatal")
<1>1. f.at = "fatal" /\ FutureIsSound(t, f)
    BY AtStep DEF FutureIsSound
<1>2. test' = [test EXCEPT ![t] = f] /\ stats' = stats /\ fatal' = fatal \cup {t}
    BY DEF FatalError
<1> HIDE DEF f
<1> QED BY <1>1, <1>2, NoResult

LEMMA RunTest ==
    ASSUME RunnerInv, NEW t \in DOMAIN test, run_test(t)
    PROVE  RunnerInv'
<1>1. run.at = "testing" /\ test[t].at = "queued" /\ UNCHANGED <<run, loaded, live>>
    BY DEF run_test
<1>2. /\ SourcesAreTexts /\ t \in Test /\ source_hashes[t] \in Text
      /\ DOMAIN cache = {u \in Test : Disposition[source_hashes[u]] = "runnable"}
    BY <1>1 DEF RunnerInv, AcceptedInv, TestsInv, SourcesAreTexts, Late
<1>3. CASE FatalError(t)
    BY <1>1, <1>3, FatalStep
<1>4. CASE Result(t, Disposition[texts[t]]) /\ texts[t] = source_hashes[t] /\ Disposition[texts[t]] # "runnable"
  <2> DEFINE result == Disposition[source_hashes[t]]
  <2>1. result \in {"unsupported", "skipped"}
      BY <1>2, <1>4, OracleCacheAssumption
  <2>2. Result(t, result)
      BY <1>4
  <2>3. result \in Terminal /\ Earned(source_hashes[t], result)
      BY <2>1 DEF Terminal, Counter, Earned
  <2> HIDE DEF result
  <2> QED BY <1>1, <2>2, <2>3, ResultStep
<1>5. CASE /\ texts[t] = source_hashes[t] /\ t \in DOMAIN cache
           /\ test' = [test EXCEPT ![t] = [at |-> "compiling", text |-> texts[t], answers |-> <<>>]]
           /\ UNCHANGED outcome
  <2> DEFINE f == [at |-> "compiling", text |-> source_hashes[t], answers |-> <<>>]
  <2>1. FirstEnds(source_hashes[t], <<>>)
    <3>1. <<>> = [i \in 1..0 |-> Tsz(source_hashes[t], i)] /\ 1..0 = {} /\ 0 \in Nat
        OBVIOUS
    <3>2. 0 < Variants[source_hashes[t]]
        BY <1>2, OracleCacheAssumption
    <3> QED BY <3>1, <3>2 DEF FirstEnds
  <2>2. f.at = "compiling" /\ FutureIsSound(t, f)
      BY <1>5, <2>1 DEF FutureIsSound
  <2>3. test' = [test EXCEPT ![t] = f] /\ UNCHANGED <<stats, fatal>>
      BY <1>5 DEF outcome
  <2> HIDE DEF f
  <2> QED BY <1>1, <2>2, <2>3, NoResult
<1> QED BY <1>3, <1>4, <1>5 DEF run_test

\* What tsz ended with on the configurations up to the next one.
LEMMA NextEnd ==
    ASSUME NEW text \in Text, NEW answers, FirstEnds(text, answers)
    PROVE  LET ended == Tsz(text, Len(answers) + 1)
               more == Append(answers, ended)
           IN  /\ ended \in {Tsz(text, i) : i \in 1..Variants[text]}
               /\ (ended \notin {Crash, Incomplete} /\ Len(more) < Variants[text]) => FirstEnds(text, more)
               /\ (ended \notin {Crash, Incomplete} /\ ~(Len(more) < Variants[text])) =>
                     /\ more = TszAnswers(text)
                     /\ {Crash, Incomplete} \cap {Tsz(text, i) : i \in 1..Variants[text]} = {}
<1>1. PICK n \in Nat : /\ n < Variants[text]
                       /\ answers = [i \in 1..n |-> Tsz(text, i)]
                       /\ \A i \in 1..n : Tsz(text, i) \notin {Crash, Incomplete}
    BY DEF FirstEnds
<1>2. Variants[text] \in Nat
    BY OracleCacheAssumption
<1> DEFINE S == {Tsz(text, i) : i \in 1..n}
           ended == Tsz(text, n + 1)
           more == [i \in 1..(n + 1) |-> Tsz(text, i)]
<1>3. answers \in Seq(S) /\ Len(answers) = n
    BY <1>1
<1>4. Append(answers, ended) = more
    BY <1>1, <1>3
<1>5. Len(more) = n + 1 /\ n + 1 \in 1..Variants[text]
    BY <1>1, <1>2
<1>6. ASSUME ended \notin {Crash, Incomplete}, NEW i \in 1..(n + 1)
      PROVE  Tsz(text, i) \notin {Crash, Incomplete}
  <2>1. i \in 1..n \/ i = n + 1
      OBVIOUS
  <2> QED BY <1>1, <1>6, <2>1
<1>7. (ended \notin {Crash, Incomplete} /\ n + 1 < Variants[text]) => FirstEnds(text, more)
    BY <1>6 DEF FirstEnds
<1>8. ~(n + 1 < Variants[text]) => n + 1 = Variants[text]
    BY <1>1, <1>2
<1>9. (ended \notin {Crash, Incomplete} /\ ~(n + 1 < Variants[text])) =>
         /\ more = TszAnswers(text)
         /\ {Crash, Incomplete} \cap {Tsz(text, i) : i \in 1..Variants[text]} = {}
    BY <1>6, <1>8 DEF TszAnswers
<1> QED BY <1>3, <1>4, <1>5, <1>7, <1>9

LEMMA Compiled ==
    ASSUME RunnerInv, NEW t \in DOMAIN test, compile_text_variant(t)
    PROVE  RunnerInv'
<1> DEFINE text == source_hashes[t]
           answers == test[t].answers
           ended == Tsz(text, Len(answers) + 1)
           more == Append(answers, ended)
           ends == {Tsz(text, i) : i \in 1..Variants[text]}
<1>1. run.at = "testing" /\ test[t].at = "compiling" /\ UNCHANGED <<run, loaded, live>>
    BY DEF compile_text_variant
<1>2. /\ SourcesAreTexts /\ t \in Test /\ text \in Text
      /\ DOMAIN cache = {u \in Test : Disposition[source_hashes[u]] = "runnable"}
      /\ \A u \in DOMAIN cache : cache[u].source = source_hashes[u]
    BY <1>1 DEF RunnerInv, AcceptedInv, TestsInv, SourcesAreTexts, Late
<1>3. /\ test[t] = [at |-> "compiling", text |-> text, answers |-> answers]
      /\ t \in DOMAIN cache /\ FirstEnds(text, answers)
    BY <1>1 DEF RunnerInv, TestsInv, FutureIsSound
<1>4. Disposition[text] = "runnable" /\ cache[t].answers = Answers(text)
  <2>1. Whole(cache) /\ cache \notin {Missing, Torn}
      BY <1>1 DEF RunnerInv, PreflightInv, Early, Late
  <2> QED BY <1>2, <1>3, <2>1 DEF Whole
<1>5. /\ ended \in ends
      /\ (ended \notin {Crash, Incomplete} /\ Len(more) < Variants[text]) => FirstEnds(text, more)
      /\ (ended \notin {Crash, Incomplete} /\ ~(Len(more) < Variants[text])) =>
            more = TszAnswers(text) /\ {Crash, Incomplete} \cap ends = {}
    BY <1>2, <1>3, NextEnd
<1>6. test[t].text = text
    BY <1>3
<1> HIDE DEF text, answers
<1>7. CASE ended = Crash /\ Result(t, "crashed")
  <2>1. "crashed" \in Terminal /\ Earned(text, "crashed")
      BY DEF Terminal, Counter, Earned
  <2> QED BY <1>1, <1>7, <2>1, ResultStep DEF text
<1>8. CASE ended = Incomplete /\ Result(t, "unsupported")
  <2>1. Incomplete \in ends
      BY <1>5, <1>8
  <2>2. "unsupported" \in Terminal /\ Earned(text, "unsupported")
      BY <2>1 DEF Terminal, Counter, Earned
  <2> QED BY <1>1, <1>8, <2>2, ResultStep DEF text
<1>9. CASE /\ ended \notin {Crash, Incomplete} /\ Len(more) < Variants[text]
           /\ test' = [test EXCEPT ![t].answers = more] /\ UNCHANGED outcome
  <2> DEFINE f == [at |-> "compiling", text |-> text, answers |-> more]
  <2>1. FirstEnds(text, more)
      BY <1>5, <1>9
  <2> HIDE DEF more
  <2>a. test' = [test EXCEPT ![t] = [test[t] EXCEPT !.answers = more]]
      BY <1>9
  <2>b. [test[t] EXCEPT !.answers = more] = f
      BY <1>3
  <2>2. test' = [test EXCEPT ![t] = f]
      BY <2>a, <2>b
  <2>3. f.at = "compiling" /\ FutureIsSound(t, f)
      BY <1>3, <2>1 DEF FutureIsSound, text
  <2>4. UNCHANGED <<stats, fatal>>
      BY <1>9 DEF outcome
  <2> HIDE DEF f
  <2> QED BY <1>1, <2>2, <2>3, <2>4, NoResult
<1>10. CASE /\ ended \notin {Crash, Incomplete} /\ ~(Len(more) < Variants[text])
            /\ Result(t, compare_diagnostics(t, more))
  <2> DEFINE result == compare_diagnostics(t, more)
  <2>1. more = TszAnswers(text) /\ {Crash, Incomplete} \cap ends = {}
      BY <1>5, <1>10
  <2>2. result \in {"pass", "fail"}
      BY DEF compare_diagnostics
  <2>3. result = "pass" => canonical(TszAnswers(text)) = canonical(Answers(text))
      BY <1>4, <2>1 DEF compare_diagnostics
  <2>4. Result(t, result)
      BY <1>10
  <2> HIDE DEF result
  <2>5. result \in Terminal /\ Earned(text, result)
      BY <1>4, <2>1, <2>2, <2>3 DEF Terminal, Counter, Earned
  <2> QED BY <1>1, <2>4, <2>5, ResultStep DEF text
<1>11. CASE ProcessEnds(t)
  <2>1. \/ ended = Crash /\ Result(t, "crashed")
        \/ ended = Incomplete /\ Result(t, "unsupported")
        \/ /\ ended \notin {Crash, Incomplete} /\ Len(more) < Variants[text]
           /\ test' = [test EXCEPT ![t].answers = more] /\ UNCHANGED outcome
        \/ /\ ended \notin {Crash, Incomplete} /\ ~(Len(more) < Variants[text])
           /\ Result(t, compare_diagnostics(t, more))
      BY <1>6, <1>11 DEF ProcessEnds, answers
  <2> QED BY <1>7, <1>8, <1>9, <1>10, <2>1
<1>12. CASE Result(t, "timeout")
  <2>1. "timeout" \in Terminal /\ Earned(text, "timeout")
      BY DEF Terminal, Counter, Earned
  <2> QED BY <1>1, <1>12, <2>1, ResultStep DEF text
<1>13. CASE FatalError(t)
    BY <1>1, <1>13, FatalStep
<1> QED BY <1>11, <1>12, <1>13 DEF compile_text_variant

-----------------------------------------------------------------------------
(***************************************************************************)
(* The summary.                                                             *)
(***************************************************************************)
\* Where no test is touched.
LEMMA TestsStay ==
    ASSUME RunnerInv, UNCHANGED <<cache, live, test, stats, fatal>>
    PROVE  /\ source_hashes' = source_hashes
           /\ CountInv'
           /\ \A t \in DOMAIN test : FutureIsSound(t, test[t])'
<1>1. source_hashes' = source_hashes
    BY DEF source_hashes, LiveContent
<1>2. CountInv'
    BY DEF RunnerInv, CountInv, TestsAt, Having, Partition
<1>3. ASSUME NEW t \in DOMAIN test
      PROVE  FutureIsSound(t, test[t])'
  <2>1. FutureIsSound(t, test[t])
      BY DEF RunnerInv, TestsInv
  <2>2. FutureIsSound(t, test[t])' <=> FutureIsSound(t, test[t])
      BY <1>1 DEF FutureIsSound, Earned
  <2> QED BY <2>1, <2>2
<1> QED BY <1>1, <1>2, <1>3

LEMMA AccountStep ==
    ASSUME RunnerInv, Account
    PROVE  RunnerInv'
<1>1. /\ run.at = "testing" /\ UNCHANGED <<cache, domain, live, test, stats, fatal>>
      /\ TestsAt({"finished", "fatal"}) = DOMAIN test
      /\ run' = IF fatal # {} THEN At("refused")
                ELSE IF ~has_result_bijection THEN At("unaccounted")
                ELSE At("timings")
    BY DEF Account, loaded, outcome, Refused
<1>2. fatal = {} => TestsAt({"finished"}) = DOMAIN test
    BY <1>1 DEF RunnerInv, CountInv, TestsAt
<1>3. fatal = {} => has_result_bijection
  <2> SUFFICES ASSUME fatal = {} PROVE has_result_bijection
      OBVIOUS
  <2>1. /\ stats["total"] = stats["selected"] /\ Partition = stats["total"]
        /\ stats["selected"] = Cardinality(DOMAIN test)
      BY <1>2 DEF RunnerInv, CountInv
  <2>2. DOMAIN test # {} /\ IsFiniteSet(DOMAIN test) /\ Cardinality(DOMAIN test) \in Nat
      BY <1>1, TestsAreCountable DEF RunnerInv, EndInv, Late
  <2>3. Cardinality(DOMAIN test) # 0
      BY <2>2, FS_EmptySet
  <2>4. Cardinality(DOMAIN test) > 0
      BY <2>2, <2>3
  <2> QED BY <2>1, <2>4 DEF has_result_bijection, Partition
<1>4. \/ run' = At("refused")
      \/ fatal = {} /\ run' = At("timings")
    BY <1>1, <1>3
<1>5. /\ run'.at \in {"refused", "timings"}
      /\ run'.at = "timings" => TestsAt({"finished"}) = DOMAIN test
    BY <1>2, <1>4, AtStep
<1>6. PreflightInv'
    BY <1>1, <1>5 DEF RunnerInv, PreflightInv, Early, Late, Whole, Consistent
<1>7. AcceptedInv'
    BY <1>1, <1>5 DEF RunnerInv, AcceptedInv, Late, SourcesAreTexts, source_hashes, LiveContent
<1>8. TestsInv'
  <2>2. \A t \in DOMAIN test : FutureIsSound(t, test[t])'
      BY <1>1, TestsStay
  <2> QED BY <1>1, <1>5, <2>2 DEF RunnerInv, TestsInv, Early
<1>9. CountInv'
    BY <1>1, TestsStay
<1>10. EndInv'
    BY <1>1, <1>5 DEF RunnerInv, EndInv, Late, TestsAt
<1> QED BY <1>6, <1>7, <1>8, <1>9, <1>10 DEF RunnerInv

LEMMA PublishStep ==
    ASSUME RunnerInv, Publish
    PROVE  RunnerInv'
<1>1. /\ run.at = "timings" /\ UNCHANGED <<cache, domain, live, test, stats, fatal>>
      /\ \/ run' = At("refused")
         \/ run' = [at |-> "published", exit |-> IF has_terminal_failure THEN 1 ELSE 0]
    BY DEF Publish, loaded, outcome, Refused
<1>2. /\ run'.at \in {"refused", "published"}
      /\ run'.at = "published" => (run'.exit = 0 => ~has_terminal_failure)
    BY <1>1, AtStep
<1>3. TestsAt({"finished"}) = DOMAIN test /\ DOMAIN test # {}
    BY <1>1 DEF RunnerInv, EndInv, Late
<1>6. PreflightInv'
    BY <1>1, <1>2 DEF RunnerInv, PreflightInv, Early, Late, Whole, Consistent
<1>7. AcceptedInv'
    BY <1>1, <1>2 DEF RunnerInv, AcceptedInv, Late, SourcesAreTexts, source_hashes, LiveContent
<1>8. TestsInv'
  <2>2. \A t \in DOMAIN test : FutureIsSound(t, test[t])'
      BY <1>1, TestsStay
  <2> QED BY <1>1, <1>2, <2>2 DEF RunnerInv, TestsInv, Early
<1>9. CountInv'
    BY <1>1, TestsStay
<1>10. EndInv'
    BY <1>1, <1>2, <1>3 DEF RunnerInv, EndInv, Late, TestsAt, has_terminal_failure
<1> QED BY <1>6, <1>7, <1>8, <1>9, <1>10 DEF RunnerInv

-----------------------------------------------------------------------------
(***************************************************************************)
(* The two programs together.                                               *)
(***************************************************************************)
ConformanceInv == GeneratorInv /\ RunnerInv

LEMMA RunnerUntouched == RunnerInv /\ UNCHANGED runnerVars => RunnerInv'
<1> SUFFICES ASSUME RunnerInv, UNCHANGED runnerVars PROVE RunnerInv'
    OBVIOUS
<1>1. UNCHANGED <<run, cache, domain, live, test, stats, fatal>>
    BY DEF runnerVars, loaded, outcome
<1>2. source_hashes' = source_hashes
    BY <1>1, TestsStay
<1>3. PreflightInv'
    BY <1>1 DEF RunnerInv, PreflightInv, Early, Late, Whole, Consistent, Checked
<1>4. AcceptedInv'
    BY <1>1, <1>2 DEF RunnerInv, AcceptedInv, Late, SourcesAreTexts
<1>5. \A t \in DOMAIN test : FutureIsSound(t, test[t])'
    BY <1>1, TestsStay
<1>6. TestsInv'
    BY <1>1, <1>5 DEF RunnerInv, TestsInv, Early
<1>7. CountInv'
    BY <1>1, TestsStay
<1>8. EndInv'
    BY <1>1 DEF RunnerInv, EndInv, Late, TestsAt, has_terminal_failure
<1> QED BY <1>3, <1>4, <1>6, <1>7, <1>8 DEF RunnerInv

LEMMA ConformanceStepInv == ConformanceInv /\ [Next]_vars => ConformanceInv'
<1> SUFFICES ASSUME ConformanceInv, [Next]_vars PROVE ConformanceInv'
    OBVIOUS
<1>i. GeneratorInv /\ RunnerInv
    BY DEF ConformanceInv
<1>1. CASE (Edit \/ Checkout \/ GeneratorStep) /\ UNCHANGED runnerVars
    BY <1>i, <1>1, GeneratorStepInv, RunnerUntouched DEF ConformanceInv
<1>2. CASE RunnerStep
  <2>1. UNCHANGED oracleVars
      BY <1>2 DEF RunnerStep, load_cache, Preflight, load_domain, Identify, DispositionRead, SourceRead,
                  Compare, TestStep, run_test, compile_text_variant, Account, Publish
  <2>2. GeneratorInv'
      BY <1>i, <2>1, GeneratorStepInv
  <2>3. CASE load_cache \/ load_domain \/ Identify
      BY <1>i, <2>2, <2>3, LoadSteps DEF ConformanceInv
  <2>4. CASE DispositionRead \/ SourceRead
      BY <1>i, <2>2, <2>4, ReadSteps DEF ConformanceInv
  <2>5. CASE Compare
      BY <1>i, <2>2, <2>5, CompareStep DEF ConformanceInv
  <2>6. CASE \E t \in DOMAIN test : TestStep(t)
      BY <1>i, <2>2, <2>6, RunTest, Compiled DEF ConformanceInv, TestStep
  <2>7. CASE Account
      BY <1>i, <2>2, <2>7, AccountStep DEF ConformanceInv
  <2>8. CASE Publish
      BY <1>i, <2>2, <2>8, PublishStep DEF ConformanceInv
  <2> QED BY <1>2, <2>3, <2>4, <2>5, <2>6, <2>7, <2>8 DEF RunnerStep, Preflight
<1>3. CASE UNCHANGED vars
    BY <1>i, <1>3, GeneratorStepInv, RunnerUntouched DEF vars, ConformanceInv
<1> QED BY <1>1, <1>2, <1>3 DEF Next

THEOREM ConformanceIsInductive == Spec => []ConformanceInv
<1>1. Init => ConformanceInv
    BY GeneratorInitInv, RunnerInitInv DEF Init, ConformanceInv
<1> QED BY <1>1, ConformanceStepInv, PTL DEF Spec

\* Whatever is edited, checked out, cut off or killed: a cache on disk is whole or
\* is not accepted, and what the runner accepts is of one corpus.
THEOREM EvidenceIsAlwaysSound == Spec => []EvidenceIsSound
<1>1. ConformanceInv => EvidenceIsSound
  <2> SUFFICES ASSUME ConformanceInv PROVE EvidenceIsSound
      OBVIOUS
  <2>1. RowsAreWhole
      BY DEF ConformanceInv, GeneratorInv, Whole, RowsAreWhole
  <2>2. AcceptedEvidenceIsOfOneCorpus
      BY DEF ConformanceInv, RunnerInv, AcceptedInv, AcceptedEvidenceIsOfOneCorpus, Late
  <2> QED BY <2>1, <2>2 DEF EvidenceIsSound
<1> QED BY <1>1, ConformanceIsInductive, PTL

\* A test passes only if tsz completed every configuration of the text of its row
\* and said what the native compiler says of it, and a run succeeds only if every
\* selected test passed or was set aside.
THEOREM NoPassIsUnearned == Spec => []PassesAreEarned
<1>1. ConformanceInv => PassesAreEarned
  <2> SUFFICES ASSUME ConformanceInv PROVE PassesAreEarned
      OBVIOUS
  <2>1. \A t \in DOMAIN test : FutureIsSound(t, test[t])
      BY DEF ConformanceInv, RunnerInv, TestsInv
  <2>2. ASSUME NEW t \in TestsAt({"compiling"})
        PROVE  test[t].text = source_hashes[t]
    <3>1. t \in DOMAIN test /\ test[t].at = "compiling"
        BY DEF TestsAt
    <3> QED BY <2>1, <3>1 DEF FutureIsSound
  <2>3. ASSUME NEW t \in TestsAt({"finished"})
        PROVE  test[t].result \in Terminal /\ Earned(source_hashes[t], test[t].result)
    <3>1. t \in DOMAIN test /\ test[t].at = "finished"
        BY DEF TestsAt
    <3> QED BY <2>1, <3>1 DEF FutureIsSound
  <2>4. ASSUME run.at = "published", run.exit = 0, NEW t \in DOMAIN test
        PROVE  test[t].at = "finished" /\ test[t].result \in {"pass", "skipped", "unsupported"}
    <3>1. TestsAt({"finished"}) = DOMAIN test /\ ~has_terminal_failure
        BY <2>4 DEF ConformanceInv, RunnerInv, EndInv
    <3>2. t \in TestsAt({"finished"}) /\ test[t].at = "finished"
        BY <3>1 DEF TestsAt
    <3>3. test[t].result \in Terminal
        BY <2>3, <3>2
    <3>4. ASSUME test[t].result \in {"fail", "crashed", "timeout"}
          PROVE  FALSE
      <4> DEFINE result == test[t].result
      <4>1. t \in Having(result) /\ Having(result) \in SUBSET DOMAIN test
          BY <3>2 DEF Having
      <4>2. IsFiniteSet(Having(result)) /\ Cardinality(Having(result)) \in Nat
          BY <4>1, TestsAreCountable DEF ConformanceInv
      <4>3. Cardinality(Having(result)) # 0
          BY <4>1, <4>2, FS_EmptySet
      <4>4. stats[result] = Cardinality(Having(result))
          BY <3>3 DEF ConformanceInv, RunnerInv, CountInv
      <4>5. stats[result] > 0
          BY <4>2, <4>3, <4>4
      <4> QED BY <3>1, <3>4, <4>5 DEF has_terminal_failure
    <3> QED BY <3>2, <3>3, <3>4 DEF Terminal, Counter
  <2> QED BY <2>2, <2>3, <2>4 DEF PassesAreEarned, Earned
<1> QED BY <1>1, ConformanceIsInductive, PTL

\* Every selected test is counted once, under its own result, in whatever order
\* the tests end, so that the accounting never refuses a run.
THEOREM NoResultIsLost == Spec => []ResultsAreCountedOnce
<1>1. ConformanceInv => ResultsAreCountedOnce
  <2> SUFFICES ASSUME ConformanceInv PROVE ResultsAreCountedOnce
      OBVIOUS
  <2>1. run.at # "unaccounted"
      BY DEF ConformanceInv, RunnerInv, PreflightInv, Early, Late
  <2>2. ASSUME run.at = "published", NEW result \in Terminal
        PROVE  stats[result] = Cardinality({t \in DOMAIN test : test[t].result = result})
    <3>1. TestsAt({"finished"}) = DOMAIN test
        BY <2>2 DEF ConformanceInv, RunnerInv, EndInv
    <3>2. {t \in DOMAIN test : test[t].result = result} = Having(result)
        BY <3>1 DEF TestsAt, Having
    <3> QED BY <3>2 DEF ConformanceInv, RunnerInv, CountInv
  <2> QED BY <2>1, <2>2 DEF ResultsAreCountedOnce
<1> QED BY <1>1, ConformanceIsInductive, PTL
=============================================================================
