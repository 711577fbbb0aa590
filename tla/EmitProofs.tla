------------------------------- MODULE EmitProofs -------------------------------
(***************************************************************************)
(* What the discovery of the emit cases and their comparison promise, for any *)
(* corpus, any number of cases and any concurrency.                           *)
(***************************************************************************)
EXTENDS EmitCorpus, EmitRunner, FiniteSetTheorems, FunctionTheorems, TLAPS

-----------------------------------------------------------------------------
(* The comparison: the inductive invariant *)

\* The shapes of what the runner keeps.
RunnerTypes ==
    /\ selected \in Runs
    /\ call = [t \in Cases |-> [c \in Compiler |-> call[t][c]]]
    /\ wrote = [t \in Cases |-> [c \in Compiler |-> wrote[t][c]]]
    /\ row = [t \in Cases |-> row[t]]
    /\ truth = [t \in Cases |-> truth[t]]
    /\ disk = [c \in Compiler |-> disk[c]]
    /\ counter \in [Compiler -> Nat]
    /\ alive \subseteq Cases \X Compiler

\* A child belongs to a call that has no row yet; in its scope lie the inputs of its
\* case, and over them what the child wrote, and nothing else.
ScopeIsOwn(t, c) ==
    <<t, c>> \in alive =>
        /\ call[t][c].stage \in {"running", "wrote"}
        /\ call[t][c] = [stage |-> call[t][c].stage, scope |-> call[t][c].scope]
        /\ row[t] = NoRow /\ exit = NoExit
        /\ call[t][c].scope \in DOMAIN disk[c]
        /\ call[t][c].stage = "running" => disk[c][call[t][c].scope] = Staged(t)
        /\ call[t][c].stage = "wrote" => disk[c][call[t][c].scope] = Over(Staged(t), wrote[t][c])
ScopesAreOwn == \A t \in Cases, c \in Compiler : ScopeIsOwn(t, c)

\* No two children of a compiler share a scope, and each scope there is has a child.
ScopesAreApart ==
    \A t, u \in Cases, c \in Compiler :
        /\ <<t, c>> \in alive /\ <<u, c>> \in alive
        /\ call[t][c].scope = call[u][c].scope
        => t = u
ScopesAreUsed ==
    \A c \in Compiler : \A s \in DOMAIN disk[c] :
        /\ s \in Nat /\ s < counter[c]
        /\ \E t \in Cases : <<t, c>> \in alive /\ call[t][c].scope = s

\* What a call has come to: the products that were collected are what its child wrote.
CallIsTrue(t, c) ==
    /\ call[t][c].stage # "idle" => t \in selected.supported
    /\ call[t][c].stage = "ended" =>
           /\ call[t][c].products = {f \in wrote[t][c] : ~IsStaged(f, t)}
           /\ call[t][c].outcome \in Endings
    /\ call[t][c].stage = "lost" => call[t][c].reason \in {"timeout", "crash"}
CallsAreTrue == \A t \in Cases, c \in Compiler : CallIsTrue(t, c)

\* A row without a failure is of a case that was compared and agreed.
RowIsEarned(t) ==
    row[t].js \in {"pass", "skip"} /\ row[t].dts \in {"pass", "skip"} =>
        t \in selected.supported /\ truth[t]
RowsAreEarned == \A t \in Cases : RowIsEarned(t)

RunnerInv ==
    /\ RunnerTypes /\ ScopesAreOwn /\ ScopesAreApart /\ ScopesAreUsed
    /\ CallsAreTrue /\ RowsAreEarned /\ ExitIsEarned

-----------------------------------------------------------------------------
(* What the comparison concludes *)

\* A selected run asks for some surface of every case.
LEMMA SomeSurface ==
    ASSUME selected \in Runs, NEW t \in Cases
    PROVE  Surfaces(t).js \/ Surfaces(t).dts
<1>1. selected.js \/ selected.dts
  BY RunAssumption
<1> QED
  BY <1>1 DEF Surfaces

\* A surface that was asked for has no failure only when the state is complete and its
\* products match; and then they were asked for and matched.
LEMMA NothingIsPassedOver ==
    ASSUME selected \in Runs, NEW t \in Cases, NEW state, NEW js, NEW dts,
           state \notin {"pass", "skip"},
           ResultOf(t, state, js, dts).js \in {"pass", "skip"},
           ResultOf(t, state, js, dts).dts \in {"pass", "skip"}
    PROVE  /\ state = "complete"
           /\ Surfaces(t).js => js
           /\ Surfaces(t).dts => dts
<1> DEFINE jsOf == SurfaceStatus(state, Surfaces(t).js, js)
           dtsOf == SurfaceStatus(state, Surfaces(t).dts, dts)
<1>1. ResultOf(t, state, js, dts).js = jsOf /\ ResultOf(t, state, js, dts).dts = dtsOf
  BY DEF ResultOf
<1>2. Surfaces(t).js => state = "complete" /\ js
  BY <1>1 DEF SurfaceStatus
<1>3. Surfaces(t).dts => state = "complete" /\ dts
  BY <1>1 DEF SurfaceStatus
<1> QED
  BY <1>2, <1>3, SomeSurface

\* A case that could not be compared has a failure.
LEMMA LossIsAFailure ==
    ASSUME selected \in Runs, NEW t \in Cases, NEW state \in {"timeout", "crash", "unsupported"}
    PROVE  ~(/\ ResultOf(t, state, FALSE, FALSE).js \in {"pass", "skip"}
             /\ ResultOf(t, state, FALSE, FALSE).dts \in {"pass", "skip"})
<1>1. /\ ResultOf(t, state, FALSE, FALSE).js = SurfaceStatus(state, Surfaces(t).js, FALSE)
      /\ ResultOf(t, state, FALSE, FALSE).dts = SurfaceStatus(state, Surfaces(t).dts, FALSE)
  BY DEF ResultOf
<1>2. Surfaces(t).js => ResultOf(t, state, FALSE, FALSE).js = state
  BY <1>1 DEF SurfaceStatus
<1>3. Surfaces(t).dts => ResultOf(t, state, FALSE, FALSE).dts = state
  BY <1>1 DEF SurfaceStatus
<1> QED
  BY <1>2, <1>3, SomeSurface

\* Two ends that match are the same end.
LEMMA OutcomesAreTheSame ==
    ASSUME NEW o \in Endings, NEW p \in Endings, OutcomesMatch(o, p)
    PROVE  o = p
<1>1. o = [exit |-> o.exit, codes |-> o.codes, witnesses |-> o.witnesses]
  BY RunAssumption
<1>2. p = [exit |-> p.exit, codes |-> p.codes, witnesses |-> p.witnesses]
  BY RunAssumption
<1>3. o.exit = p.exit /\ o.codes = p.codes
  BY DEF OutcomesMatch
<1>4. o.witnesses = p.witnesses
  <2>1. CASE o.exit = 0
    BY <2>1, <1>3, RunAssumption
  <2>2. CASE o.exit # 0
    BY <2>2 DEF OutcomesMatch
  <2> QED
    BY <2>1, <2>2
<1> QED
  BY <1>1, <1>2, <1>3, <1>4

\* The state of a comparison is not a verdict.
LEMMA StateIsNoVerdict ==
    ASSUME NEW o, NEW p
    PROVE  ArtifactState(o, p) \in {"crash", "incomplete", "complete"}
  BY DEF ArtifactState

\* What is recorded of a settled case is earned.
LEMMA RecordedIsEarned ==
    ASSUME RunnerInv, NEW t \in Cases, Record(t)
    PROVE  RowIsEarned(t)'
<1> DEFINE o == call[t]["oracle"]
           p == call[t]["tsz"]
<1>1. "oracle" \in Compiler /\ "tsz" \in Compiler
  BY DEF Compiler
<1>2. CallIsTrue(t, "oracle") /\ CallIsTrue(t, "tsz")
  BY <1>1 DEF RunnerInv, CallsAreTrue
<1>3. o.stage \in {"ended", "lost"} /\ p.stage \in {"ended", "lost"}
  BY <1>1 DEF Record, Settled
<1>4. t \in selected.supported
  BY <1>2, <1>3 DEF CallIsTrue
<1>5. selected' = selected /\ selected \in Runs
  BY DEF Record, RunnerInv, RunnerTypes
<1>6. row = [u \in Cases |-> row[u]] /\ truth = [u \in Cases |-> truth[u]]
  BY DEF RunnerInv, RunnerTypes
<1>7. truth'[t] = Agree(t)
  BY <1>6 DEF Record
<1>8. CASE o.stage = "lost"
  <2>1. row'[t] = ResultOf(t, o.reason, FALSE, FALSE)
    BY <1>6, <1>8 DEF Record
  <2>2. o.reason \in {"timeout", "crash"}
    BY <1>2, <1>8 DEF CallIsTrue
  <2>3. ~(row'[t].js \in {"pass", "skip"} /\ row'[t].dts \in {"pass", "skip"})
    BY <2>1, <2>2, <1>5, LossIsAFailure
  <2> QED
    BY <2>3 DEF RowIsEarned
<1>9. CASE o.stage # "lost" /\ p.stage = "lost"
  <2>1. row'[t] = ResultOf(t, p.reason, FALSE, FALSE)
    BY <1>6, <1>9 DEF Record
  <2>2. p.reason \in {"timeout", "crash"}
    BY <1>2, <1>9 DEF CallIsTrue
  <2>3. ~(row'[t].js \in {"pass", "skip"} /\ row'[t].dts \in {"pass", "skip"})
    BY <2>1, <2>2, <1>5, LossIsAFailure
  <2> QED
    BY <2>3 DEF RowIsEarned
<1>10. CASE o.stage = "ended" /\ p.stage = "ended"
  <2> DEFINE same(kind) == OfKind(o.products, kind) = OfKind(p.products, kind)
             match == OutcomesMatch(o.outcome, p.outcome)
             state == ArtifactState(o.outcome, p.outcome)
  <2>1. row'[t] = ResultOf(t, state, match /\ same("js"), match /\ same("dts"))
    BY <1>6, <1>10 DEF Record, Compared
  <2>2. SUFFICES ASSUME row'[t].js \in {"pass", "skip"}, row'[t].dts \in {"pass", "skip"}
                 PROVE  Agree(t)
    BY <1>4, <1>5, <1>7 DEF RowIsEarned
  <2>3. state \notin {"pass", "skip"}
    BY StateIsNoVerdict
  <2>4. /\ Surfaces(t).js => match /\ same("js")
        /\ Surfaces(t).dts => match /\ same("dts")
    <3> HIDE DEF same, match, state
    <3> QED
      BY <2>1, <2>2, <2>3, <1>5, NothingIsPassedOver
  <2>5. match
    BY <2>4, <1>5, SomeSurface
  <2>6. o.outcome = p.outcome
    BY <2>5, <1>2, <1>10, OutcomesAreTheSame DEF CallIsTrue
  <2>7. /\ o.products = {f \in wrote[t]["oracle"] : ~IsStaged(f, t)}
        /\ p.products = {f \in wrote[t]["tsz"] : ~IsStaged(f, t)}
    BY <1>2, <1>10 DEF CallIsTrue
  <2>8. \A kind \in {"js", "dts"} : Surfaces(t)[kind] => same(kind)
    BY <2>4
  <2> QED
    BY <1>10, <2>6, <2>7, <2>8 DEF Agree
<1> QED
  BY <1>3, <1>8, <1>9, <1>10

-----------------------------------------------------------------------------
(* The comparison: every step keeps the invariant *)

LEMMA RunnerInitInv == EmitInit => RunnerInv
<1> SUFFICES ASSUME EmitInit PROVE RunnerInv
  OBVIOUS
<1>1. RunnerTypes
  BY DEF EmitInit, RunnerTypes
<1>2. /\ \A t \in Cases, c \in Compiler : call[t][c].stage = "idle" /\ <<t, c>> \notin alive
      /\ \A c \in Compiler : DOMAIN disk[c] = {}
  BY DEF EmitInit, NotCalled, Empty
<1>3. RowsAreEarned
  BY DEF EmitInit, RowsAreEarned, RowIsEarned, NoRow
<1>4. ExitIsEarned
  BY DEF EmitInit, ExitIsEarned, NoExit
<1>5. CallsAreTrue
  BY <1>2 DEF CallsAreTrue, CallIsTrue
<1>6. ScopesAreOwn /\ ScopesAreApart /\ ScopesAreUsed
  BY <1>2 DEF ScopesAreOwn, ScopeIsOwn, ScopesAreApart, ScopesAreUsed
<1> QED
  BY <1>1, <1>3, <1>4, <1>5, <1>6 DEF RunnerInv

\* A step of a run that is not over, and does not end it, earns no exit.
LEMMA NoExitYet ==
    ASSUME exit = NoExit, exit' = exit
    PROVE  ExitIsEarned'
  BY DEF ExitIsEarned, NoExit

\* A case that has not begun has no children.
LEMMA UnstartedIsIdle ==
    ASSUME RunnerInv, NEW t \in Unstarted
    PROVE  /\ t \in Cases /\ row[t] = NoRow
           /\ \A c \in Compiler : call[t][c] = NotCalled /\ <<t, c>> \notin alive
<1>1. t \in Cases /\ row[t] = NoRow /\ \A c \in Compiler : call[t][c] = NotCalled
  BY DEF Unstarted
<1>2. \A c \in Compiler : call[t][c].stage = "idle"
  BY <1>1 DEF NotCalled
<1> QED
  BY <1>1, <1>2 DEF RunnerInv, ScopesAreOwn, ScopeIsOwn

\* The next scope of a compiler is nobody's.
LEMMA NextScopeIsNew ==
    ASSUME RunnerInv, NEW c \in Compiler, NEW files
    PROVE  /\ counter[c] \in Nat /\ counter[c] \notin DOMAIN disk[c]
           /\ Over(Files(c, counter[c]), files) = files
<1>1. counter[c] \in Nat
  BY DEF RunnerInv, RunnerTypes
<1>2. \A s \in DOMAIN disk[c] : s \in Nat /\ s < counter[c]
  BY DEF RunnerInv, ScopesAreUsed
<1>3. counter[c] \notin DOMAIN disk[c]
  BY <1>1, <1>2
<1>4. Files(c, counter[c]) = {}
  BY <1>3 DEF Files
<1> QED
  BY <1>1, <1>3, <1>4 DEF Over

\* An unsupported case is only recorded.
LEMMA BeginUnsupported ==
    ASSUME RunnerInv, NEW t \in Cases, Begin(t), t \notin selected.supported
    PROVE  RunnerInv'
<1>1. /\ row' = [row EXCEPT ![t] = ResultOf(t, "unsupported", FALSE, FALSE)]
      /\ UNCHANGED <<call, counter, disk, alive, selected, wrote, truth, exit>>
      /\ exit = NoExit /\ t \in Unstarted
  BY DEF Begin
<1>2. \A u \in Cases : u # t => row'[u] = row[u]
  BY <1>1 DEF RunnerInv, RunnerTypes
<1>3. row'[t] = ResultOf(t, "unsupported", FALSE, FALSE)
  BY <1>1 DEF RunnerInv, RunnerTypes
<1>4. \A c \in Compiler : <<t, c>> \notin alive
  BY <1>1, UnstartedIsIdle
<1>5. RunnerTypes'
  BY <1>1 DEF RunnerInv, RunnerTypes
<1>6. ScopesAreOwn'
  <2> SUFFICES ASSUME NEW u \in Cases, NEW c \in Compiler, <<u, c>> \in alive'
               PROVE  ScopeIsOwn(u, c)'
    BY DEF ScopesAreOwn, ScopeIsOwn
  <2>1. u # t
    BY <1>1, <1>4
  <2> QED
    BY <2>1, <1>1, <1>2 DEF RunnerInv, ScopesAreOwn, ScopeIsOwn, Over
<1>7. ScopesAreApart' /\ ScopesAreUsed'
  BY <1>1 DEF RunnerInv, ScopesAreApart, ScopesAreUsed
<1>8. CallsAreTrue'
  BY <1>1 DEF RunnerInv, CallsAreTrue, CallIsTrue, IsStaged
<1>9. selected \in Runs
  BY DEF RunnerInv, RunnerTypes
<1>10. RowsAreEarned'
  <2> SUFFICES ASSUME NEW u \in Cases PROVE RowIsEarned(u)'
    BY DEF RowsAreEarned
  <2>1. CASE u = t
    BY <2>1, <1>3, <1>9, LossIsAFailure DEF RowIsEarned
  <2>2. CASE u # t
    BY <2>2, <1>1, <1>2 DEF RunnerInv, RowsAreEarned, RowIsEarned
  <2> QED
    BY <2>1, <2>2
<1>11. ExitIsEarned'
  BY <1>1, NoExitYet
<1> QED
  BY <1>5, <1>6, <1>7, <1>8, <1>10, <1>11 DEF RunnerInv

\* A case whose root cannot be staged has lost both calls before they have a child.
LEMMA BeginRootless ==
    ASSUME RunnerInv, NEW t \in Cases, Begin(t), t \in selected.supported, t \in selected.rootless
    PROVE  RunnerInv'
<1>1. /\ call' = [call EXCEPT ![t] = [c \in Compiler |-> [stage |-> "lost", reason |-> "crash"]]]
      /\ counter' = [c \in Compiler |-> counter[c] + 1]
      /\ UNCHANGED <<row, disk, alive, selected, wrote, truth, exit>>
      /\ exit = NoExit /\ t \in Unstarted
  BY DEF Begin
<1>2. \A u \in Cases, c \in Compiler : u # t => call'[u][c] = call[u][c]
  BY <1>1 DEF RunnerInv, RunnerTypes
<1>3. \A c \in Compiler : call'[t][c] = [stage |-> "lost", reason |-> "crash"]
  BY <1>1 DEF RunnerInv, RunnerTypes
<1>4. \A c \in Compiler : <<t, c>> \notin alive
  BY <1>1, UnstartedIsIdle
<1>5. RunnerTypes'
  <2>1. call' = [u \in Cases |-> [c \in Compiler |-> call'[u][c]]]
    BY <1>1 DEF RunnerInv, RunnerTypes
  <2>2. counter' \in [Compiler -> Nat]
    BY <1>1 DEF RunnerInv, RunnerTypes
  <2> QED
    BY <2>1, <2>2, <1>1 DEF RunnerInv, RunnerTypes
<1>6. ScopesAreOwn'
  <2> SUFFICES ASSUME NEW u \in Cases, NEW c \in Compiler, <<u, c>> \in alive'
               PROVE  ScopeIsOwn(u, c)'
    BY DEF ScopesAreOwn, ScopeIsOwn
  <2>1. u # t
    BY <1>1, <1>4
  <2> QED
    BY <2>1, <1>1, <1>2 DEF RunnerInv, ScopesAreOwn, ScopeIsOwn, Over
<1>7. ScopesAreApart'
  BY <1>1, <1>2, <1>4 DEF RunnerInv, ScopesAreApart
<1>8. ScopesAreUsed'
  <2> SUFFICES ASSUME NEW c \in Compiler, NEW s \in DOMAIN disk[c]
               PROVE  /\ s \in Nat /\ s < counter'[c]
                      /\ \E u \in Cases : <<u, c>> \in alive /\ call'[u][c].scope = s
    BY <1>1 DEF ScopesAreUsed
  <2>1. s \in Nat /\ s < counter[c]
    BY DEF RunnerInv, ScopesAreUsed
  <2>2. PICK u \in Cases : <<u, c>> \in alive /\ call[u][c].scope = s
    BY DEF RunnerInv, ScopesAreUsed
  <2>3. counter'[c] = counter[c] + 1 /\ counter[c] \in Nat
    BY <1>1 DEF RunnerInv, RunnerTypes
  <2>4. call'[u][c].scope = s
    BY <2>2, <1>2, <1>4
  <2> QED
    BY <2>1, <2>2, <2>3, <2>4
<1>9. CallsAreTrue'
  <2> SUFFICES ASSUME NEW u \in Cases, NEW c \in Compiler PROVE CallIsTrue(u, c)'
    BY DEF CallsAreTrue
  <2>1. CASE u = t
    BY <2>1, <1>1, <1>3 DEF CallIsTrue
  <2>2. CASE u # t
    BY <2>2, <1>1, <1>2 DEF RunnerInv, CallsAreTrue, CallIsTrue, IsStaged
  <2> QED
    BY <2>1, <2>2
<1>10. RowsAreEarned'
  BY <1>1 DEF RunnerInv, RowsAreEarned, RowIsEarned
<1>11. ExitIsEarned'
  BY <1>1, NoExitYet
<1> QED
  BY <1>5, <1>6, <1>7, <1>8, <1>9, <1>10, <1>11 DEF RunnerInv

\* Both calls of a case get to their children, each with its inputs in a new scope.
LEMMA BeginChildren ==
    ASSUME RunnerInv, NEW t \in Cases, Begin(t), t \in selected.supported, t \notin selected.rootless
    PROVE  RunnerInv'
<1>1. /\ call' = [call EXCEPT ![t] = [c \in Compiler |-> [stage |-> "running", scope |-> counter[c]]]]
      /\ counter' = [c \in Compiler |-> counter[c] + 1]
      /\ disk' = [c \in Compiler |-> Staging(c, counter[c], Staged(t))]
      /\ alive' = alive \cup {<<t, c>> : c \in Compiler}
      /\ UNCHANGED <<row, selected, wrote, truth, exit>>
      /\ exit = NoExit /\ t \in Unstarted
  BY DEF Begin, ScopeOf
<1>2. \A u \in Cases, c \in Compiler :
          /\ u # t => call'[u][c] = call[u][c]
          /\ <<u, c>> \in alive' <=> <<u, c>> \in alive \/ u = t
  BY <1>1 DEF RunnerInv, RunnerTypes
<1>3. \A c \in Compiler : call'[t][c] = [stage |-> "running", scope |-> counter[c]]
  BY <1>1 DEF RunnerInv, RunnerTypes
<1>14. ASSUME NEW c \in Compiler
       PROVE  /\ call'[t][c].stage = "running" /\ call'[t][c].scope = counter[c]
              /\ call'[t][c] = [stage |-> call'[t][c].stage, scope |-> call'[t][c].scope]
  <2>1. call'[t][c] = [stage |-> "running", scope |-> counter[c]]
    BY <1>3
  <2> QED
    BY <2>1
<1>4. row[t] = NoRow /\ \A c \in Compiler : <<t, c>> \notin alive
  BY <1>1, UnstartedIsIdle
<1>5. \A c \in Compiler : counter[c] \in Nat /\ counter'[c] = counter[c] + 1
  BY <1>1 DEF RunnerInv, RunnerTypes
<1>6. ASSUME NEW c \in Compiler
      PROVE  /\ DOMAIN disk'[c] = DOMAIN disk[c] \cup {counter[c]}
             /\ disk'[c][counter[c]] = Staged(t)
             /\ counter[c] \notin DOMAIN disk[c]
             /\ \A s \in DOMAIN disk[c] : disk'[c][s] = disk[c][s]
  <2>1. disk'[c] = Staging(c, counter[c], Staged(t))
    BY <1>1
  <2>2. counter[c] \notin DOMAIN disk[c] /\ Over(Files(c, counter[c]), Staged(t)) = Staged(t)
    BY NextScopeIsNew
  <2> QED
    BY <2>1, <2>2 DEF Staging
<1>7. RunnerTypes'
  <2>1. call' = [u \in Cases |-> [c \in Compiler |-> call'[u][c]]]
    BY <1>1 DEF RunnerInv, RunnerTypes
  <2>2. counter' \in [Compiler -> Nat]
    BY <1>1 DEF RunnerInv, RunnerTypes
  <2>3. alive' \subseteq Cases \X Compiler
    BY <1>1 DEF RunnerInv, RunnerTypes
  <2>4. disk' = [c \in Compiler |-> disk'[c]]
    BY <1>1
  <2> QED
    BY <2>1, <2>2, <2>3, <2>4, <1>1 DEF RunnerInv, RunnerTypes
<1>8. ScopesAreOwn'
  <2> SUFFICES ASSUME NEW u \in Cases, NEW c \in Compiler, <<u, c>> \in alive'
               PROVE  ScopeIsOwn(u, c)'
    BY DEF ScopesAreOwn, ScopeIsOwn
  <2>1. CASE u = t
    <3>1. /\ call'[t][c].stage = "running" /\ call'[t][c].scope = counter[c]
          /\ call'[t][c] = [stage |-> call'[t][c].stage, scope |-> call'[t][c].scope]
      BY <1>14
    <3>2. counter[c] \in DOMAIN disk'[c] /\ disk'[c][counter[c]] = Staged(t)
      BY <1>6
    <3> QED
      BY <2>1, <3>1, <3>2, <1>1, <1>4 DEF ScopeIsOwn
  <2>2. CASE u # t
    <3>1. <<u, c>> \in alive /\ call'[u][c] = call[u][c]
      BY <2>2, <1>2
    <3>2. ScopeIsOwn(u, c)
      BY DEF RunnerInv, ScopesAreOwn
    <3>3. disk'[c][call[u][c].scope] = disk[c][call[u][c].scope] /\ call[u][c].scope \in DOMAIN disk'[c]
      BY <3>1, <3>2, <1>6 DEF ScopeIsOwn
    <3> QED
      BY <3>1, <3>2, <3>3, <1>1 DEF ScopeIsOwn, Over
  <2> QED
    BY <2>1, <2>2
<1>9. ScopesAreApart'
  <2> SUFFICES ASSUME NEW u \in Cases, NEW v \in Cases, NEW c \in Compiler, u # v,
                      <<u, c>> \in alive', <<v, c>> \in alive'
               PROVE  call'[u][c].scope # call'[v][c].scope
    BY DEF ScopesAreApart
  <2>1. ASSUME NEW w \in Cases, w # t, <<w, c>> \in alive'
        PROVE  <<w, c>> \in alive /\ call'[w][c].scope = call[w][c].scope /\ call[w][c].scope \in DOMAIN disk[c]
    BY <2>1, <1>2 DEF RunnerInv, ScopesAreOwn, ScopeIsOwn
  <2>2. call'[t][c].scope = counter[c] /\ counter[c] \notin DOMAIN disk[c]
    BY <1>14, <1>6
  <2>3. CASE u = t
    BY <2>1, <2>2, <2>3
  <2>4. CASE v = t
    BY <2>1, <2>2, <2>4
  <2>5. CASE u # t /\ v # t
    BY <2>1, <2>5 DEF RunnerInv, ScopesAreApart
  <2> QED
    BY <2>3, <2>4, <2>5
<1>10. ScopesAreUsed'
  <2> SUFFICES ASSUME NEW c \in Compiler, NEW s \in DOMAIN disk'[c]
               PROVE  /\ s \in Nat /\ s < counter'[c]
                      /\ \E u \in Cases : <<u, c>> \in alive' /\ call'[u][c].scope = s
    BY DEF ScopesAreUsed
  <2>1. CASE s = counter[c]
    <3>1. <<t, c>> \in alive' /\ call'[t][c].scope = counter[c]
      BY <1>2, <1>14
    <3>2. counter[c] \in Nat /\ counter[c] < counter'[c]
      BY <1>5
    <3> QED
      BY <2>1, <3>1, <3>2
  <2>2. CASE s # counter[c]
    <3>1. s \in DOMAIN disk[c]
      BY <2>2, <1>6
    <3>2. s \in Nat /\ s < counter[c]
      BY <3>1 DEF RunnerInv, ScopesAreUsed
    <3>3. PICK u \in Cases : <<u, c>> \in alive /\ call[u][c].scope = s
      BY <3>1 DEF RunnerInv, ScopesAreUsed
    <3>4. <<u, c>> \in alive' /\ call'[u][c].scope = s
      BY <3>3, <1>2, <1>4
    <3> QED
      BY <3>2, <3>4, <1>5
  <2> QED
    BY <2>1, <2>2
<1>11. CallsAreTrue'
  <2> SUFFICES ASSUME NEW u \in Cases, NEW c \in Compiler PROVE CallIsTrue(u, c)'
    BY DEF CallsAreTrue
  <2>1. CASE u = t
    BY <2>1, <1>1, <1>14 DEF CallIsTrue
  <2>2. CASE u # t
    BY <2>2, <1>1, <1>2 DEF RunnerInv, CallsAreTrue, CallIsTrue, IsStaged
  <2> QED
    BY <2>1, <2>2
<1>12. RowsAreEarned'
  BY <1>1 DEF RunnerInv, RowsAreEarned, RowIsEarned
<1>13. ExitIsEarned'
  BY <1>1, NoExitYet
<1> QED
  BY <1>7, <1>8, <1>9, <1>10, <1>11, <1>12, <1>13 DEF RunnerInv

\* A child writes into its own scope.
LEMMA ChildWritesStep ==
    ASSUME RunnerInv, NEW t \in Cases, NEW c \in Compiler, ChildWrites(t, c)
    PROVE  RunnerInv'
<1> DEFINE scope == call[t][c].scope
<1>1. PICK files \in Emissions :
          /\ wrote' = [wrote EXCEPT ![t][c] = files]
          /\ disk' = [disk EXCEPT ![c] = Staging(c, scope, files)]
  BY DEF ChildWrites
<1>2. /\ call' = [call EXCEPT ![t][c].stage = "wrote"]
      /\ UNCHANGED <<selected, counter, alive, row, truth, exit>>
      /\ exit = NoExit /\ <<t, c>> \in alive /\ call[t][c].stage = "running"
  BY DEF ChildWrites
<1>3. /\ call[t][c] = [stage |-> "running", scope |-> scope]
      /\ scope \in DOMAIN disk[c] /\ disk[c][scope] = Staged(t)
      /\ row[t] = NoRow
  BY <1>2 DEF RunnerInv, ScopesAreOwn, ScopeIsOwn
<1>4. call'[t][c] = [stage |-> "wrote", scope |-> scope]
  BY <1>2, <1>3 DEF RunnerInv, RunnerTypes
<1>5. \A u \in Cases, d \in Compiler : <<u, d>> # <<t, c>> =>
          call'[u][d] = call[u][d] /\ wrote'[u][d] = wrote[u][d]
  BY <1>1, <1>2 DEF RunnerInv, RunnerTypes
<1>6. wrote'[t][c] = files
  BY <1>1 DEF RunnerInv, RunnerTypes
<1>7. \A d \in Compiler : d # c => disk'[d] = disk[d]
  BY <1>1 DEF RunnerInv, RunnerTypes
<1>8. /\ DOMAIN disk'[c] = DOMAIN disk[c]
      /\ disk'[c][scope] = Over(Staged(t), files)
      /\ \A s \in DOMAIN disk[c] : s # scope => disk'[c][s] = disk[c][s]
  <2>1. disk'[c] = Staging(c, scope, files)
    BY <1>1 DEF RunnerInv, RunnerTypes
  <2>2. Files(c, scope) = Staged(t)
    BY <1>3 DEF Files
  <2> QED
    BY <2>1, <2>2, <1>3 DEF Staging
<1>9. RunnerTypes'
  <2>0. /\ call = [u \in Cases |-> [d \in Compiler |-> call[u][d]]]
        /\ wrote = [u \in Cases |-> [d \in Compiler |-> wrote[u][d]]]
    BY DEF RunnerInv, RunnerTypes
  <2>1. call' = [u \in Cases |-> [d \in Compiler |-> call'[u][d]]]
    BY <1>2, <2>0
  <2>2. wrote' = [u \in Cases |-> [d \in Compiler |-> wrote'[u][d]]]
    BY <1>1, <2>0
  <2>3. disk' = [d \in Compiler |-> disk'[d]]
    BY <1>1 DEF RunnerInv, RunnerTypes
  <2> QED
    BY <2>1, <2>2, <2>3, <1>2 DEF RunnerInv, RunnerTypes
<1>10. \A u \in Cases, d \in Compiler : <<u, d>> \in alive => call'[u][d].scope = call[u][d].scope
  BY <1>3, <1>4, <1>5
<1>11. ScopesAreOwn'
  <2> SUFFICES ASSUME NEW u \in Cases, NEW d \in Compiler, <<u, d>> \in alive
               PROVE  ScopeIsOwn(u, d)'
    BY <1>2 DEF ScopesAreOwn, ScopeIsOwn
  <2>1. CASE u = t /\ d = c
    BY <2>1, <1>2, <1>3, <1>4, <1>6, <1>8 DEF ScopeIsOwn, Over
  <2>2. CASE ~(u = t /\ d = c)
    <3>1. call'[u][d] = call[u][d] /\ wrote'[u][d] = wrote[u][d]
      BY <2>2, <1>5
    <3>2. ScopeIsOwn(u, d)
      BY DEF RunnerInv, ScopesAreOwn
    <3>3. d = c => call[u][d].scope # scope
      BY <2>2, <1>2 DEF RunnerInv, ScopesAreApart
    <3>4. /\ disk'[d][call[u][d].scope] = disk[d][call[u][d].scope]
          /\ call[u][d].scope \in DOMAIN disk'[d]
      BY <3>2, <3>3, <1>7, <1>8 DEF ScopeIsOwn
    <3> QED
      BY <3>1, <3>2, <3>4, <1>2 DEF ScopeIsOwn, Over
  <2> QED
    BY <2>1, <2>2
<1>12. ScopesAreApart'
  BY <1>2, <1>10 DEF RunnerInv, ScopesAreApart
<1>13. ScopesAreUsed'
  <2> SUFFICES ASSUME NEW d \in Compiler, NEW s \in DOMAIN disk'[d]
               PROVE  /\ s \in Nat /\ s < counter[d]
                      /\ \E u \in Cases : <<u, d>> \in alive /\ call'[u][d].scope = s
    BY <1>2 DEF ScopesAreUsed
  <2>1. s \in DOMAIN disk[d]
    BY <1>7, <1>8
  <2> QED
    BY <2>1, <1>10 DEF RunnerInv, ScopesAreUsed
<1>14. CallsAreTrue'
  <2> SUFFICES ASSUME NEW u \in Cases, NEW d \in Compiler PROVE CallIsTrue(u, d)'
    BY DEF CallsAreTrue
  <2>1. CASE u = t /\ d = c
    BY <2>1, <1>2, <1>4 DEF RunnerInv, CallsAreTrue, CallIsTrue
  <2>2. CASE ~(u = t /\ d = c)
    <3>1. call'[u][d] = call[u][d] /\ wrote'[u][d] = wrote[u][d]
      BY <2>2, <1>5
    <3>2. CallIsTrue(u, d)
      BY DEF RunnerInv, CallsAreTrue
    <3> QED
      BY <3>1, <3>2, <1>2 DEF CallIsTrue, IsStaged
  <2> QED
    BY <2>1, <2>2
<1>15. RowsAreEarned'
  BY <1>2 DEF RunnerInv, RowsAreEarned, RowIsEarned
<1>16. ExitIsEarned'
  BY <1>2, NoExitYet
<1> QED
  BY <1>9, <1>11, <1>12, <1>13, <1>14, <1>15, <1>16 DEF RunnerInv

\* A child is gone: its scope goes with it, and the call has ended or is lost.
LEMMA ChildIsGone ==
    ASSUME RunnerInv, NEW t \in Cases, NEW c \in Compiler, NEW outcome,
           exit = NoExit, <<t, c>> \in alive,
           alive' = alive \ {<<t, c>>},
           call' = [call EXCEPT ![t][c] = outcome],
           disk' = Removed(c, call[t][c].scope),
           UNCHANGED <<selected, counter, wrote, row, truth, exit>>,
           outcome.stage \in {"ended", "lost"},
           outcome.stage = "ended" =>
               outcome.products = {f \in wrote[t][c] : ~IsStaged(f, t)} /\ outcome.outcome \in Endings,
           outcome.stage = "lost" => outcome.reason \in {"timeout", "crash"}
    PROVE  RunnerInv'
<1> DEFINE scope == call[t][c].scope
<1>1. call'[t][c] = outcome
  BY DEF RunnerInv, RunnerTypes
<1>2. \A u \in Cases, d \in Compiler : <<u, d>> # <<t, c>> => call'[u][d] = call[u][d]
  BY DEF RunnerInv, RunnerTypes
<1>3. \A d \in Compiler : d # c => disk'[d] = disk[d]
  BY DEF RunnerInv, RunnerTypes, Removed
<1>4. disk'[c] = [s \in DOMAIN disk[c] \ {scope} |-> disk[c][s]]
  BY DEF RunnerInv, RunnerTypes, Removed
<1>5. /\ DOMAIN disk'[c] = DOMAIN disk[c] \ {scope}
      /\ \A s \in DOMAIN disk[c] : s # scope => disk'[c][s] = disk[c][s]
  BY <1>4
<1>6. \A u \in Cases, d \in Compiler :
          <<u, d>> \in alive' => <<u, d>> \in alive /\ <<u, d>> # <<t, c>>
  OBVIOUS
<1>7. RunnerTypes'
  <2>1. call' = [u \in Cases |-> [d \in Compiler |-> call'[u][d]]]
    <3>1. call = [u \in Cases |-> [d \in Compiler |-> call[u][d]]]
      BY DEF RunnerInv, RunnerTypes
    <3>2. call' = [call EXCEPT ![t] = [call[t] EXCEPT ![c] = outcome]]
      OBVIOUS
    <3>3. [call[t] EXCEPT ![c] = outcome] = [d \in Compiler |-> IF d = c THEN outcome ELSE call[t][d]]
      BY <3>1
    <3>4. call' = [u \in Cases |-> IF u = t THEN [d \in Compiler |-> IF d = c THEN outcome ELSE call[t][d]]
                                            ELSE [d \in Compiler |-> call[u][d]]]
      BY <3>1, <3>2, <3>3
    <3> QED
      BY <3>4
  <2>2. disk' = [d \in Compiler |-> disk'[d]]
    BY DEF RunnerInv, RunnerTypes, Removed
  <2>3. alive' \subseteq Cases \X Compiler
    BY DEF RunnerInv, RunnerTypes
  <2> QED
    BY <2>1, <2>2, <2>3 DEF RunnerInv, RunnerTypes
<1>8. ScopesAreOwn'
  <2> SUFFICES ASSUME NEW u \in Cases, NEW d \in Compiler, <<u, d>> \in alive'
               PROVE  ScopeIsOwn(u, d)'
    BY DEF ScopesAreOwn, ScopeIsOwn
  <2>1. <<u, d>> \in alive /\ <<u, d>> # <<t, c>>
    BY <1>6
  <2>2. call'[u][d] = call[u][d]
    BY <2>1, <1>2
  <2>3. ScopeIsOwn(u, d)
    BY DEF RunnerInv, ScopesAreOwn
  <2>4. d = c => u # t
    BY <2>1
  <2>5. d = c => call[u][d].scope # scope
    BY <2>1, <2>4 DEF RunnerInv, ScopesAreApart
  <2>6. /\ disk'[d][call[u][d].scope] = disk[d][call[u][d].scope]
        /\ call[u][d].scope \in DOMAIN disk'[d]
    BY <2>1, <2>3, <2>5, <1>3, <1>5 DEF ScopeIsOwn
  <2> QED
    BY <2>1, <2>2, <2>3, <2>6 DEF ScopeIsOwn, Over
<1>9. ScopesAreApart'
  BY <1>2, <1>6 DEF RunnerInv, ScopesAreApart
<1>10. ScopesAreUsed'
  <2> SUFFICES ASSUME NEW d \in Compiler, NEW s \in DOMAIN disk'[d]
               PROVE  /\ s \in Nat /\ s < counter[d]
                      /\ \E u \in Cases : <<u, d>> \in alive' /\ call'[u][d].scope = s
    BY DEF ScopesAreUsed
  <2>1. s \in DOMAIN disk[d] /\ (d = c => s # scope)
    BY <1>3, <1>5
  <2>2. PICK u \in Cases : <<u, d>> \in alive /\ call[u][d].scope = s
    BY <2>1 DEF RunnerInv, ScopesAreUsed
  <2>3. <<u, d>> # <<t, c>>
    BY <2>1, <2>2
  <2>4. <<u, d>> \in alive' /\ call'[u][d].scope = s
    BY <2>2, <2>3, <1>2
  <2> QED
    BY <2>1, <2>4 DEF RunnerInv, ScopesAreUsed
<1>11. CallsAreTrue'
  <2> SUFFICES ASSUME NEW u \in Cases, NEW d \in Compiler PROVE CallIsTrue(u, d)'
    BY DEF CallsAreTrue
  <2>1. CASE u = t /\ d = c
    <3>1. t \in selected.supported
      BY DEF RunnerInv, CallsAreTrue, CallIsTrue, ScopesAreOwn, ScopeIsOwn
    <3> QED
      BY <2>1, <3>1, <1>1 DEF CallIsTrue, IsStaged
  <2>2. CASE ~(u = t /\ d = c)
    <3>1. call'[u][d] = call[u][d]
      BY <2>2, <1>2
    <3>2. CallIsTrue(u, d)
      BY DEF RunnerInv, CallsAreTrue
    <3> QED
      BY <3>1, <3>2 DEF CallIsTrue, IsStaged
  <2> QED
    BY <2>1, <2>2
<1>12. RowsAreEarned'
  BY DEF RunnerInv, RowsAreEarned, RowIsEarned
<1>13. ExitIsEarned'
  BY NoExitYet
<1> QED
  BY <1>7, <1>8, <1>9, <1>10, <1>11, <1>12, <1>13 DEF RunnerInv

\* What is collected of a child that ended is what it wrote, but for the inputs.
LEMMA ChildEndsStep ==
    ASSUME RunnerInv, NEW t \in Cases, NEW c \in Compiler, ChildEnds(t, c)
    PROVE  RunnerInv'
<1>1. PICK ending \in Endings :
          call' = [call EXCEPT ![t][c] = [stage |-> "ended", outcome |-> ending, products |-> Products(t, c)]]
  BY DEF ChildEnds
<1>2. /\ exit = NoExit /\ <<t, c>> \in alive /\ call[t][c].stage = "wrote"
      /\ alive' = alive \ {<<t, c>>}
      /\ disk' = Removed(c, call[t][c].scope)
      /\ UNCHANGED <<selected, counter, wrote, row, truth, exit>>
  BY DEF ChildEnds
<1>3. Files(c, call[t][c].scope) = Over(Staged(t), wrote[t][c])
  BY <1>2 DEF RunnerInv, ScopesAreOwn, ScopeIsOwn, Files
<1>4. Products(t, c) = {f \in wrote[t][c] : ~IsStaged(f, t)}
  <2>1. \A f \in Over(Staged(t), wrote[t][c]) : ~IsStaged(f, t) => f \in wrote[t][c]
    BY DEF Over, IsStaged
  <2>2. wrote[t][c] \subseteq Over(Staged(t), wrote[t][c])
    BY DEF Over
  <2> QED
    BY <2>1, <2>2, <1>3 DEF Products
<1>5. RunnerInv'
  <2> DEFINE outcome == [stage |-> "ended", outcome |-> ending, products |-> Products(t, c)]
  <2>1. /\ outcome.stage = "ended" /\ outcome.outcome \in Endings
        /\ outcome.products = {f \in wrote[t][c] : ~IsStaged(f, t)}
    BY <1>4
  <2>2. call' = [call EXCEPT ![t][c] = outcome]
    BY <1>1
  <2> HIDE DEF outcome
  <2> QED
    BY <2>1, <2>2, <1>2, ChildIsGone
<1> QED
  BY <1>5

\* Of a child that was killed nothing is collected.
LEMMA ChildIsKilledStep ==
    ASSUME RunnerInv, NEW t \in Cases, NEW c \in Compiler, ChildIsKilled(t, c)
    PROVE  RunnerInv'
<1>1. PICK reason \in {"timeout", "crash"} :
          call' = [call EXCEPT ![t][c] = [stage |-> "lost", reason |-> reason]]
  BY DEF ChildIsKilled
<1>2. /\ exit = NoExit /\ <<t, c>> \in alive
      /\ alive' = alive \ {<<t, c>>}
      /\ disk' = Removed(c, call[t][c].scope)
      /\ UNCHANGED <<selected, counter, wrote, row, truth, exit>>
  BY DEF ChildIsKilled
<1> DEFINE outcome == [stage |-> "lost", reason |-> reason]
<1>3. outcome.stage = "lost" /\ outcome.reason \in {"timeout", "crash"}
  OBVIOUS
<1>4. call' = [call EXCEPT ![t][c] = outcome]
  BY <1>1
<1> HIDE DEF outcome
<1> QED
  BY <1>2, <1>3, <1>4, ChildIsGone

\* A settled case has no children; its row is earned, and its calls are forgotten.
LEMMA RecordStep ==
    ASSUME RunnerInv, NEW t \in Cases, Record(t)
    PROVE  RunnerInv'
<1>1. /\ call' = [call EXCEPT ![t] = [c \in Compiler |-> NotCalled]]
      /\ wrote' = [wrote EXCEPT ![t] = [c \in Compiler |-> {}]]
      /\ truth' = [truth EXCEPT ![t] = Agree(t)]
      /\ UNCHANGED <<selected, counter, disk, alive, exit>>
      /\ exit = NoExit /\ Settled(t)
  BY DEF Record
<1>2. \A u \in Cases : u # t => row'[u] = row[u] /\ truth'[u] = truth[u]
  BY DEF RunnerInv, RunnerTypes, Record
<1>3. \A u \in Cases, c \in Compiler : u # t => call'[u][c] = call[u][c] /\ wrote'[u][c] = wrote[u][c]
  BY <1>1 DEF RunnerInv, RunnerTypes
<1>4. \A c \in Compiler : call'[t][c].stage = "idle"
  BY <1>1 DEF RunnerInv, RunnerTypes, NotCalled
<1>5. \A c \in Compiler : <<t, c>> \notin alive
  BY <1>1 DEF RunnerInv, ScopesAreOwn, ScopeIsOwn, Settled
<1>6. RunnerTypes'
  <2>1. call' = [u \in Cases |-> [c \in Compiler |-> call'[u][c]]]
    BY <1>1 DEF RunnerInv, RunnerTypes
  <2>2. wrote' = [u \in Cases |-> [c \in Compiler |-> wrote'[u][c]]]
    BY <1>1 DEF RunnerInv, RunnerTypes
  <2>3. row' = [u \in Cases |-> row'[u]]
    BY DEF RunnerInv, RunnerTypes, Record
  <2>4. truth' = [u \in Cases |-> truth'[u]]
    BY <1>1 DEF RunnerInv, RunnerTypes
  <2> QED
    BY <2>1, <2>2, <2>3, <2>4, <1>1 DEF RunnerInv, RunnerTypes
<1>7. ScopesAreOwn'
  <2> SUFFICES ASSUME NEW u \in Cases, NEW c \in Compiler, <<u, c>> \in alive
               PROVE  ScopeIsOwn(u, c)'
    BY <1>1 DEF ScopesAreOwn, ScopeIsOwn
  <2>1. u # t
    BY <1>5
  <2>2. call'[u][c] = call[u][c] /\ wrote'[u][c] = wrote[u][c] /\ row'[u] = row[u]
    BY <2>1, <1>2, <1>3
  <2>3. ScopeIsOwn(u, c)
    BY DEF RunnerInv, ScopesAreOwn
  <2> QED
    BY <2>2, <2>3, <1>1 DEF ScopeIsOwn, Over
<1>8. \A u \in Cases, c \in Compiler : <<u, c>> \in alive => call'[u][c].scope = call[u][c].scope
  BY <1>3, <1>5
<1>14. ScopesAreApart'
  BY <1>1, <1>8 DEF RunnerInv, ScopesAreApart
<1>9. ScopesAreUsed'
  <2> SUFFICES ASSUME NEW c \in Compiler, NEW s \in DOMAIN disk[c]
               PROVE  /\ s \in Nat /\ s < counter[c]
                      /\ \E u \in Cases : <<u, c>> \in alive /\ call'[u][c].scope = s
    BY <1>1 DEF ScopesAreUsed
  <2> QED
    BY <1>8 DEF RunnerInv, ScopesAreUsed
<1>10. CallsAreTrue'
  <2> SUFFICES ASSUME NEW u \in Cases, NEW c \in Compiler PROVE CallIsTrue(u, c)'
    BY DEF CallsAreTrue
  <2>1. CASE u = t
    BY <2>1, <1>4 DEF CallIsTrue
  <2>2. CASE u # t
    <3>1. call'[u][c] = call[u][c] /\ wrote'[u][c] = wrote[u][c]
      BY <2>2, <1>3
    <3>2. CallIsTrue(u, c)
      BY DEF RunnerInv, CallsAreTrue
    <3> QED
      BY <3>1, <3>2, <1>1 DEF CallIsTrue, IsStaged
  <2> QED
    BY <2>1, <2>2
<1>11. RowsAreEarned'
  <2> SUFFICES ASSUME NEW u \in Cases PROVE RowIsEarned(u)'
    BY DEF RowsAreEarned
  <2>1. CASE u = t
    BY <2>1, RecordedIsEarned
  <2>2. CASE u # t
    BY <2>2, <1>1, <1>2 DEF RunnerInv, RowsAreEarned, RowIsEarned
  <2> QED
    BY <2>1, <2>2
<1>12. ExitIsEarned'
  BY <1>1, NoExitYet
<1> QED
  BY <1>6, <1>7, <1>14, <1>9, <1>10, <1>11, <1>12 DEF RunnerInv

\* The end of a run removes every child and scope; a success has no failures.
LEMMA EndStep ==
    ASSUME RunnerInv, EndRun \/ Interrupted
    PROVE  RunnerInv'
<1>1. /\ alive' = {} /\ disk' = [c \in Compiler |-> Empty]
      /\ UNCHANGED <<selected, call, counter, wrote, row, truth>>
  BY DEF EndRun, Interrupted, CleanUp
<1>2. RunnerTypes'
  BY <1>1 DEF RunnerInv, RunnerTypes
<1>3. ScopesAreOwn' /\ ScopesAreApart'
  BY <1>1 DEF ScopesAreOwn, ScopeIsOwn, ScopesAreApart
<1>4. ScopesAreUsed'
  <2>1. \A c \in Compiler : DOMAIN disk'[c] = {}
    BY <1>1 DEF Empty
  <2> QED
    BY <2>1 DEF ScopesAreUsed
<1>5. CallsAreTrue'
  BY <1>1 DEF RunnerInv, CallsAreTrue, CallIsTrue, IsStaged
<1>6. RowsAreEarned'
  BY <1>1 DEF RunnerInv, RowsAreEarned, RowIsEarned
<1>7. ExitIsEarned'
  <2> SUFFICES ASSUME exit' = 0, NEW t \in Cases
               PROVE  t \in selected.supported /\ truth[t]
    BY <1>1 DEF ExitIsEarned
  <2>1. ~HasNonPass("js") /\ ~HasNonPass("dts")
    BY DEF EndRun, Interrupted
  <2>2. row[t]["js"] \in {"pass", "skip"} /\ row[t]["dts"] \in {"pass", "skip"}
    BY <2>1 DEF HasNonPass
  <2> QED
    BY <2>2 DEF RunnerInv, RowsAreEarned, RowIsEarned
<1> QED
  BY <1>2, <1>3, <1>4, <1>5, <1>6, <1>7 DEF RunnerInv

LEMMA RunnerStepInv == RunnerInv /\ [EmitNext]_emitVars => RunnerInv'
<1> SUFFICES ASSUME RunnerInv, [EmitNext]_emitVars PROVE RunnerInv'
  OBVIOUS
<1>1. ASSUME NEW t \in Cases, Begin(t) PROVE RunnerInv'
  BY <1>1, BeginUnsupported, BeginRootless, BeginChildren
<1>2. CASE CallNext
  <2>1. PICK t \in Cases, c \in Compiler : ChildEnds(t, c) \/ ChildIsKilled(t, c)
    BY <1>2 DEF CallNext
  <2>2. CASE ChildEnds(t, c)
    BY <2>2, ChildEndsStep
  <2>3. CASE ChildIsKilled(t, c)
    BY <2>3, ChildIsKilledStep
  <2> QED
    BY <2>1, <2>2, <2>3
<1>3. CASE UNCHANGED emitVars
  <2>1. UNCHANGED <<selected, call, counter, disk, alive, wrote, row, truth, exit>>
    BY <1>3 DEF emitVars
  <2>2. RunnerTypes'
    BY <2>1 DEF RunnerInv, RunnerTypes
  <2>3. ScopesAreOwn' /\ ScopesAreApart' /\ ScopesAreUsed'
    BY <2>1 DEF RunnerInv, ScopesAreOwn, ScopeIsOwn, Over, ScopesAreApart, ScopesAreUsed
  <2>4. CallsAreTrue'
    BY <2>1 DEF RunnerInv, CallsAreTrue, CallIsTrue, IsStaged
  <2>5. RowsAreEarned' /\ ExitIsEarned'
    BY <2>1 DEF RunnerInv, RowsAreEarned, RowIsEarned, ExitIsEarned
  <2> QED
    BY <2>2, <2>3, <2>4, <2>5 DEF RunnerInv
<1> QED
  BY <1>1, <1>2, <1>3, ChildWritesStep, RecordStep, EndStep DEF EmitNext

-----------------------------------------------------------------------------
(* The comparison: the theorem *)

\* Each scope of a compiler is that of one of its children.
LEMMA ScopesAreFew ==
    ASSUME RunnerInv, NEW c \in Compiler
    PROVE  Cardinality(DOMAIN disk[c]) <= Cardinality({child \in alive : child[2] = c})
<1> DEFINE S == {child \in alive : child[2] = c}
           f == [child \in S |-> call[child[1]][c].scope]
<1>1. IsFiniteSet(Cases \X Compiler)
  <2>1. IsFiniteSet(Compiler)
    <3>1. IsFiniteSet({} \cup {"oracle"})
      BY FS_EmptySet, FS_AddElement
    <3>2. IsFiniteSet(({} \cup {"oracle"}) \cup {"tsz"})
      BY <3>1, FS_AddElement
    <3>3. Compiler = ({} \cup {"oracle"}) \cup {"tsz"}
      BY DEF Compiler
    <3> QED
      BY <3>2, <3>3
  <2> QED
    BY <2>1, FS_Product, RunAssumption
<1>2. S \subseteq Cases \X Compiler
  BY DEF RunnerInv, RunnerTypes
<1>3. IsFiniteSet(S)
  BY <1>1, <1>2, FS_Subset
<1>4. \A s \in DOMAIN disk[c] : \E child \in S : f[child] = s
  <2> SUFFICES ASSUME NEW s \in DOMAIN disk[c] PROVE \E child \in S : f[child] = s
    OBVIOUS
  <2>1. PICK t \in Cases : <<t, c>> \in alive /\ call[t][c].scope = s
    BY DEF RunnerInv, ScopesAreUsed
  <2>2. <<t, c>> \in S /\ f[<<t, c>>] = s
    BY <2>1
  <2> QED
    BY <2>2
<1>5. \A child \in S : f[child] \in DOMAIN disk[c]
  <2> SUFFICES ASSUME NEW child \in S PROVE call[child[1]][c].scope \in DOMAIN disk[c]
    OBVIOUS
  <2>1. child = <<child[1], c>> /\ child[1] \in Cases /\ <<child[1], c>> \in alive
    BY <1>2
  <2> QED
    BY <2>1 DEF RunnerInv, ScopesAreOwn, ScopeIsOwn
<1>6. f \in Surjection(S, DOMAIN disk[c])
  BY <1>4, <1>5 DEF Surjection
<1> QED
  BY <1>3, <1>6, FS_Surjection

LEMMA RunnerInvEarns == RunnerInv => ComparisonIsEarned
<1> SUFFICES ASSUME RunnerInv PROVE ComparisonIsEarned
  OBVIOUS
<1>1. \A child \in alive : row[child[1]] = NoRow /\ exit = NoExit
  <2> SUFFICES ASSUME NEW child \in alive PROVE row[child[1]] = NoRow /\ exit = NoExit
    OBVIOUS
  <2>1. child = <<child[1], child[2]>> /\ child[1] \in Cases /\ child[2] \in Compiler
    BY DEF RunnerInv, RunnerTypes
  <2> QED
    BY <2>1 DEF RunnerInv, ScopesAreOwn, ScopeIsOwn
<1> QED
  BY <1>1, ScopesAreFew DEF ComparisonIsEarned, RecordedIsOver, RunnerInv

\* A run of the emit harness succeeds only if each of its cases was compared and its two
\* compilers did the same, and no child or scope outlives its row, whatever the cases,
\* the concurrency and the children are (runner.ts, runTest and main; cli-transpiler.ts,
\* CliTranspiler.transpile).
THEOREM SuccessIsEarned == EmitSpec => []ComparisonIsEarned
<1> QED
  BY RunnerInitInv, RunnerStepInv, RunnerInvEarns, PTL DEF EmitSpec

-----------------------------------------------------------------------------
(* The discovery: the inductive invariant *)

\* The baselines a run was asked for.
Asked == Retained({b \in Listing(pin) : mode.dtsOnly => HasDts(b, pin)}, mode.max)

CorpusTypes ==
    /\ pin \in 1..Pins
    /\ step \in {"idle", "bin", "idx", "meta", "list", "read", "found"}

\* The declaration cache is true of the checkouts its entries are stamped with.
CacheIsTrue == \A b \in DOMAIN dtsCache : dtsCache[b].hasDts = HasDts(b, dtsCache[b].stamp)

\* Unless the last build was cut short, the blob is of one checkout outside a build; a
\* build has no reader, and its files are of the present checkout as far as it has come.
BlobIsWhole ==
    /\ ~cut /\ step \notin {"idx", "meta"} =>
           meta = {} \/ (bin = idx /\ bin \in 1..Pins /\ meta = Listing(bin))
    /\ step \in {"bin", "idx", "meta"} => blob = NoBlob
    /\ step = "idx" => bin = pin
    /\ step = "meta" => bin = pin /\ idx = pin
    /\ step \in {"list", "read", "found"} /\ ~cut => blob = NoBlob \/ (blob.bin = pin /\ blob.idx = pin)

\* What was found in a test file is what is there, unless some reader of it failed.
ParsedIsTrue == \A f \in DOMAIN parsed : f \in failures \/ parsed[f] = Directives(f)

\* The candidates that were read are the cases.
ReadingIsKept ==
    /\ step \in {"idle", "read", "found"} \/ DOMAIN testCases = {}
    /\ step \in {"read", "found"} =>
           /\ DOMAIN reading = Asked
           /\ DOMAIN testCases = {b \in DOMAIN reading : reading[b] = "done"}
    /\ step = "found" => \A b \in DOMAIN reading : reading[b] = "done"

CorpusInv ==
    /\ CorpusTypes /\ CacheIsTrue /\ BlobIsWhole /\ ParsedIsTrue /\ ReadingIsKept
    /\ CasesAreWhole

-----------------------------------------------------------------------------
(* The discovery: every step keeps the invariant *)

LEMMA CorpusInitInv == CorpusInit => CorpusInv
<1> SUFFICES ASSUME CorpusInit PROVE CorpusInv
  OBVIOUS
<1>1. DOMAIN dtsCache = {} /\ DOMAIN parsed = {} /\ DOMAIN testCases = {}
  BY DEF CorpusInit, Nothing
<1>2. CorpusTypes
  BY ListingAssumption DEF CorpusInit, CorpusTypes
<1>3. BlobIsWhole
  BY DEF CorpusInit, BlobIsWhole
<1>4. CacheIsTrue /\ ParsedIsTrue
  BY <1>1 DEF CacheIsTrue, ParsedIsTrue
<1>5. ReadingIsKept
  BY <1>1 DEF CorpusInit, ReadingIsKept
<1> QED
  BY <1>1, <1>2, <1>3, <1>4, <1>5 DEF CorpusInv, CasesAreWhole

\* What the cache says of a baseline at the present checkout is so.
LEMMA EmitsDtsIsTrue ==
    ASSUME CorpusInv, NEW b
    PROVE  EmitsDts(b) = HasDts(b, pin)
<1>1. CASE Cached(b)
  BY <1>1 DEF CorpusInv, CacheIsTrue, EmitsDts, Cached
<1>2. CASE ~Cached(b)
  BY <1>2 DEF EmitsDts
<1> QED
  BY <1>1, <1>2

\* A case that is made of what a test file holds, or after a failure to read it, is whole.
LEMMA CaseIsMadeWhole ==
    ASSUME CorpusInv, step = "read", NEW b, NEW directives, NEW failed \in BOOLEAN,
           failed \/ directives = Directives(TestPath(b))
    PROVE  CaseIsWhole(b, TestCase(b, AllOptions(b, directives), failed))
<1> DEFINE options == AllOptions(b, directives)
           r == TestCase(b, options, failed)
           file == TestPath(b)
<1>1. r.text = TextOf(b) /\ r.options = options
  BY DEF TestCase
<1>4. r.unsupported <=> IsUnsupported(options, failed)
  BY DEF TestCase
<1>2. TextOf(b) = [pin |-> pin, of |-> b] \/ (cut /\ blob # NoBlob)
  <2>1. CASE blob = NoBlob
    BY <2>1 DEF TextOf, InBlob
  <2>2. CASE blob # NoBlob /\ ~cut
    BY <2>2 DEF CorpusInv, BlobIsWhole, TextOf
  <2> QED
    BY <2>1, <2>2
<1>3. ASSUME ~IsUnsupported(options, failed) PROVE OptionsAreWhole(b, options)
  <2>1. directives = Directives(file)
    BY <1>3 DEF IsUnsupported
  <2>2. options = Resolved(Embedded(file), Directives(file), Variant(b))
    BY <2>1 DEF AllOptions
  <2>3. DOMAIN options = DOMAIN Embedded(file) \cup DOMAIN Directives(file) \cup DOMAIN Variant(b)
    BY <2>2 DEF Resolved
  <2>4. \A key \in DOMAIN options :
            options[key] = IF key \in DOMAIN Variant(b) THEN Variant(b)[key]
                           ELSE IF key \in DOMAIN Directives(file) THEN Directives(file)[key]
                           ELSE Embedded(file)[key]
    BY <2>2 DEF Resolved
  <2>5. \A key \in DOMAIN options :
            options[key] = CASE key \in DOMAIN Variant(b) -> Variant(b)[key]
                             [] key \notin DOMAIN Variant(b) /\ key \in DOMAIN Directives(file) -> Directives(file)[key]
                             [] OTHER -> Embedded(file)[key]
    BY <2>4
  <2>6. DOMAIN options \subseteq FORWARDED_OPTIONS \cup HARNESS_OPTIONS
    <3> HIDE DEF options
    <3>1. QUARANTINED_OPTIONS \subseteq MapOptions
      BY DEF QUARANTINED_OPTIONS, MapOptions
    <3> QED
      BY <1>3, <3>1 DEF IsUnsupported
  <2>7. \A source \in {Embedded(file), Directives(file), Variant(b)} : DOMAIN source \subseteq DOMAIN options
    BY <2>3
  <2> HIDE DEF options
  <2> QED
    BY <2>5, <2>6, <2>7 DEF OptionsAreWhole
<1> HIDE DEF options, r
<1>5. TextIsIts(b, r) \/ (cut /\ blob # NoBlob)
  BY <1>1, <1>2 DEF TextIsIts
<1>6. ~r.unsupported => OptionsAreWhole(b, r.options)
  BY <1>1, <1>3, <1>4
<1>7. CaseIsWhole(b, r)
  BY <1>5, <1>6 DEF CaseIsWhole
<1> QED
  BY <1>7 DEF r, options

LEMMA RepinStep ==
    ASSUME CorpusInv, Repin
    PROVE  CorpusInv'
<1>1. /\ pin' \in 1..Pins /\ step \in {"idle", "found"} /\ step' = "idle"
      /\ UNCHANGED <<bin, idx, meta, dtsCache, mode, blob, reading, parsed, failures, testCases, faults, cut>>
  BY DEF Repin
<1>2. BlobIsWhole'
  BY <1>1 DEF CorpusInv, BlobIsWhole
<1>3. CorpusTypes'
  BY <1>1 DEF CorpusTypes
<1>4. CacheIsTrue' /\ ParsedIsTrue'
  BY <1>1 DEF CorpusInv, CacheIsTrue, ParsedIsTrue
<1>5. ReadingIsKept'
  BY <1>1 DEF ReadingIsKept
<1>6. \A b \in DOMAIN testCases : CaseIsWhole(b, testCases[b])'
  BY <1>1 DEF CorpusInv, CasesAreWhole, CaseIsWhole, TextIsIts, OptionsAreWhole
<1> QED
  BY <1>1, <1>2, <1>3, <1>4, <1>5, <1>6 DEF CorpusInv, CasesAreWhole

LEMMA StartRunStep ==
    ASSUME CorpusInv, StartRun
    PROVE  CorpusInv'
<1>1. /\ reading' = Nothing /\ parsed' = Nothing /\ testCases' = Nothing
      /\ UNCHANGED <<pin, bin, idx, meta, dtsCache, faults, cut>>
      /\ step \in {"idle", "found"} /\ step' \in {"list", "bin"}
      /\ blob' = NoBlob \/ (step' = "list" /\ Fresh /\ blob' = Opened)
  BY DEF StartRun
<1>2. DOMAIN testCases' = {} /\ DOMAIN parsed' = {}
  BY <1>1 DEF Nothing
<1>3. BlobIsWhole'
  <2>1. ~cut => meta = {} \/ (bin = idx /\ bin \in 1..Pins /\ meta = Listing(bin))
    BY <1>1 DEF CorpusInv, BlobIsWhole
  <2>2. ASSUME ~cut, Fresh PROVE bin = pin /\ idx = pin
    <3>1. pin \in 1..Pins /\ meta = Listing(pin)
      BY <2>2 DEF CorpusInv, CorpusTypes, Fresh
    <3> QED
      BY <2>1, <2>2, <3>1, ListingAssumption
  <2>3. ~cut => blob' = NoBlob \/ (blob'.bin = pin /\ blob'.idx = pin)
    BY <2>2, <1>1 DEF Opened
  <2> QED
    BY <2>1, <2>3, <1>1 DEF BlobIsWhole
<1>4. CorpusTypes'
  BY <1>1 DEF CorpusInv, CorpusTypes
<1>5. CacheIsTrue' /\ ParsedIsTrue'
  BY <1>1, <1>2 DEF CorpusInv, CacheIsTrue, ParsedIsTrue
<1>6. ReadingIsKept'
  BY <1>1, <1>2 DEF ReadingIsKept
<1> QED
  BY <1>2, <1>3, <1>4, <1>5, <1>6 DEF CorpusInv, CasesAreWhole

LEMMA BuildBlobStep ==
    ASSUME CorpusInv, BuildBlob
    PROVE  CorpusInv'
<1>1. UNCHANGED <<pin, dtsCache, mode, reading, parsed, failures, testCases, faults>>
  BY DEF BuildBlob
<1>2. step \in {"bin", "idx", "meta"} /\ step' \in {"idx", "meta", "list"}
  BY DEF BuildBlob
<1>3. BlobIsWhole'
  <2>1. CASE step = "bin"
    <3>1. bin' = pin /\ step' = "idx" /\ UNCHANGED <<idx, meta, blob, cut>>
      BY <2>1 DEF BuildBlob
    <3> QED
      BY <2>1, <3>1, <1>1 DEF CorpusInv, BlobIsWhole
  <2>2. CASE step = "idx"
    <3>1. idx' = pin /\ step' = "meta" /\ UNCHANGED <<bin, meta, blob, cut>>
      BY <2>2 DEF BuildBlob
    <3> QED
      BY <2>2, <3>1, <1>1 DEF CorpusInv, BlobIsWhole
  <2>3. CASE step = "meta"
    <3>1. meta' = Listing(pin) /\ step' = "list" /\ blob' = Opened /\ UNCHANGED <<bin, idx>>
      BY <2>3 DEF BuildBlob
    <3>2. bin = pin /\ idx = pin /\ pin \in 1..Pins
      BY <2>3 DEF CorpusInv, BlobIsWhole, CorpusTypes
    <3>3. blob' = NoBlob \/ (blob'.bin = pin /\ blob'.idx = pin)
      BY <3>1, <3>2 DEF Opened
    <3> QED
      BY <3>1, <3>2, <3>3, <1>1 DEF BlobIsWhole
  <2> QED
    BY <2>1, <2>2, <2>3, <1>2
<1>4. CorpusTypes'
  BY <1>1, <1>2 DEF CorpusInv, CorpusTypes
<1>5. CacheIsTrue' /\ ParsedIsTrue'
  BY <1>1 DEF CorpusInv, CacheIsTrue, ParsedIsTrue
<1>6. DOMAIN testCases' = {}
  BY <1>1, <1>2 DEF CorpusInv, ReadingIsKept
<1>7. ReadingIsKept'
  BY <1>2, <1>6 DEF ReadingIsKept
<1> QED
  BY <1>3, <1>4, <1>5, <1>6, <1>7 DEF CorpusInv, CasesAreWhole

\* What a build that is cut short leaves is marked, or is what was there.
LEMMA CutShortLeaves ==
    ASSUME CorpusInv, CutShort
    PROVE  /\ step \in {"bin", "idx", "meta"} /\ blob = NoBlob
           /\ ~cut' => meta' = {} \/ (bin' = idx' /\ bin' \in 1..Pins /\ meta' = Listing(bin'))
<1>1. step \in {"bin", "idx", "meta"}
  BY DEF CutShort
<1>2. blob = NoBlob
  BY <1>1 DEF CorpusInv, BlobIsWhole
<1>3. ASSUME ~cut' PROVE ~cut /\ step = "bin" /\ UNCHANGED <<bin, idx, meta>>
  BY <1>3 DEF CutShort
<1> QED
  BY <1>1, <1>2, <1>3 DEF CorpusInv, BlobIsWhole

LEMMA BuildFailsStep ==
    ASSUME CorpusInv, BuildFails
    PROVE  CorpusInv'
<1>1. /\ CutShort /\ step' = "list"
      /\ UNCHANGED <<pin, dtsCache, mode, blob, reading, parsed, failures, testCases>>
  BY DEF BuildFails
<1>2. BlobIsWhole'
  BY <1>1, CutShortLeaves DEF BlobIsWhole
<1>3. CorpusTypes' /\ CacheIsTrue' /\ ParsedIsTrue'
  BY <1>1 DEF CorpusInv, CorpusTypes, CacheIsTrue, ParsedIsTrue
<1>4. DOMAIN testCases' = {}
  BY <1>1, CutShortLeaves DEF CorpusInv, ReadingIsKept
<1>5. ReadingIsKept'
  BY <1>1, <1>4 DEF ReadingIsKept
<1> QED
  BY <1>2, <1>3, <1>4, <1>5 DEF CorpusInv, CasesAreWhole

LEMMA DieStep ==
    ASSUME CorpusInv, Die
    PROVE  CorpusInv'
<1>1. /\ step' = "idle"
      /\ CutShort \/ (step \in {"list", "read"} /\ UNCHANGED <<bin, idx, meta, cut>>)
      /\ UNCHANGED <<pin, dtsCache, mode, blob, reading, parsed, failures, testCases>>
  BY DEF Die
<1>2. BlobIsWhole'
  <2>1. CASE CutShort
    BY <2>1, <1>1, CutShortLeaves DEF BlobIsWhole
  <2>2. CASE step \in {"list", "read"} /\ UNCHANGED <<bin, idx, meta, cut>>
    BY <2>2, <1>1 DEF CorpusInv, BlobIsWhole
  <2> QED
    BY <2>1, <2>2, <1>1
<1>3. CorpusTypes' /\ CacheIsTrue' /\ ParsedIsTrue' /\ ReadingIsKept'
  BY <1>1 DEF CorpusInv, CorpusTypes, CacheIsTrue, ParsedIsTrue, ReadingIsKept
<1>4. \A b \in DOMAIN testCases : CaseIsWhole(b, testCases[b])'
  BY <1>1 DEF CorpusInv, CasesAreWhole, CaseIsWhole, TextIsIts, OptionsAreWhole
<1> QED
  BY <1>1, <1>2, <1>3, <1>4 DEF CorpusInv, CasesAreWhole

LEMMA ListStep ==
    ASSUME CorpusInv, List
    PROVE  CorpusInv'
<1>1. /\ step = "list" /\ step' = "read"
      /\ dtsCache' = IF mode.dtsOnly THEN Remembered ELSE dtsCache
      /\ UNCHANGED <<pin, bin, idx, meta, mode, blob, parsed, failures, testCases, faults, cut>>
  BY DEF List
<1>2. reading' = [b \in Asked |-> "queued"]
  <2>1. {b \in Listing(pin) : mode.dtsOnly => EmitsDts(b)} = {b \in Listing(pin) : mode.dtsOnly => HasDts(b, pin)}
    BY EmitsDtsIsTrue
  <2> QED
    BY <2>1 DEF List, Asked
<1>3. CacheIsTrue'
  <2>1. CASE mode.dtsOnly
    <3> SUFFICES ASSUME NEW b \in DOMAIN dtsCache'
                 PROVE  dtsCache'[b].hasDts = HasDts(b, dtsCache'[b].stamp)
      BY DEF CacheIsTrue
    <3>1. dtsCache' = Remembered
      BY <1>1, <2>1
    <3>2. CASE b \in Listing(pin)
      <4>1. dtsCache'[b] = [stamp |-> pin, hasDts |-> EmitsDts(b)]
        BY <3>1, <3>2 DEF Remembered
      <4>2. EmitsDts(b) = HasDts(b, pin)
        BY EmitsDtsIsTrue
      <4> QED
        BY <4>1, <4>2
    <3>3. CASE b \notin Listing(pin)
      <4>1. b \in DOMAIN dtsCache /\ dtsCache'[b] = dtsCache[b]
        BY <3>1, <3>3 DEF Remembered
      <4> QED
        BY <4>1 DEF CorpusInv, CacheIsTrue
    <3> QED
      BY <3>2, <3>3
  <2>2. CASE ~mode.dtsOnly
    BY <2>2, <1>1 DEF CorpusInv, CacheIsTrue
  <2> QED
    BY <2>1, <2>2
<1>4. BlobIsWhole'
  BY <1>1 DEF CorpusInv, BlobIsWhole
<1>5. CorpusTypes' /\ ParsedIsTrue'
  BY <1>1 DEF CorpusInv, CorpusTypes, ParsedIsTrue
<1>6. DOMAIN testCases' = {}
  BY <1>1 DEF CorpusInv, ReadingIsKept
<1>7. ReadingIsKept'
  <2>1. Asked' = Asked
    BY <1>1 DEF Asked, Retained
  <2>2. DOMAIN reading' = Asked /\ \A b \in Asked : reading'[b] # "done"
    BY <1>2
  <2> QED
    BY <2>1, <2>2, <1>1, <1>6 DEF ReadingIsKept
<1> QED
  BY <1>3, <1>4, <1>5, <1>6, <1>7 DEF CorpusInv, CasesAreWhole

\* A candidate becomes a case that is whole.
LEMMA CaseIsAdded ==
    ASSUME CorpusInv, step = "read", NEW b \in DOMAIN reading, NEW r, CaseIsWhole(b, r),
           testCases' = With(testCases, b, r),
           reading' = [reading EXCEPT ![b] = "done"],
           ParsedIsTrue',
           UNCHANGED <<pin, bin, idx, meta, dtsCache, step, mode, blob, cut>>
    PROVE  CorpusInv'
<1>1. /\ DOMAIN testCases' = DOMAIN testCases \cup {b} /\ testCases'[b] = r
      /\ \A x \in DOMAIN testCases : x # b => testCases'[x] = testCases[x]
  BY DEF With
<1>2. /\ DOMAIN reading' = DOMAIN reading /\ reading'[b] = "done"
      /\ \A x \in DOMAIN reading : x # b => reading'[x] = reading[x]
  OBVIOUS
<1>3. ReadingIsKept'
  <2>1. Asked' = Asked
    BY DEF Asked, Retained
  <2>2. DOMAIN reading = Asked /\ DOMAIN testCases = {x \in DOMAIN reading : reading[x] = "done"}
    BY DEF CorpusInv, ReadingIsKept
  <2>3. DOMAIN testCases' = {x \in DOMAIN reading' : reading'[x] = "done"}
    BY <2>2, <1>1, <1>2
  <2> QED
    BY <2>1, <2>2, <2>3, <1>2 DEF ReadingIsKept
<1>4. BlobIsWhole'
  BY DEF CorpusInv, BlobIsWhole
<1>5. CorpusTypes' /\ CacheIsTrue'
  BY DEF CorpusInv, CorpusTypes, CacheIsTrue
<1>6. \A x \in DOMAIN testCases' : CaseIsWhole(x, testCases'[x])
  BY <1>1 DEF CorpusInv, CasesAreWhole
<1>7. \A x \in DOMAIN testCases' : CaseIsWhole(x, testCases[x])'
  BY <1>6 DEF CaseIsWhole, TextIsIts, OptionsAreWhole
<1> QED
  BY <1>3, <1>4, <1>5, <1>7 DEF CorpusInv, CasesAreWhole

LEMMA ReadBaselineStep ==
    ASSUME CorpusInv, NEW b \in DOMAIN reading, ReadBaseline(b)
    PROVE  CorpusInv'
<1>1. /\ step = "read" /\ reading[b] = "queued"
      /\ UNCHANGED <<pin, bin, idx, meta, dtsCache, step, mode, blob, parsed, failures, faults, cut>>
  BY DEF ReadBaseline
<1>2. ParsedIsTrue'
  BY <1>1 DEF CorpusInv, ParsedIsTrue
<1>3. CASE TestPath(b) \in DOMAIN parsed
  <2> DEFINE failed == TestPath(b) \in failures
             r == TestCase(b, AllOptions(b, parsed[TestPath(b)]), failed)
  <2>1. failed \/ parsed[TestPath(b)] = Directives(TestPath(b))
    BY <1>3 DEF CorpusInv, ParsedIsTrue
  <2>2. CaseIsWhole(b, r)
    <3>1. failed \in BOOLEAN
      OBVIOUS
    <3> HIDE DEF failed
    <3> QED
      BY <2>1, <3>1, <1>1, CaseIsMadeWhole
  <2>3. testCases' = With(testCases, b, r) /\ reading' = [reading EXCEPT ![b] = "done"]
    BY <1>3 DEF ReadBaseline
  <2> HIDE DEF r
  <2> QED
    BY <2>2, <2>3, <1>1, <1>2, CaseIsAdded
<1>4. CASE TestPath(b) \notin DOMAIN parsed
  <2>1. reading' = [reading EXCEPT ![b] = "test"] /\ testCases' = testCases
    BY <1>4 DEF ReadBaseline
  <2>2. /\ DOMAIN reading' = DOMAIN reading
        /\ \A x \in DOMAIN reading : reading'[x] = "done" <=> reading[x] = "done"
    BY <2>1, <1>1
  <2>3. ReadingIsKept'
    <3>1. Asked' = Asked
      BY <1>1 DEF Asked, Retained
    <3> QED
      BY <3>1, <2>1, <2>2, <1>1 DEF CorpusInv, ReadingIsKept
  <2>4. BlobIsWhole'
    BY <1>1 DEF CorpusInv, BlobIsWhole
  <2>5. CorpusTypes' /\ CacheIsTrue'
    BY <1>1 DEF CorpusInv, CorpusTypes, CacheIsTrue
  <2>6. \A x \in DOMAIN testCases : CaseIsWhole(x, testCases[x])'
    BY <2>1, <1>1 DEF CorpusInv, CasesAreWhole, CaseIsWhole, TextIsIts, OptionsAreWhole
  <2> QED
    BY <2>1, <2>3, <2>4, <2>5, <2>6, <1>2 DEF CorpusInv, CasesAreWhole
<1> QED
  BY <1>3, <1>4

LEMMA TestReadStep ==
    ASSUME CorpusInv, NEW b \in DOMAIN reading, TestRead(b)
    PROVE  CorpusInv'
<1> DEFINE r == TestCase(b, AllOptions(b, Directives(TestPath(b))), FALSE)
<1>1. /\ step = "read"
      /\ parsed' = With(parsed, TestPath(b), Directives(TestPath(b)))
      /\ testCases' = With(testCases, b, r)
      /\ reading' = [reading EXCEPT ![b] = "done"]
      /\ UNCHANGED <<pin, bin, idx, meta, dtsCache, step, mode, blob, failures, faults, cut>>
  BY DEF TestRead
<1>2. CaseIsWhole(b, r)
  BY <1>1, CaseIsMadeWhole
<1>3. ParsedIsTrue'
  BY <1>1 DEF CorpusInv, ParsedIsTrue, With
<1> HIDE DEF r
<1> QED
  BY <1>1, <1>2, <1>3, CaseIsAdded

LEMMA TestUnreadableStep ==
    ASSUME CorpusInv, NEW b \in DOMAIN reading, TestUnreadable(b)
    PROVE  CorpusInv'
<1> DEFINE r == TestCase(b, AllOptions(b, Nothing), TRUE)
<1>1. /\ step = "read"
      /\ failures' = failures \cup {TestPath(b)}
      /\ parsed' = With(parsed, TestPath(b), Nothing)
      /\ testCases' = With(testCases, b, r)
      /\ reading' = [reading EXCEPT ![b] = "done"]
      /\ UNCHANGED <<pin, bin, idx, meta, dtsCache, step, mode, blob, cut>>
  BY DEF TestUnreadable
<1>2. CaseIsWhole(b, r)
  BY <1>1, CaseIsMadeWhole
<1>3. ParsedIsTrue'
  BY <1>1 DEF CorpusInv, ParsedIsTrue, With
<1> HIDE DEF r
<1> QED
  BY <1>1, <1>2, <1>3, CaseIsAdded

LEMMA FoundStep ==
    ASSUME CorpusInv, Found
    PROVE  CorpusInv'
<1>1. /\ step = "read" /\ step' = "found" /\ \A b \in DOMAIN reading : reading[b] = "done"
      /\ UNCHANGED <<pin, bin, idx, meta, dtsCache, mode, blob, reading, parsed, failures, testCases, faults, cut>>
  BY DEF Found
<1>2. ReadingIsKept'
  <2>1. Asked' = Asked
    BY <1>1 DEF Asked, Retained
  <2> QED
    BY <2>1, <1>1 DEF CorpusInv, ReadingIsKept
<1>3. BlobIsWhole'
  BY <1>1 DEF CorpusInv, BlobIsWhole
<1>4. CorpusTypes' /\ CacheIsTrue' /\ ParsedIsTrue'
  BY <1>1 DEF CorpusInv, CorpusTypes, CacheIsTrue, ParsedIsTrue
<1>5. \A b \in DOMAIN testCases : CaseIsWhole(b, testCases[b])'
  BY <1>1 DEF CorpusInv, CasesAreWhole, CaseIsWhole, TextIsIts, OptionsAreWhole
<1> QED
  BY <1>1, <1>2, <1>3, <1>4, <1>5 DEF CorpusInv, CasesAreWhole

LEMMA CorpusStepInv == CorpusInv /\ [CorpusNext]_corpusVars => CorpusInv'
<1> SUFFICES ASSUME CorpusInv, [CorpusNext]_corpusVars PROVE CorpusInv'
  OBVIOUS
<1>1. CASE UNCHANGED corpusVars
  <2>1. UNCHANGED <<pin, bin, idx, meta, dtsCache, step, mode, blob, reading, parsed, failures, testCases, cut>>
    BY <1>1 DEF corpusVars
  <2>2. CorpusTypes' /\ CacheIsTrue' /\ ParsedIsTrue'
    BY <2>1 DEF CorpusInv, CorpusTypes, CacheIsTrue, ParsedIsTrue
  <2>3. BlobIsWhole'
    BY <2>1 DEF CorpusInv, BlobIsWhole
  <2>4. ReadingIsKept'
    BY <2>1 DEF CorpusInv, ReadingIsKept, Asked, Retained
  <2>5. \A b \in DOMAIN testCases : CaseIsWhole(b, testCases[b])'
    BY <2>1 DEF CorpusInv, CasesAreWhole, CaseIsWhole, TextIsIts, OptionsAreWhole
  <2> QED
    BY <2>1, <2>2, <2>3, <2>4, <2>5 DEF CorpusInv, CasesAreWhole
<1> QED
  BY <1>1, RepinStep, StartRunStep, BuildBlobStep, BuildFailsStep, DieStep, ListStep, ReadBaselineStep, TestReadStep,
     TestUnreadableStep, FoundStep DEF CorpusNext

-----------------------------------------------------------------------------
(* The discovery: the theorems *)

LEMMA CorpusInvCurrent == CorpusInv => InventoryIsCurrent
<1> SUFFICES ASSUME CorpusInv, step = "found"
             PROVE  DOMAIN testCases = Asked
  BY DEF InventoryIsCurrent, Asked
<1> QED
  BY DEF CorpusInv, ReadingIsKept

\* A run looks at exactly the baselines that are checked out and asked for, whatever an
\* earlier run or checkout left in the caches, wherever it died (runner.ts,
\* findTestCases, filterToDtsBaselines; canonical-support.ts).
THEOREM InventoryStaysCurrent == CorpusSpec => []InventoryIsCurrent
<1> QED
  BY CorpusInitInv, CorpusStepInv, CorpusInvCurrent, PTL DEF CorpusSpec

\* No case is compared with options it was not authored with, whoever failed to read its
\* test file, and none with another baseline's text, wherever the checkout was moved between
\* two runs, but from a blob whose last build was cut short: TextsAreTheCheckouts is what
\* fails of such a blob (runner.ts, readBaselineFile, findTestCases; build-baseline-blob.ts).
THEOREM CasesStayWhole == CorpusSpec => []CasesAreWhole
<1>1. CorpusInv => CasesAreWhole
  BY DEF CorpusInv
<1> QED
  BY <1>1, CorpusInitInv, CorpusStepInv, PTL DEF CorpusSpec
=============================================================================
