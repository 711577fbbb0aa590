----------------------- MODULE ForceQueriesProperties -----------------------
(***************************************************************************)
(* What the evaluator promises: its caches are pure, its verdicts hide       *)
(* nothing, and every demand unwinds completely.                            *)
(***************************************************************************)
EXTENDS ForceQueries

TypeOK ==
    /\ prog \in Program
    /\ phase \in {Passes[i] : i \in 1..6}
    /\ todo \subseteq File
    /\ control \in Control
    /\ frames \in Seq(Frame)
    /\ forceQueries \in [Query -> {Absent, Computing} \cup {Ready(t) : t \in Type}]
    /\ valueQueries \in [Query -> {Absent, Computing, Provisional} \cup {Ready(t) : t \in Type}]
    /\ parameterOverrides \in [Query -> Type \cup {None}]
    /\ references \in Seq(Query)
    /\ captures \in Seq(Completion)
    /\ current \in File \cup {NoFile}
    /\ files \in [File -> Completion]
    /\ programCompletion \in Completion
    /\ positions \subseteq Query
    /\ requiredNodes \subseteq Query
    /\ reported \subseteq Query

-----------------------------------------------------------------------------
(***************************************************************************)
(* The meaning of a query: what an evaluator with no cache, no budget and    *)
(* no recursion guard would answer in a program p under the contextual types *)
(* o known now.  A query on an unguarded cycle or over an unclaimed operand  *)
(* has no meaning.                                                           *)
(***************************************************************************)
ParameterType(o, q) == IF o[q] # None THEN o[q] ELSE Any

\* What the evaluation of q yields: a type, or a query to evaluate next.
Yield(p, o, q) == IF p.kind[q] = "parameter" THEN ParameterType(o, q) ELSE p.body[q]

\* The operands an untainted answer needs: all that the evaluation forces.
Needed(p, q) ==
    IF p.kind[q] \in {"nonclaim", "parameter"} \/ q \in p.annotated
    THEN <<>> ELSE p.operands[q]

Meaningful(p, q) ==
    /\ p.kind[q] # "nonclaim"
    /\ ~(p.kind[q] = "reference" /\ q \in p.unproductive)

\* q has a meaning once those in S have one.
Grounded(p, S, q) ==
    Meaningful(p, q) /\ \A i \in DOMAIN Needed(p, q) : Needed(p, q)[i] \in S

\* The least set of queries that holds each query it grounds, and ...
HasMeaning(p, o, q) ==
    \A S \in SUBSET Query :
        (\A r \in Query :
            Grounded(p, S, r) /\ Yield(p, o, r) \in S \cup (Plain \cup Faulty) => r \in S)
        => q \in S

\* ... the least set of those that yield t, directly or through others.
Leads(p, o, q, t) ==
    \A S \in SUBSET Query :
        (\A r \in Query : Yield(p, o, r) \in S \cup {t} => r \in S) => q \in S

Means(p, o, q, t) == t \in Plain \cup Faulty /\ HasMeaning(p, o, q) /\ Leads(p, o, q, t)

\* A remembered answer is the meaning of its query: whatever was cut off,
\* cycled, deferred or known only for one request while it was computed never
\* becomes a definitive answer (QueryState::Ready, is_cacheable_type).
ForceCachePurity ==
    \A q \in Query :
        forceQueries[q].state = "ready" => Means(prog, parameterOverrides, q, forceQueries[q].type)

\* The parameters whose type an initializer fixes, and the queries that yield the
\* type of one, directly or through others.
Contextual(p) == UNION {p.contexts[v] : v \in Query}

YieldsContextual(p, q) ==
    \A S \in SUBSET Query :
        (\A r \in Query : r \in Contextual(p) \/ p.body[r] \in S => r \in S) => q \in S

\* The precondition of ForceCachePurity: what yields the type of such a parameter is
\* request-local (deferred_result_is_query_local).  It fails for type X = typeof p.
ContextualTypesAreLocal(p) ==
    \A q \in Query : YieldsContextual(p, q) => QueryLocal(p, q)

ValueCachePurity ==
    \A q \in Query :
        valueQueries[q].state = "ready" /\ parameterOverrides[q] = None
            => Means(prog, parameterOverrides, q, valueQueries[q].type)

CachePurity == ForceCachePurity /\ ValueCachePurity

\* A definitive answer stays, in whatever order the demands come: it is never
\* replaced, no evaluation of its query starts while it stands, and after the
\* required-type pass nothing drops it.  During that pass the only one to drop it
\* is a visit of the same query that found an operand incomplete, when another
\* operand has forced the query meanwhile (visit_required_deferred).
ReadyAnswersStay ==
    [][\A q \in Query :
        forceQueries[q].state = "ready" /\ forceQueries'[q] # forceQueries[q] =>
            /\ forceQueries'[q] = Absent
            /\ phase = "required"
            /\ Running("visit") /\ Top.query = q /\ Top.state # "complete"]_vars

\* A file whose verdict is still Complete has only been answered with
\* meanings: an answer that rests on something incomplete, in this file or in
\* one it imports, shows in the verdict (require_completion, observe_file).  A
\* demand on behalf of no file answers to the program's verdict.
Verdict == IF current \in File THEN files[current] ELSE programCompletion

VerdictIsHonest ==
    (Answered("demand") \/ Answered("flush")) /\ Verdict = "complete"
        => \/ ~IsComplete(control.answer)
           \/ Means(prog, parameterOverrides, Top.query, control.answer.type)

\* No file's verdict is worse than the program's, and as long as a file is
\* current the program's is exactly the worst of them (CompletionTracker).
ProgramIsWorstFile ==
    /\ \A f \in File : Rank(files[f]) <= Rank(programCompletion)
    /\ phase \in {"required", "check"} => \E f \in File : files[f] = programCompletion

\* service.rs:44 calls the diagnostics of a file and its verdict "Semantic diagnostics and
\* the checked program's completion truth": when the session ends, the program is
\* incomplete only if some file is, since a service asks for the verdicts of files.
VerdictReachesAFile ==
    phase = "done" => \E f \in File : files[f] = programCompletion

-----------------------------------------------------------------------------
Owns(i, owner, q) == frames[i].owner = owner /\ frames[i].query = q

\* The frames that hold an open capture.
Opens(frame) ==
    \/ frame.owner \in {"force", "value"}
    \/ frame.owner = "declarator" /\ frame.stage \in {"contexts", "operands"}

OpenCaptures(fs) == {i \in DOMAIN fs : Opens(fs[i])}

\* A Computing mark stands for exactly one active call, an active call is
\* always marked, and every active call has its own open capture: no early
\* return leaves a mark or a capture behind, and no query is re-entered.
MarksAreActiveCalls ==
    /\ \A q \in Query :
        /\ forceQueries[q] = Computing <=> \E i \in DOMAIN frames : Owns(i, "force", q)
        /\ valueQueries[q] = Computing <=> \E i \in DOMAIN frames : Owns(i, "value", q)
    /\ \A i, j \in DOMAIN frames :
        frames[i].owner \in {"force", "value"} /\ Owns(j, frames[i].owner, frames[i].query) => i = j
    /\ Len(captures) = Cardinality(OpenCaptures(frames))

\* Between demands nothing of an evaluation is left.
Quiescent ==
    control.pc = "idle" => frames = <<>> /\ captures = <<>> /\ references = <<>>

\* What the Rust call stack guarantees implicitly: one root call at the bottom;
\* the eager visits below every evaluation, never above one; a parameter's own
\* value on top of the stack for as long as it is being computed.
CallsNest ==
    /\ control.pc = "idle" <=> frames = <<>>
    /\ control.pc \in {"normalise", "finish"} => Top.owner = "force"
    /\ control.pc \in {"force", "declaration", "visit"} => control.query \in Query
    /\ \A i \in DOMAIN frames : frames[i].owner \in Root <=> i = 1

VisitsComeFirst ==
    /\ \A i \in DOMAIN frames : frames[i].owner = "visit" =>
          \A j \in 1..i : frames[j].owner \in {"visit", "require"}
    /\ control.pc = "visit" => \A j \in DOMAIN frames : frames[j].owner \in {"visit", "require"}

ParametersOnTop ==
    \A i \in DOMAIN frames :
        frames[i].owner = "value" /\ prog.kind[frames[i].query] = "parameter"
            => i = Len(frames) /\ control.pc = "run"

\* The length of the reference stack a call finds, and leaves, when on top: a
\* call that is not a forcing leaves it as it was found.
Floor(frame) ==
    frame.base + (IF frame.owner = "force" /\ prog.kind[frame.query] = "reference" THEN 1 ELSE 0)

Above(i) == IF i = Len(frames) THEN Len(references) ELSE frames[i + 1].base

ReferencesNest ==
    /\ frames = <<>> => references = <<>>
    /\ \A i \in DOMAIN frames :
        /\ i = 1 => frames[i].base = 0
        /\ Above(i) >= Floor(frames[i])
        /\ frames[i].owner # "force" => Above(i) = frames[i].base

StackDiscipline == CallsNest /\ VisitsComeFirst /\ ParametersOnTop /\ ReferencesNest

\* Every call unwinds: the calls nest, marks and captures are those of active calls,
\* and nothing is left when the demand has been answered, whichever of the early
\* returns it took (force_deferred, declaration_value_type, finish_capture).
CallsUnwind == StackDiscipline /\ MarksAreActiveCalls /\ Quiescent

\* Every demand is answered: however the queries refer to each other, the
\* evaluation comes back to the pass that asked.
DemandsReturn == (control.pc # "idle") ~> (control.pc = "idle")

=============================================================================
