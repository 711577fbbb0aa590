---------------------------- MODULE ForceQueries ----------------------------
(***************************************************************************)
(* The on-demand type evaluator of one checker session (struct Checker).    *)
(*                                                                         *)
(* A deferred type is a query.  Forcing it runs a recursive evaluation that *)
(* is guarded by two query caches (force_queries for types, value_queries   *)
(* for declarations), by an expansion budget, and by a stack of completion  *)
(* captures that decides what may be remembered.  The Rust call stack is    *)
(* the variable frames; control says what the evaluator does next.          *)
(*                                                                         *)
(* Abstractions.  prog is the checked program reduced to what the evaluator *)
(* reads of it: for each query its kind, the operands its evaluation forces *)
(* in order, the type its evaluation yields (body), the file of its         *)
(* declaration, and the static facts of its declaration.  A type that is    *)
(* not a query is Plain (its whole graph is definitive) or Faulty (it holds *)
(* an error or an invalid projection).  Growing type arguments (generative  *)
(* recursion) and the named-function self query are left out.               *)
(***************************************************************************)
EXTENDS Completions, FiniteSets

CONSTANTS
    Query,      \* the deferred types of the program
    Plain,      \* the definitive types
    Faulty,     \* the types that hold an error or an invalid projection
    Any,        \* the builtin any, a definitive type
    None,       \* no type
    File,       \* the files of the program
    NoFile,     \* no demand is current
    Programs,   \* the programs a session may be asked to check
    MaxDepth    \* the expansion budget (100 in the code)

Type == Query \cup Plain \cup Faulty

\* How a query is evaluated: an alias, interface or class reference; an
\* operation on forced operands (call, construct, property, keyof, ...); a
\* binary operator; a flow reference; a value declaration; a parameter whose
\* type comes from context; and everything the checker does not claim.
Kind == {"reference", "operation", "binary", "flow", "value", "parameter", "nonclaim"}

Program ==
    [kind         : [Query -> Kind],
     operands     : [Query -> Seq(Query)],  \* forced, in order
     arguments    : [Query -> Seq(Query)],  \* authored type arguments
     body         : [Query -> Type],
     home         : [Query -> File],        \* of its declaration or its use
     context      : [Query -> Type],        \* contextual type of a parameter
     contexts     : [Query -> SUBSET Query],\* parameters an initializer fixes
     annotated    : SUBSET Query,           \* values with a type annotation
     decided      : SUBSET Query,           \* binaries one operand decides: string +
     defaulted    : SUBSET Query,           \* references with defaulted arguments
     productive   : SUBSET Query,           \* productive recursive aliases
     unproductive : SUBSET Query,           \* aliases that only name themselves
     wrapper      : SUBSET Query]           \* interface, class, rest-array references

ASSUME TypesAssumption ==
    /\ Query \cap (Plain \cup Faulty) = {}
    /\ Plain \cap Faulty = {}
    /\ Any \in Plain
    /\ None \notin Type
    /\ NoFile \notin File

\* Only parameters take their type from a context, and a parameter that does
\* has no annotation and no initializer: its value forces nothing and is any.
ParametersAreLeaves(p) ==
    \A q \in Query :
        /\ p.kind[q] = "parameter" => p.operands[q] = <<>> /\ p.contexts[q] = {} /\ p.body[q] = Any
        /\ \A r \in p.contexts[q] : p.kind[r] = "parameter"

ASSUME ProgramsAssumption ==
    Programs \subseteq Program /\ \A p \in Programs : ParametersAreLeaves(p)

ASSUME FileAssumption == File # {}

ASSUME MaxDepthAssumption == MaxDepth \in Nat

VARIABLES
    prog,               \* the checked program
    phase,              \* the pass over the program
    todo,               \* files this pass has not visited
    control,            \* what the evaluator does next
    frames,             \* the active calls, innermost last
    forceQueries,       \* force_queries
    valueQueries,       \* value_queries
    parameterOverrides, \* parameter_type_overrides
    references,         \* force_reference_stack
    captures,           \* CompletionTracker.captures
    current,            \* CompletionTracker.current_demand
    files,              \* CompletionTracker.files
    programCompletion,  \* CompletionTracker.program
    positions,          \* declarations whose type node no pass has visited yet
    requiredNodes,      \* declarations whose type node is in complete_required_type_nodes
    reported            \* declarations reported as excessively deep

vars == <<prog, phase, todo, control, frames, forceQueries, valueQueries,
          parameterOverrides, references, captures, current, files,
          programCompletion, positions, requiredNodes, reported>>

caches    == <<forceQueries, valueQueries, parameterOverrides>>
tracker   == <<captures, current, files, programCompletion>>
session   == <<prog, phase, todo, positions, requiredNodes>>

-----------------------------------------------------------------------------
\* Answers, cache entries, frames and control states.

Answer == Answers(Type, None)

Complete(t)   == [state |-> "complete", type |-> t]
Incomplete(c) == [state |-> c, type |-> None]
IsComplete(a) == a.state = "complete"

Absent      == [state |-> "absent", type |-> None]
Computing   == [state |-> "computing", type |-> None]
Provisional == [state |-> "provisional", type |-> None]
Ready(t)    == [state |-> "ready", type |-> t]

\* The calls the passes make; the others are made by a call.
Root == {"demand", "require", "declarator", "flush", "summary"}

Frame ==
    [owner : Root \cup {"force", "value", "visit"},
     query : Query,
     stage : {"contexts", "operands", "declaration", "result", "relation", "publish"},
     depth : Nat,
     next  : Nat \ {0},    \* the operand to force next
     local : BOOLEAN,      \* the result is request-local
     base  : Nat,          \* the reference-stack checkpoint
     state : Completion]   \* the verdict collected so far

NewFrame(owner, q, stage, depth) ==
    [owner |-> owner, query |-> q, stage |-> stage, depth |-> depth, next |-> 1,
     local |-> FALSE, base |-> Len(references), state |-> "complete"]

Control ==
    [pc : {"idle", "run", "force", "declaration", "visit", "normalise", "finish", "return"},
     query : Query \cup {None}, depth : Nat, answer : Answer]

Go(pc, q, depth, a) == [pc |-> pc, query |-> q, depth |-> depth, answer |-> a]

NoAnswer       == Incomplete("deferred")
Idle           == Go("idle", None, 0, NoAnswer)
Run            == Go("run", None, 0, NoAnswer)
ForceType(q, d) == Go("force", q, d, NoAnswer)
Declaration(q) == Go("declaration", q, 0, NoAnswer)
Visit(q)       == Go("visit", q, 0, NoAnswer)
Normalise(a)   == Go("normalise", None, 0, a)
Finish(a)      == Go("finish", None, 0, a)
Return(a)      == Go("return", None, 0, a)

Top     == frames[Len(frames)]
Below   == SubSeq(frames, 1, Len(frames) - 1)
Running(owner)  == control.pc = "run" /\ frames # <<>> /\ Top.owner = owner
Answered(owner) == control.pc = "return" /\ frames # <<>> /\ Top.owner = owner

ReplaceTop(frame) == frames' = [frames EXCEPT ![Len(frames)] = frame]

-----------------------------------------------------------------------------
\* What the evaluator reads of the program.

Operation == {"operation", "binary", "flow"}

\* The operands that are part of a query's identity: the type arguments of a
\* reference, the forced operands of an operation, nothing of a declaration.
Symbolic(p, q) ==
    CASE p.kind[q] = "reference" -> p.arguments[q]
      [] p.kind[q] \in Operation  -> p.operands[q]
      [] OTHER                    -> <<>>

\* DeferredType::is_query_local
LocalKind(p, q) == p.kind[q] \in {"value", "parameter", "binary", "flow"}

\* The queries reachable from q through symbolic operands, q among them.
SymbolicReach(p, q) ==
    LET Reach[r \in Query, n \in Nat] ==
            IF n = 0 THEN {r}
            ELSE {r} \cup UNION {Reach[Symbolic(p, r)[i], n - 1] : i \in DOMAIN Symbolic(p, r)}
    IN  Reach[q, Cardinality(Query)]

\* A query is request-local when its arguments were defaulted, or when it or
\* one of its symbolic operands is a declaration or a local operation.
QueryLocal(p, q) ==
    \/ q \in p.defaulted
    \/ \E r \in SymbolicReach(p, q) : LocalKind(p, r)

IsCacheable(t) == t \in Plain

\* productive_alias_edge_is_provisional: source yields the reference r while r
\* is already being expanded.
ProvisionalEdge(source, r) ==
    /\ prog.kind[r] = "reference"
    /\ \/ r \in prog.productive
       \/ prog.kind[source] = "reference" /\ source \in prog.productive /\ r \in prog.wrapper
    /\ \E i \in DOMAIN references : references[i] = r

\* A 2589 diagnostic needs a declaration to point at.
Complexity(q) ==
    IF prog.kind[q] \in {"reference", "value", "parameter"} THEN {q} ELSE {}

-----------------------------------------------------------------------------
\* CompletionTracker: observations at a checking boundary.

\* Mutant: the last verdict wins instead of the worst.
WorsenToLatest(fs, f, c) == IF f \in File THEN [fs EXCEPT ![f] = c] ELSE fs

Worsen(fs, f, c) == IF f \in File THEN [fs EXCEPT ![f] = Combine(@, c)] ELSE fs

\* Mutant: the program and the captures hear of it, the file does not.
ObserveCurrentNotFile(c) ==
    /\ captures' = Capture(captures, c)
    /\ programCompletion' = Combine(programCompletion, c)
    /\ UNCHANGED <<files, current>>

ObserveCurrent(c) ==
    /\ captures' = Capture(captures, c)
    /\ programCompletion' = Combine(programCompletion, c)
    /\ files' = Worsen(files, current, c)
    /\ UNCHANGED current

\* The capture stack is passed in: the caller may have finished a capture.
ObserveFile(caps, f, c) ==
    /\ captures' = Capture(caps, c)
    /\ programCompletion' = Combine(programCompletion, c)
    /\ files' = Worsen(Worsen(files, f, c), current, c)
    /\ UNCHANGED current

-----------------------------------------------------------------------------
\* The checking session: a required-type pass and a checking pass, each over
\* every file, with the demands each file makes; then, on behalf of no file,
\* the projections recorded for diagnostics, the summaries of the values and
\* the summaries of the default exports.

\* The authored type positions: the annotation of a value, the body of an alias.  An
\* instance of a generic alias is authored wherever it is used, any number of times.
IsInstance(q) == prog.kind[q] = "reference" /\ (prog.arguments[q] # <<>> \/ q \in prog.defaulted)
Authored == {q \in Query : q \in prog.annotated \/ (prog.kind[q] = "reference" /\ ~IsInstance(q))}

\* The required-type pass leaves a file when it has visited every position of it.
FileIsVisited == \A q \in positions : prog.home[q] # current

Passes == <<"required", "check", "flush", "values", "exports", "done">>

Init ==
    /\ prog \in Programs
    /\ phase = "required"
    /\ todo = File
    /\ control = Idle
    /\ frames = <<>>
    /\ forceQueries = [q \in Query |-> Absent]
    /\ valueQueries = [q \in Query |-> Absent]
    /\ parameterOverrides = [q \in Query |-> None]
    /\ references = <<>>
    /\ captures = <<>>
    /\ current = NoFile
    /\ files = [f \in File |-> "complete"]
    /\ programCompletion = "complete"
    /\ positions = Authored
    /\ requiredNodes = {}
    /\ reported = {}

SelectFile(f) ==
    /\ control.pc = "idle"
    /\ f \in todo /\ FileIsVisited
    /\ todo' = todo \ {f}
    /\ current' = f
    /\ UNCHANGED <<prog, phase, positions, requiredNodes, control, frames, caches, references,
                   captures, files, programCompletion, reported>>

NextPass ==
    /\ control.pc = "idle"
    /\ todo = {} /\ FileIsVisited
    /\ \E i \in 1..5 : phase = Passes[i] /\ phase' = Passes[i + 1]
    /\ todo' = IF phase = "required" THEN File ELSE {}
    /\ current' = NoFile
    /\ UNCHANGED <<prog, positions, requiredNodes, control, frames, caches, references,
                   captures, files, programCompletion, reported>>

\* A root call, on behalf of the current file if there is one.
StartRoot(owner, q, stage, step) ==
    /\ control.pc = "idle"
    /\ frames' = <<NewFrame(owner, q, stage, 0)>>
    /\ control' = step
    /\ UNCHANGED <<session, caches, references, current, files, programCompletion, reported>>

\* visit_required_type_node on a type that is authored in the current file.
RequireTypeNode(q) ==
    /\ phase = "required"
    /\ prog.home[q] = current
    /\ q \in positions \/ IsInstance(q)
    /\ StartRoot("require", q, "operands",
                 IF prog.body[q] \in Query THEN Visit(prog.body[q])
                 ELSE Return(Complete(prog.body[q])))
    /\ UNCHANGED captures

\* visit_required_function_like_expression marks a parameter that has neither
\* an annotation nor an initializer.
MarkProvisional(q) ==
    /\ control.pc = "idle" /\ phase = "required" /\ current = prog.home[q]
    /\ prog.kind[q] = "parameter"
    /\ valueQueries[q] = Absent
    /\ valueQueries' = [valueQueries EXCEPT ![q] = Provisional]
    /\ UNCHANGED <<session, control, frames, forceQueries, parameterOverrides,
                   references, tracker, reported>>

\* complete_type and the other demands of an expression or statement.
DemandType(q) ==
    /\ phase = "check" /\ current \in File
    /\ StartRoot("demand", q, "operands", ForceType(q, 0))
    /\ UNCHANGED captures

\* check_variable_declarator
CheckDeclarator(q) ==
    /\ phase = "check"
    /\ prog.kind[q] = "value" /\ prog.home[q] = current
    /\ StartRoot("declarator", q, "contexts", Run)
    /\ captures' = BeginCapture(captures)

\* flush_property_diagnostics, flush_indexed_access_diagnostics and
\* flush_construct_diagnostics force the projections the checking recorded.
FlushOrigin(q) ==
    /\ phase = "flush"
    /\ prog.kind[q] = "operation"
    /\ StartRoot("flush", q, "operands", ForceType(q, 0))
    /\ UNCHANGED captures

\* declaration_display_summaries asks for the type of every value ...
SummariseValue(q) ==
    /\ phase = "values"
    /\ prog.kind[q] = "value"
    /\ StartRoot("summary", q, "operands", Declaration(q))
    /\ UNCHANGED captures

\* ... and completes the type of every default export.
SummariseExport(q) ==
    /\ phase = "exports"
    /\ StartRoot("demand", q, "operands", ForceType(q, 0))
    /\ UNCHANGED captures

CloseDemand ==
    /\ Answered("demand")
    /\ ObserveCurrent(control.answer.state)
    /\ frames' = Below
    /\ control' = Idle
    /\ UNCHANGED <<session, caches, references, reported>>

CloseFlush ==
    /\ Answered("flush")
    /\ ObserveFile(captures, prog.home[Top.query], control.answer.state)
    /\ frames' = Below
    /\ control' = Idle
    /\ UNCHANGED <<session, caches, references, reported>>

\* The answer itself is dropped: declaration_value_type has published it.
CloseSummary ==
    /\ Answered("summary")
    /\ frames' = Below
    /\ control' = Idle
    /\ UNCHANGED <<session, caches, references, tracker, reported>>

CloseRequire ==
    /\ Answered("require")
    /\ ObserveCurrent(control.answer.state)
    /\ positions' = positions \ {Top.query}
    /\ requiredNodes' = requiredNodes \cup (IF IsComplete(control.answer) THEN {Top.query} ELSE {})
    /\ frames' = Below
    /\ control' = Idle
    /\ UNCHANGED <<prog, phase, todo, caches, references, reported>>

-----------------------------------------------------------------------------
\* force_deferred: the guards before an evaluation starts.

ForceReady ==
    /\ control.pc = "force"
    /\ forceQueries[control.query].state = "ready"
    /\ control' = Return(Complete(forceQueries[control.query].type))
    /\ UNCHANGED <<session, frames, caches, references, tracker, reported>>

ForceActive ==
    /\ control.pc = "force"
    /\ forceQueries[control.query] = Computing
    /\ control' = Return(Incomplete("cycle"))
    /\ UNCHANGED <<session, frames, caches, references, tracker, reported>>

ForceOverBudget ==
    /\ control.pc = "force"
    /\ forceQueries[control.query] = Absent
    /\ control.depth > MaxDepth
    /\ reported' = reported \cup Complexity(control.query)
    /\ control' = Return(Incomplete("limit"))
    /\ UNCHANGED <<session, frames, caches, references, tracker>>

ForceEnter ==
    LET q == control.query IN
    /\ control.pc = "force"
    /\ forceQueries[q] = Absent
    /\ control.depth <= MaxDepth
    /\ frames' = Append(frames, [NewFrame("force", q, "operands", control.depth)
                                    EXCEPT !.local = QueryLocal(prog, q)])
    /\ captures' = BeginCapture(captures)
    /\ references' = IF prog.kind[q] = "reference" THEN Append(references, q) ELSE references
    /\ forceQueries' = [forceQueries EXCEPT ![q] = Computing]
    /\ control' = Run
    /\ UNCHANGED <<session, valueQueries, parameterOverrides, current, files,
                   programCompletion, reported>>

-----------------------------------------------------------------------------
\* force_deferred: the evaluation of each kind of query.

EvaluateNonclaim ==
    /\ Running("force")
    /\ prog.kind[Top.query] = "nonclaim"
    /\ control' = Finish(Incomplete("deferred"))
    /\ UNCHANGED <<session, frames, caches, references, tracker, reported>>

\* evaluate_type_alias_reference reports TS2456 and answers Cycle.
EvaluateUnproductive ==
    /\ Running("force")
    /\ prog.kind[Top.query] = "reference" /\ Top.query \in prog.unproductive
    /\ control' = Finish(Incomplete("cycle"))
    /\ UNCHANGED <<session, frames, caches, references, tracker, reported>>

EvaluateDeclaration ==
    /\ Running("force")
    /\ prog.kind[Top.query] \in {"value", "parameter"}
    /\ ReplaceTop([Top EXCEPT !.stage = "declaration"])
    /\ control' = Declaration(Top.query)
    /\ UNCHANGED <<session, caches, references, tracker, reported>>

\* Mutant: the operand that was answered is forced again.
ForceSameOperand ==
    /\ Running("force")
    /\ prog.kind[Top.query] \in Operation
    /\ Top.next <= Len(prog.operands[Top.query])
    /\ control' = ForceType(prog.operands[Top.query][Top.next], Top.depth + 1)
    /\ UNCHANGED <<session, frames, caches, references, tracker, reported>>

\* force_operands: one level deeper on the same budget.
ForceOperand ==
    /\ Running("force")
    /\ prog.kind[Top.query] \in Operation
    /\ Top.next <= Len(prog.operands[Top.query])
    /\ ReplaceTop([Top EXCEPT !.next = @ + 1])
    /\ control' = ForceType(prog.operands[Top.query][Top.next], Top.depth + 1)
    /\ UNCHANGED <<session, caches, references, tracker, reported>>

\* shape_child_reference_supported: a property type of the shape being built
\* is forced from depth zero, under one more frame of the reference stack.
ForceShapeChild ==
    /\ Running("force")
    /\ prog.kind[Top.query] = "reference" /\ Top.query \notin prog.unproductive
    /\ Top.next <= Len(prog.operands[Top.query])
    /\ ReplaceTop([Top EXCEPT !.next = @ + 1])
    /\ references' = Append(references, prog.operands[Top.query][Top.next])
    /\ control' = ForceType(prog.operands[Top.query][Top.next], 0)
    /\ UNCHANGED <<session, caches, tracker, reported>>

EvaluateBody ==
    /\ Running("force")
    /\ prog.kind[Top.query] \in {"reference", "operation", "flow"}
    /\ Top.query \notin prog.unproductive
    /\ Top.next > Len(prog.operands[Top.query])
    /\ control' = Normalise(Complete(prog.body[Top.query]))
    /\ UNCHANGED <<session, frames, caches, references, tracker, reported>>

\* evaluate_binary has looked at every operand; force_binary observes the worst
\* of them, also when one operand alone decides the result.
EvaluateBinary ==
    /\ Running("force")
    /\ prog.kind[Top.query] = "binary"
    /\ Top.next > Len(prog.operands[Top.query])
    /\ ObserveCurrent(Top.state)
    /\ control' = IF Top.state = "complete" \/ Top.query \in prog.decided
                  THEN Normalise(Complete(prog.body[Top.query]))
                  ELSE Finish(Incomplete(Top.state))
    /\ UNCHANGED <<session, frames, caches, references, reported>>

\* The answer of an operand, of the declaration, or of the yielded query.
ResumeForce ==
    /\ Answered("force")
    /\ ReplaceTop([Top EXCEPT !.state = Combine(@, control.answer.state)])
    /\ references' = IF Top.stage = "operands" /\ prog.kind[Top.query] = "reference"
                     THEN SubSeq(references, 1, Top.base + 1)
                     ELSE references
    /\ control' =
        CASE Top.stage = "operands"
                /\ (IsComplete(control.answer) \/ prog.kind[Top.query] = "binary") -> Run
          [] Top.stage = "declaration" -> Normalise(control.answer)
          [] OTHER -> Finish(control.answer)
    /\ UNCHANGED <<session, caches, tracker, reported>>

\* A complete answer that is itself deferred is forced in turn, unless the
\* edge is the provisional back edge of a productive alias.
NormaliseResult ==
    /\ control.pc = "normalise"
    /\ LET a == control.answer IN
       IF ~IsComplete(a) \/ a.type \notin Query
       THEN control' = Finish(a) /\ UNCHANGED frames
       ELSE IF ProvisionalEdge(Top.query, a.type)
       THEN control' = Finish(Incomplete("deferred")) /\ UNCHANGED frames
       ELSE /\ control' = ForceType(a.type, Top.depth + 1)
            /\ ReplaceTop([Top EXCEPT !.stage = "result"])
    /\ UNCHANGED <<session, caches, references, tracker, reported>>

\* Mutant: the request-local operand is not looked at.
RememberedLocal(frame, a, captured) ==
    IsComplete(a) /\ captured = "complete" /\ IsCacheable(a.type)

\* Only a complete, untainted, request-independent and definitive answer stays.
Remembered(frame, a, captured) ==
    /\ IsComplete(a)
    /\ captured = "complete"
    /\ ~frame.local
    /\ IsCacheable(a.type)

\* Mutant: the mark goes only when the evaluation has completed.
SettledIfComplete(frame, a, captured) ==
    IF Remembered(frame, a, captured) THEN Ready(a.type)
    ELSE IF IsComplete(a) THEN Absent ELSE Computing

\* The cache entry an evaluation leaves in place of its Computing mark.
Settled(frame, a, captured) ==
    IF Remembered(frame, a, captured) THEN Ready(a.type) ELSE Absent

RestoreReferences(frame) == SubSeq(references, 1, frame.base)

FinishForce ==
    LET q == Top.query
        a == control.answer
    IN
    /\ control.pc = "finish"
    /\ captures' = FinishCapture(captures)
    /\ references' = RestoreReferences(Top)
    /\ forceQueries' = [forceQueries EXCEPT ![q] = Settled(Top, a, Captured(captures))]
    /\ reported' = IF a.state = "limit" THEN reported \cup Complexity(q) ELSE reported
    /\ frames' = Below
    /\ control' = Return(a)
    /\ UNCHANGED <<session, valueQueries, parameterOverrides, current, files, programCompletion>>

-----------------------------------------------------------------------------
\* declaration_value_type

DeclarationOverridden ==
    LET t == parameterOverrides[control.query] IN
    /\ control.pc = "declaration"
    /\ t # None
    /\ control' = Return(IF IsCacheable(t) THEN Complete(t) ELSE Incomplete("deferred"))
    /\ UNCHANGED <<session, frames, caches, references, tracker, reported>>

DeclarationKnown ==
    LET entry == valueQueries[control.query] IN
    /\ control.pc = "declaration"
    /\ parameterOverrides[control.query] = None
    /\ entry.state # "absent"
    /\ control' = Return(CASE entry.state = "provisional" -> Complete(Any)
                           [] entry.state = "ready"       -> Complete(entry.type)
                           [] entry.state = "computing"   -> Incomplete("cycle"))
    /\ UNCHANGED <<session, frames, caches, references, tracker, reported>>

DeclarationEnter ==
    LET q == control.query IN
    /\ control.pc = "declaration"
    /\ parameterOverrides[q] = None
    /\ valueQueries[q] = Absent
    /\ valueQueries' = [valueQueries EXCEPT ![q] = Computing]
    /\ captures' = BeginCapture(captures)
    /\ frames' = Append(frames, NewFrame("value", q, "contexts", 0))
    /\ control' = Run
    /\ UNCHANGED <<session, forceQueries, parameterOverrides, references, current,
                   files, programCompletion, reported>>

\* An annotation is resolved without looking at the initializer.
Infers(frame) == frame.owner = "declarator" \/ frame.query \notin prog.annotated

Inferring == Running("value") \/ Running("declarator")

\* infer_function_like_expression: the parameters of the initializer's function
\* expressions take their contextual type; what was known of them is dropped.
InferContexts ==
    LET fixed == {p \in prog.contexts[Top.query] : IsCacheable(prog.context[p])} IN
    /\ Inferring
    /\ Top.stage = "contexts"
    /\ IF Infers(Top)
       THEN /\ parameterOverrides' =
                  [p \in Query |-> IF p \in fixed THEN prog.context[p] ELSE parameterOverrides[p]]
            /\ valueQueries' = [p \in Query |-> IF p \in fixed THEN Absent ELSE valueQueries[p]]
       ELSE UNCHANGED <<parameterOverrides, valueQueries>>
    /\ ReplaceTop([Top EXCEPT !.stage = "operands"])
    /\ UNCHANGED <<session, control, forceQueries, references, tracker, reported>>

\* infer_expression: a demand inside an expression starts a fresh budget.
InferOperand ==
    /\ Inferring
    /\ Top.stage = "operands" /\ Infers(Top)
    /\ Top.next <= Len(prog.operands[Top.query])
    /\ ReplaceTop([Top EXCEPT !.next = @ + 1])
    /\ control' = ForceType(prog.operands[Top.query][Top.next], 0)
    /\ UNCHANGED <<session, caches, references, tracker, reported>>

\* require_completion: an incomplete operand taints the captures and the
\* verdicts, and the inference goes on with the symbolic query.
ResumeInference ==
    /\ Answered("value") \/ Answered("declarator")
    /\ ObserveCurrent(control.answer.state)
    /\ IF Top.stage = "relation"
       THEN ReplaceTop([Top EXCEPT !.stage = "publish"])
       ELSE UNCHANGED frames
    /\ control' = Run
    /\ UNCHANGED <<session, caches, references, reported>>

Inferred == Top.stage = "operands"
            /\ (Infers(Top) => Top.next > Len(prog.operands[Top.query]))

\* publish_ready_value_query
Published(t, c) == IF c = "complete" /\ IsCacheable(t) THEN Ready(t) ELSE Absent

FinishDeclaration ==
    LET q == Top.query
        captured == Captured(captures)
    IN
    /\ Running("value") /\ Inferred
    /\ ObserveFile(FinishCapture(captures), prog.home[q], captured)
    /\ valueQueries' = [valueQueries EXCEPT ![q] = Published(prog.body[q], captured)]
    /\ frames' = Below
    /\ control' = Return(Complete(prog.body[q]))
    /\ UNCHANGED <<session, forceQueries, parameterOverrides, references, reported>>

\* check_variable_declarator closes the initializer's capture and, under an
\* annotation, relates the initializer to it.
FinishInitializer ==
    LET q == Top.query
        related == q \in prog.annotated /\ prog.body[q] \in Query
    IN
    /\ Running("declarator") /\ Inferred
    /\ captures' = FinishCapture(captures)
    /\ ReplaceTop([Top EXCEPT !.state = Captured(captures),
                              !.stage = IF related THEN "relation" ELSE "publish"])
    /\ control' = IF related THEN ForceType(prog.body[q], 0) ELSE Run
    /\ UNCHANGED <<session, caches, references, current, files, programCompletion, reported>>

PublishDeclarator ==
    LET q == Top.query IN
    /\ Running("declarator") /\ Top.stage = "publish"
    /\ valueQueries' =
          IF IF q \in prog.annotated THEN q \in requiredNodes ELSE Top.state = "complete"
          THEN [valueQueries EXCEPT ![q] = Published(prog.body[q], "complete")]
          ELSE valueQueries
    /\ frames' = Below
    /\ control' = Idle
    /\ UNCHANGED <<session, forceQueries, parameterOverrides, references, tracker, reported>>

-----------------------------------------------------------------------------
\* visit_required_type: the eager walk of the required-type pass.

VisitActive(q) == \E i \in DOMAIN frames : frames[i].owner = "visit" /\ frames[i].query = q

VisitAgain ==
    /\ control.pc = "visit" /\ VisitActive(control.query)
    /\ control' = Return(Complete(control.query))
    /\ UNCHANGED <<session, frames, caches, references, tracker, reported>>

VisitEnter ==
    /\ control.pc = "visit" /\ ~VisitActive(control.query)
    /\ frames' = Append(frames, NewFrame("visit", control.query, "operands", 0))
    /\ control' = Run
    /\ UNCHANGED <<session, caches, references, tracker, reported>>

VisitOperand ==
    /\ Running("visit") /\ Top.stage = "operands"
    /\ Top.next <= Len(Symbolic(prog, Top.query))
    /\ ReplaceTop([Top EXCEPT !.next = @ + 1])
    /\ control' = Visit(Symbolic(prog, Top.query)[Top.next])
    /\ UNCHANGED <<session, caches, references, tracker, reported>>

ResumeVisit ==
    /\ Answered("visit")
    /\ ReplaceTop([Top EXCEPT !.state = Combine(@, control.answer.state),
                              !.stage = IF @ = "result" THEN "publish" ELSE @])
    /\ control' = Run
    /\ UNCHANGED <<session, caches, references, tracker, reported>>

\* A reference with an incomplete argument is not expanded.
VisitRefuses == prog.kind[Top.query] = "reference" /\ Top.state # "complete"

VisitForce ==
    /\ Running("visit") /\ Top.stage = "operands"
    /\ Top.next > Len(Symbolic(prog, Top.query))
    /\ ~VisitRefuses
    /\ ReplaceTop([Top EXCEPT !.stage = "result"])
    /\ control' = ForceType(Top.query, 0)
    /\ UNCHANGED <<session, caches, references, tracker, reported>>

\* Mutant: every visit drops the answer of what it visited.
EvictedAlways(q, c) == [forceQueries EXCEPT ![q] = Absent]

\* An incomplete required type keeps no answer.
Evicted(q, c) ==
    IF c = "complete" THEN forceQueries ELSE [forceQueries EXCEPT ![q] = Absent]

VisitClose ==
    LET q == Top.query IN
    /\ Running("visit")
    /\ \/ Top.stage = "publish"
       \/ Top.stage = "operands" /\ Top.next > Len(Symbolic(prog, q)) /\ VisitRefuses
    /\ forceQueries' = Evicted(q, Top.state)
    /\ frames' = Below
    /\ control' = Return(IF Top.state = "complete" THEN Complete(q) ELSE Incomplete(Top.state))
    /\ UNCHANGED <<session, valueQueries, parameterOverrides, references, tracker, reported>>

-----------------------------------------------------------------------------
\* What the evaluator does on its own, and what the checking pass asks of it.
Evaluate ==
    \/ CloseDemand \/ CloseRequire \/ CloseFlush \/ CloseSummary
    \/ ForceReady \/ ForceActive \/ ForceOverBudget \/ ForceEnter
    \/ EvaluateNonclaim \/ EvaluateUnproductive \/ EvaluateDeclaration
    \/ ForceOperand \/ ForceShapeChild \/ EvaluateBody \/ EvaluateBinary
    \/ ResumeForce \/ NormaliseResult \/ FinishForce
    \/ DeclarationOverridden \/ DeclarationKnown \/ DeclarationEnter
    \/ InferContexts \/ InferOperand \/ ResumeInference
    \/ FinishDeclaration \/ FinishInitializer \/ PublishDeclarator
    \/ VisitAgain \/ VisitEnter \/ VisitOperand \/ ResumeVisit \/ VisitForce \/ VisitClose

Check ==
    \/ \E f \in File : SelectFile(f)
    \/ NextPass
    \/ \E q \in Query : RequireTypeNode(q) \/ MarkProvisional(q) \/ DemandType(q)
                          \/ CheckDeclarator(q) \/ FlushOrigin(q) \/ SummariseValue(q)
                          \/ SummariseExport(q)

Next == Evaluate \/ Check

Spec == Init /\ [][Next]_vars

\* The checker is one thread: an evaluation that can go on goes on.
FairSpec == Spec /\ WF_vars(Evaluate)
=============================================================================
