--------------------------- MODULE ForceQueriesMC ---------------------------
(***************************************************************************)
(* Program families for TLC.  A family is a set of programs over the model    *)
(* values of Query; the static facts of the aliases are computed from the    *)
(* program by AliasGraph, as the checker computes them from the source.     *)
(***************************************************************************)
EXTENDS ForceQueriesProperties

CONSTANTS qa, qb, qc, text, any, error, none, main, library, noFile

Graph == INSTANCE AliasGraph

TwoQueries   == {qa, qb}
ThreeQueries == {qa, qb, qc}
PlainTypes   == {text, any}

Neutral(p) ==
    {e \in Query \X Query : p.kind[e[1]] = "reference" /\ p.body[e[1]] = e[2]}
Structural(p) ==
    {e \in Query \X Query :
        p.kind[e[1]] = "reference" /\ \E i \in DOMAIN p.operands[e[1]] : p.operands[e[1]][i] = e[2]}
Aliases(p) == {q \in Query \ p.wrapper : p.kind[q] = "reference"}

WithStaticFacts(p) ==
    [p EXCEPT !.decided      = {q \in Query : p.kind[q] = "binary" /\ p.body[q] = text},
              !.unproductive = Graph!Unproductive(Neutral(p), Aliases(p)),
              !.productive   = Graph!Productive(Neutral(p), Structural(p), Aliases(p))]

\* A shape refers to other references; a parameter has no initializer; an
\* interface or class yields its own shape; only references have arguments.
WellFormed(p) ==
    \A q \in Query :
        /\ p.kind[q] = "reference" =>
              \A i \in DOMAIN p.operands[q] : p.kind[p.operands[q][i]] = "reference"
        /\ p.kind[q] = "parameter" => p.operands[q] = <<>> /\ p.body[q] = Any
        /\ p.kind[q] = "nonclaim" => p.operands[q] = <<>> /\ p.body[q] = text
        /\ p.kind[q] # "reference" => p.arguments[q] = <<>>
        /\ p.kind[q] = "binary" => p.body[q] \in {text, error}
        /\ q \in p.wrapper \cup p.defaulted => p.kind[q] = "reference"
        /\ q \in p.wrapper => p.body[q] \notin Query
        /\ q \in p.annotated => p.kind[q] = "value"
        /\ p.contexts[q] # {} => p.kind[q] = "value"
        /\ \A r \in p.contexts[q] : p.kind[r] = "parameter"

Family(kinds, operands, arguments, bodies, wrappers, defaults, annotations, contexts) ==
    {WithStaticFacts(p) : p \in {q \in
        [kind         : kinds,
         operands     : operands,
         arguments    : arguments,
         body         : bodies,
         home         : {[x \in Query |-> IF x = qa THEN main ELSE library]},
         context      : {[x \in Query |-> text]},
         contexts     : contexts,
         annotated    : annotations,
         decided      : {{}},
         defaulted    : defaults,
         productive   : {{}},
         unproductive : {{}},
         wrapper      : wrappers] : WellFormed(q)}}

NoContexts  == {[q \in Query |-> {}]}
NoArguments == {[q \in Query |-> <<>>]}
=============================================================================
