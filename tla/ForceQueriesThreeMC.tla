------------------------ MODULE ForceQueriesThreeMC -------------------------
\* Families of three queries: a parameter with its context, a chain, and arguments.
EXTENDS ForceQueriesMC

\* Programs where the initializer of qc gives the parameter qb its context and
\* qa is any query that may depend on either.
WithParameter ==
    Family({[q \in Query |-> CASE q = qa -> k [] q = qb -> "parameter" [] q = qc -> "value"] :
                k \in {"reference", "operation", "flow", "value"}},
           {[q \in Query |-> CASE q = qa -> i [] q = qb -> <<>> [] q = qc -> j] :
                i \in {<<>>, <<qb>>, <<qc>>}, j \in {<<>>, <<qa, qb>>}},
           {[q \in Query |-> IF q = qa THEN i ELSE <<>>] : i \in {<<>>, <<qb>>, <<qc>>}},
           {[q \in Query |-> CASE q = qa -> i [] q = qb -> Any [] q = qc -> j] :
                i \in {qb, qc, text}, j \in {qa, text}},
           {{}}, {{}, {qa}}, {{}, {qc}}, {[q \in Query |-> IF q = qc THEN {qb} ELSE {}]})

\* A query that yields the type of a parameter names a declaration among its
\* operands: no alias for typeof p, no projection of a plain type to it.
WithContext ==
    {p \in WithParameter :
        p.body[qa] = qb =>
            \/ qa \in p.defaulted
            \/ p.kind[qa] \in {"value", "flow"}
            \/ p.kind[qa] = "operation" /\ p.operands[qa] # <<>>
            \/ p.kind[qa] = "reference" /\ p.arguments[qa] # <<>>}

\* An alias without arguments yields the type of a parameter.
TypeQueryOfParameter ==
    {p \in WithParameter :
        p.kind[qa] = "reference" /\ p.body[qa] = qb /\ p.arguments[qa] = <<>>}

\* Three queries in a ring: each may force the next, or yield it.  Up to a turn of the
\* ring, which changes nothing but the files of the declarations, qa is a reference if any
\* is, else a binary if any is.
NextOf == [q \in Query |-> CASE q = qa -> qb [] q = qb -> qc [] q = qc -> qa]

Turned == {k \in [Query -> {"reference", "binary", "value"}] :
              \A c \in {"reference", "binary"} :
                  (\E r \in Query : k[r] = c) => k[qa] \in {"reference", c}}

Ring ==
    Family(Turned,
           [Query -> {<<>>}] \cup {[q \in Query |-> <<NextOf[q]>>]}
               \cup {[q \in Query |-> IF q = r THEN <<NextOf[q]>> ELSE <<>>] : r \in Query},
           NoArguments,
           {[q \in Query |-> IF q \in S THEN NextOf[q] ELSE text] : S \in SUBSET Query},
           {{}}, {{}}, {{}}, NoContexts)

\* An argument of qa that forces qa itself, and one after it that may be incomplete: the
\* visit of qa finds it incomplete when it already has an answer.
Arguments ==
    Family({[q \in Query |-> IF q = qc THEN k ELSE "reference"] : k \in {"reference", "nonclaim", "operation"}},
           {[q \in Query |-> CASE q = qa -> <<>> [] q = qb -> i [] q = qc -> j] :
                i \in {<<>>, <<qa>>}, j \in {<<>>, <<qa, qb>>}},
           {[q \in Query |-> CASE q = qa -> i [] q = qb -> j [] q = qc -> <<>>] :
                i \in {<<>>, <<qb>>, <<qb, qc>>}, j \in {<<>>, <<qc>>}},
           {[q \in Query |-> CASE q = qa -> i [] q = qb -> qa [] q = qc -> text] : i \in {qc, text}},
           {{}}, {{}}, {{}}, NoContexts)

\* What is not claimed, met through every other kind of query, in the same file or not.
Unclaimed ==
    Family({[q \in Query |-> CASE q = qa -> i [] q = qb -> j [] q = qc -> "nonclaim"] :
                i \in {"reference", "operation", "binary", "value"},
                j \in {"reference", "operation", "binary", "value"}},
           {[q \in Query |-> CASE q = qa -> i [] q = qb -> j [] q = qc -> <<>>] :
                i \in {<<>>, <<qb>>, <<qb, qc>>}, j \in {<<>>, <<qa>>, <<qc>>}},
           NoArguments,
           {[q \in Query |-> CASE q = qa -> i [] q = qb -> j [] q = qc -> text] :
                i \in {qb, qc, text, error}, j \in {qa, qc, text}},
           {{}, {qb}}, {{}}, {{}, {qb}}, NoContexts)

Three == Ring \cup WithContext \cup Arguments \cup Unclaimed

\* The theorems about the caches apply to these programs.
ASSUME ThreeAssumption == \A p \in Three : ContextualTypesAreLocal(p)
=============================================================================
