------------------------ MODULE ForceQueriesSummaryMC -----------------------
\* A default export that only the summaries complete.
EXTENDS ForceQueriesMC

\* main is import { s } from "./library"; export default -s, where library declares
\* const s: string.  The checking pass infers -s without forcing it (statement_model.rs,
\* an Export statement), and forced, a minus of a string is Deferred (evaluate_unary).
DefaultExport ==
    Family({[q \in Query |-> IF q = qa THEN "nonclaim" ELSE "value"]}, {[q \in Query |-> <<>>]},
           NoArguments, {[q \in Query |-> text]}, {{}}, {{}}, {{qb}}, NoContexts)
=============================================================================
