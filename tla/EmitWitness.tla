------------------------------ MODULE EmitWitness ------------------------------
(***************************************************************************)
(* What two compilers said, in one form (scripts/emit/src/                     *)
(* diagnostic-witness.ts): the TypeScript API answers by phases, in any order, *)
(* and with a message chain as a tree; tsz prints its diagnostics in order,    *)
(* with the chain as a list of depths.                                         *)
(***************************************************************************)
EXTENDS Integers, Sequences, FiniteSets
LOCAL INSTANCE SequencesExt

CONSTANTS Depths,         \* bound: depths of a chain
          MaxChain,       \* bound: messages of a chain
          Said,           \* diagnostics of the API: [path, pos, code, text, related, category]
          MaxDiagnostics  \* bound: diagnostics of one answer

-----------------------------------------------------------------------------
(* tszMessageChain *)

NoChain == <<-1>>

\* stack.length = depth - 1
Below(stack, depth) == SubSeq(stack, 1, depth - 1)

\* The parent of each entry, 0 for a root; the stack holds the entries an entry may be
\* under.  A depth that skips a level is refused.
tszMessageChain(depths) ==
    LET step(state, i) ==
            IF state.refused \/ depths[i] > Len(state.stack) + 1 THEN [state EXCEPT !.refused = TRUE]
            ELSE LET above == Below(state.stack, depths[i])
                 IN [stack |-> above \o <<i>>,
                     parents |-> Append(state.parents, IF depths[i] = 1 THEN 0 ELSE state.stack[depths[i] - 1]),
                     refused |-> FALSE]
        end == FoldLeft(step, [stack |-> <<>>, parents |-> <<>>, refused |-> FALSE], [i \in DOMAIN depths |-> i])
    IN IF end.refused THEN NoChain ELSE end.parents

-----------------------------------------------------------------------------
(* canonicalizeTypeScriptDiagnostics *)

\* compareTypeScriptDiagnostic: by place, code and text; the more elaborate one first.
Precedes(a, b) ==
    LET key(d) == <<d.path, d.pos, d.code, d.text, -d.related, d.category>>
    IN \E k \in 1..6 : /\ key(a)[k] < key(b)[k]
                       /\ \A j \in 1..(k - 1) : key(a)[j] = key(b)[j]

\* A stable sort, and no diagnostic twice in a row.
Sorted(said) ==
    LET insert(list, d) ==
            LET n == Cardinality({i \in DOMAIN list : ~Precedes(d, list[i])})
            IN SubSeq(list, 1, n) \o <<d>> \o SubSeq(list, n + 1, Len(list))
    IN FoldLeft(insert, <<>>, said)
Canonical(said) ==
    LET list == Sorted(said)
        kept(all, i) == IF i > 1 /\ list[i] = list[i - 1] THEN all ELSE Append(all, list[i])
    IN FoldLeft(kept, <<>>, [i \in DOMAIN list |-> i])

\* witnessCodesMatch: the witnesses are those of the process that was run only if that
\* process printed their codes, in their order.
witnessCodesMatch(witnesses, codes) == codes = [i \in DOMAIN witnesses |-> witnesses[i].code]

-----------------------------------------------------------------------------
(* Properties *)

Chains == UNION {[1..n -> Depths] : n \in 0..MaxChain}
DiagnosticLists == UNION {[1..n -> Said] : n \in 0..MaxDiagnostics}

\* A chain is refused only if it skips a level; else it is the tree whose walk it is: the
\* parent of an entry is the last entry before it that is one level up, and nothing
\* between the two is as high.
ChainIsItsWalk(depths) ==
    LET parents == tszMessageChain(depths)
        fits == \A i \in DOMAIN depths : depths[i] <= (IF i = 1 THEN 0 ELSE depths[i - 1]) + 1
    IN IF ~fits THEN parents = NoChain
       ELSE \A i \in DOMAIN depths :
                IF depths[i] = 1 THEN parents[i] = 0
                ELSE /\ depths[parents[i]] = depths[i] - 1
                     /\ \A j \in (parents[i] + 1)..(i - 1) : depths[j] >= depths[i]

\* The witnesses do not depend on the order of the phases, and say each thing once: two
\* compilers that said the same have the same witnesses.
WitnessesAreOfTheSet(said) ==
    /\ \A other \in {[i \in DOMAIN said |-> said[p[i]]] : p \in {q \in [DOMAIN said -> DOMAIN said] : IsInjective(q)}} :
           Canonical(other) = Canonical(said)
    /\ ToSet(Canonical(said)) = ToSet(said)
    /\ IsInjective(Canonical(said))
=============================================================================
