-------------------------- MODULE FourslashSelection --------------------------
(***************************************************************************)
(* Which tests a fourslash shard runs, and in which order (runner.cjs): the  *)
(* tests sorted by path, weighed by the timings of the last snapshot, are    *)
(* dealt to the shards from the heaviest down, each to the lightest shard.   *)
(* Tests are numbers in the order of their paths, weights are coarse times.  *)
(***************************************************************************)
EXTENDS Integers, Sequences, SequencesExt, FiniteSetsExt

CONSTANTS
    TimeoutBias,   \* TIMEOUT_WEIGHT_BIAS_MS
    DefaultWeight, \* what defaultUnknownWeight gives when nothing is known
    Hash(_, _)     \* stableShardForPath: the shard a path is hashed to, of so many

\* A row of a snapshot: what is recorded of a test that has one.
Row == [status : {"pass", "slow", "fail", "timeout", "unrun"}, elapsed : Nat]

IsSnapshot(s) == IsFiniteSet(DOMAIN s) /\ DOMAIN s \subseteq Nat /\ \A t \in DOMAIN s : s[t] \in Row

\* The members of S, each before those it precedes (Array.prototype.sort).
Sorted(S, Precedes(_, _)) ==
    CHOOSE s \in [1..Cardinality(S) -> S] : \A i, j \in DOMAIN s : i < j => Precedes(s[i], s[j])

\* loadHistoricalWeights: a row without a time says nothing, and the time of a
\* test that was cut off is no less than the bias.
loadHistoricalWeights(snapshot) ==
    LET known == {t \in DOMAIN snapshot : snapshot[t].elapsed > 0}
    IN [t \in known |-> IF snapshot[t].status = "timeout" /\ snapshot[t].elapsed < TimeoutBias
                        THEN TimeoutBias ELSE snapshot[t].elapsed]

\* The upper median of the known weights.
defaultUnknownWeight(weights) ==
    IF DOMAIN weights = {} THEN DefaultWeight
    ELSE LET sorted == Sorted(DOMAIN weights,
                           LAMBDA t, u : weights[t] < weights[u] \/ (weights[t] = weights[u] /\ t < u))
         IN weights[sorted[(Len(sorted) \div 2) + 1]]

WeightOf(weights, t) == IF t \in DOMAIN weights THEN weights[t] ELSE defaultUnknownWeight(weights)

Total(weights, tests) == FoldLeft(LAMBDA sum, t : sum + WeightOf(weights, t), 0, tests)

\* Mutant: the shards are filled to the same number of tests.
LightestByCount(weights, shards) ==
    CHOOSE i \in DOMAIN shards : \A j \in DOMAIN shards \ {i} :
        Len(shards[i]) < Len(shards[j]) \/ (Len(shards[i]) = Len(shards[j]) /\ i < j)

\* The lightest shard; of several, one with the fewest tests; then the first.
Lightest(weights, shards) ==
    LET load(i) == Total(weights, shards[i])
        before(i, j) == \/ load(i) < load(j)
                        \/ load(i) = load(j) /\ Len(shards[i]) < Len(shards[j])
                        \/ load(i) = load(j) /\ Len(shards[i]) = Len(shards[j]) /\ i < j
    IN CHOOSE i \in DOMAIN shards : \A j \in DOMAIN shards \ {i} : before(i, j)

Deal(weights, shards, t) == LET i == Lightest(weights, shards) IN [shards EXCEPT ![i] = Append(@, t)]

\* weightedShardTests, for every shard: by hash when nothing is known.
weightedShardTests(snapshot, tests, shardTotal) ==
    LET weights == loadHistoricalWeights(snapshot)
        heaviestFirst ==
            Sorted(tests, LAMBDA t, u :
                \/ WeightOf(weights, t) > WeightOf(weights, u)
                \/ WeightOf(weights, t) = WeightOf(weights, u) /\ t < u)
        none == [i \in 1..shardTotal |-> <<>>]
    IN IF DOMAIN weights = {} THEN [i \in 1..shardTotal |-> Sorted({t \in tests : Hash(t, shardTotal) = i}, <)]
       ELSE FoldLeft(LAMBDA shards, t : Deal(weights, shards, t), none, heaviestFirst)

\* main: the shard, then --offset and --max within it (0: as many as there are).
Slice(tests, offset, max) ==
    LET rest == SubSeq(tests, offset + 1, Len(tests))
    IN IF max > 0 /\ max < Len(rest) THEN SubSeq(rest, 1, max) ELSE rest
=============================================================================
