----------------------- MODULE ConfigLoadingProperties ----------------------
(***************************************************************************)
(* What loading promises: the cache cannot be seen in the result.            *)
(***************************************************************************)
EXTENDS ConfigLoading, SequencesExt

Code == {5058, 5081, 5083, 6053, 18000}

TypeOK ==
    /\ host \in Host
    /\ control \in Control
    /\ loads \in Seq(Load)
    /\ cache \in [Config -> LoadedConfig \cup {NoConfig}]
    /\ incomplete \subseteq Config
    /\ seen \subseteq Config
    /\ \A e \in diagnostics : e.code \in Code /\ e.chain \in Seq(Config)

-----------------------------------------------------------------------------
(***************************************************************************)
(* The reference: a loader with no cache, on the file system h.                *)
(***************************************************************************)
\* A file system has finitely many files.
ASSUME FiniteAssumption == IsFiniteSet(Config)

\* The base b of the last configuration of s is loaded, below the others.
Loads(h, s, b) == b \in Config /\ b \notin Range(s) /\ b \notin h.unreadable

\* Where a setting comes from when settings are given one after the other.
LastOf(given, x) ==
    LET givers == {i \in DOMAIN given : given[i][x] # Unset}
    IN IF givers = {} THEN Unset ELSE given[Max(givers)][x]

\* Fresh(h)[s] are the settings of the last configuration of s when it is loaded
\* below the others.
Fresh(h) ==
    LET fresh[s \in Seq(Config)] ==
            LET bases == h.bases[Last(s)]
                given == [i \in DOMAIN bases |->
                             IF Loads(h, s, bases[i]) THEN fresh[Append(s, bases[i])] ELSE Empty]
            IN [x \in Setting |-> IF x \in h.authored[Last(s)] THEN Last(s) ELSE LastOf(given, x)]
    IN fresh

\* The chains of configurations such a loader goes through: no file is on one twice.
IsChain(h, s) ==
    /\ Len(s) > 0 /\ s[1] = h.entry
    /\ \A i \in DOMAIN s : s[i] \notin h.unreadable
    /\ \A i \in 2..Len(s) : s[i] \in Range(h.bases[s[i - 1]])
AllChains(h) ==
    {s \in UNION {[1..n -> Config] : n \in 1..Cardinality(Config)} : IsInjective(s) /\ IsChain(h, s)}

\* The part of s from b on.
From(s, b) == SubSeq(s, CHOOSE i \in DOMAIN s : s[i] = b, Len(s))

\* What such a loader reports of the base b of the last configuration of s.
Diagnosis(h, s, b) ==
    CASE b = Missing -> {[code |-> 6053, chain |-> <<Last(s)>>]}
      [] b \in Range(s) -> {[code |-> 18000, chain |-> Append(From(s, b), b)]}
      [] b \in h.unreadable -> {[code |-> 5083, chain |-> <<b>>]}
      [] OTHER -> {}

EntryDiagnosis(h) ==
    CASE h.entry = Missing ->
           {[code |-> IF h.selection = "directory" THEN 5081 ELSE 5058, chain |-> <<>>]}
      [] h.entry \in h.unreadable -> {[code |-> 5083, chain |-> <<h.entry>>]}
      [] OTHER -> {}

FreshDiagnostics(h) ==
    EntryDiagnosis(h)
        \cup UNION {UNION {Diagnosis(h, s, b) : b \in Range(h.bases[Last(s)])} : s \in AllChains(h)}

-----------------------------------------------------------------------------
Cached == {c \in Config : cache[c] # NoConfig}

\* A remembered configuration is what loading it from nothing gives, below
\* whatever is being loaded now: reusing it can neither hide a cycle nor keep
\* what a cycle cut off (`if loaded.complete { self.cache.insert(..) }`).
CachedIsFresh ==
    \A c \in Cached : ~OnStack(c) /\ cache[c].merged = Fresh(host)[Append(Stack, c)]

\* A cached configuration is on no cycle and extends only configurations that
\* are cached themselves: `incomplete_configs` and `complete` keep every
\* configuration from which a cycle can be reached out of the cache.
CacheIsDefinitive ==
    \A c \in Cached :
        /\ ~OnStack(c)
        /\ c \notin incomplete
        /\ c \notin host.unreadable
        /\ \A b \in Range(host.bases[c]) : b \in Cached \cup host.unreadable \cup {Missing}

\* However often a configuration is shared, the entry has the settings it would
\* have with no cache, the last base that gives a setting winning over earlier
\* ones and the configuration itself over its bases (merge_from).
EntryIsFresh ==
    control.op = "done" =>
        IF host.entry = Missing \/ host.entry \in host.unreadable
        THEN control.result = NoConfig
        ELSE control.result.merged = Fresh(host)[<<host.entry>>]

\* A shared configuration is diagnosed no less for being cached: every cycle,
\* every missing base and every unreadable file a loader with no cache would
\* meet is reported, with the same chain, and nothing else is.
DiagnosticsAreFresh ==
    control.op = "done" => diagnostics = FreshDiagnostics(host)

\* The cache cannot be seen: what is remembered, the settings of the entry and what
\* is reported are those of a loader that has none (Resolver::load_config).
LoadingIsFresh == CachedIsFresh /\ EntryIsFresh /\ DiagnosticsAreFresh

\* Whatever extends what, loading ends.
LoadingEnds == <>(control.op = "done")

=============================================================================
