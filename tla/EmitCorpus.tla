------------------------------- MODULE EmitCorpus -------------------------------
(***************************************************************************)
(* How the emit runner finds its test cases (scripts/emit/src/runner.ts,      *)
(* findTestCases, and what it calls): which baselines are candidates, where   *)
(* their text is read from, which options they were authored with, and which  *)
(* of them it refuses to compare.  The two caches on disk outlive a run, and  *)
(* the TypeScript checkout may move to another commit between two runs, and   *)
(* back.                                                                     *)
(***************************************************************************)
EXTENDS Integers, Sequences, FiniteSets

CONSTANTS
    Pins,          \* bound: the commits the checkout moves between are 1..Pins
    Listing(_),    \* the baselines of a commit, a set of numbers (their order is the sorted one)
    HasDts(_, _),  \* has the baseline declaration products at that commit?
    TestPath(_),   \* the test file a baseline names
    Variant(_),    \* options in a baseline's file name
    Directives(_), \* options in a test file
    Embedded(_),   \* options of the tsconfig.json inside a test file
    Maxes,         \* --max
    MaxFaults      \* bound: reads of a test file and builds of the blob that fail, and runs that die

\* No commit is without baselines, and two commits have different listings: isBlobFresh
\* compares nothing else, and leaves it to its user to drop a blob whose files alone changed.
ASSUME ListingAssumption ==
    /\ Pins \in Nat \ {0}
    /\ \A p \in 1..Pins : Listing(p) # {}
    /\ \A p, q \in 1..Pins : Listing(p) = Listing(q) => p = q

VARIABLES
    pin,     \* the commit that is checked out
    bin,     \* baselines.bin: the commit whose bytes it holds, 0 when there is none
    idx,     \* baselines.idx.json: the commit whose offsets it holds, 0 when there is none
    meta,    \* baselines.meta.json: the list of names it stands for
    dtsCache,\* DtsDiscoveryCache: per baseline [stamp, hasDts]
    step,    \* what the run does: "idle", "bin", "idx", "meta", "list", "read", "found"
    mode,    \* the run's [dtsOnly, max]
    blob,    \* the reader: [bin, idx] as it was opened, or NoBlob
    reading, \* per candidate: "queued", "test" (its test file is being read), "done"
    parsed,  \* parsedSourceCache: per test file, the options found
    failures,\* sourceReadFailures
    testCases,    \* per candidate: the TestCase it became
    faults,
    cut      \* history: the last build that began to write was cut short, at whatever commit
corpusVars == <<pin, bin, idx, meta, dtsCache, step, mode, blob, reading, parsed, failures, testCases, faults, cut>>

NoBlob == [bin |-> 0, idx |-> 0]
Nothing == <<>>

\* A map with an entry written, over the one that was there.
With(map, key, value) == [k \in DOMAIN map \cup {key} |-> IF k = key THEN value ELSE map[k]]

-----------------------------------------------------------------------------
(* Authored options *)

\* The options that become arguments; the ones the harness itself obeys.
FORWARDED_OPTIONS == {"target", "module", "moduleresolution", "sourcemap", "declaration", "strict", "baseurl"}
HARNESS_OPTIONS == {"base", "noimplicitreferences", "notypesandsymbols"}
QUARANTINED_OPTIONS == {"inlinesources", "maproot", "sourceroot"}
MapOptions == {"sourcemap", "inlinesourcemap", "declarationmap", "maproot", "sourceroot", "inlinesources"}

\* resolveAuthoredOptions
Resolved(embedded, directives, variant) ==
    [key \in DOMAIN embedded \cup DOMAIN directives \cup DOMAIN variant |->
        IF key \in DOMAIN variant THEN variant[key]
        ELSE IF key \in DOMAIN directives THEN directives[key] ELSE embedded[key]]

\* authoredOptionFailureReasons and canonicalUnsupportedReasons: an option is not
\* known, its value cannot be passed on, or what it asks for cannot be compared.
Uncomparable == {<<"target", "es5">>, <<"module", "amd">>, <<"moduleresolution", "classic">>, <<"strict", "1">>}
IsUnsupported(options, failed) ==
    \/ failed
    \/ \E key \in DOMAIN options :
           \/ key \notin FORWARDED_OPTIONS \cup HARNESS_OPTIONS \cup QUARANTINED_OPTIONS
           \/ key \in MapOptions \cup {"outfile", "baseurl", "downleveliteration"}
           \/ <<key, options[key]>> \in Uncomparable

-----------------------------------------------------------------------------
(* Initially nothing is cached. *)

CorpusInit ==
    /\ pin = 1 /\ bin = 0 /\ idx = 0 /\ meta = {} /\ dtsCache = Nothing
    /\ step = "idle" /\ mode = [dtsOnly |-> FALSE, max |-> 0] /\ blob = NoBlob
    /\ reading = Nothing /\ parsed = Nothing /\ failures = {} /\ testCases = Nothing
    /\ faults = 0 /\ cut = FALSE

\* The submodule is moved between two runs, to any other commit.
Repin ==
    /\ step \in {"idle", "found"}
    /\ pin' \in 1..Pins \ {pin}
    /\ step' = "idle"
    /\ UNCHANGED <<bin, idx, meta, dtsCache, mode, blob, reading, parsed, failures, testCases, faults, cut>>

\* isBlobFresh
Fresh == meta = Listing(pin)

\* BaselineBlobReader.tryLoad: without offsets there is no reader.
Opened == IF idx = 0 THEN NoBlob ELSE [bin |-> bin, idx |-> idx]

\* A run starts; with TSZ_EMIT_BLOB it opens the blob when it is fresh, and else builds it
\* unless it is told not to.
StartRun ==
    /\ step \in {"idle", "found"}
    /\ \E dtsOnly \in BOOLEAN, max \in Maxes : mode' = [dtsOnly |-> dtsOnly, max |-> max]
    /\ \/ step' = "list" /\ blob' = NoBlob
       \/ Fresh /\ step' = "list" /\ blob' = Opened
       \/ ~Fresh /\ step' = "bin" /\ blob' = NoBlob
    /\ reading' = Nothing /\ parsed' = Nothing /\ failures' = {} /\ testCases' = Nothing
    /\ UNCHANGED <<pin, bin, idx, meta, dtsCache, faults, cut>>

\* buildBlob writes three files one after the other; tryLoad opens what is there.
BuildBlob ==
    /\ \/ step = "bin" /\ bin' = pin /\ step' = "idx" /\ UNCHANGED <<idx, meta, blob, cut>>
       \/ step = "idx" /\ idx' = pin /\ step' = "meta" /\ UNCHANGED <<bin, meta, blob, cut>>
       \/ /\ step = "meta" /\ meta' = Listing(pin) /\ step' = "list" /\ cut' = FALSE
          /\ blob' = Opened
          /\ UNCHANGED <<bin, idx>>
    /\ UNCHANGED <<pin, dtsCache, mode, reading, parsed, failures, testCases, faults>>

\* What a build leaves that ends before its time: the file it was about to write as it
\* was, or torn.  Torn bytes (the file is emptied first) serve some slices or none;
\* torn offsets or names do not parse.
CutShort ==
    \/ step = "bin" /\ bin' \in {bin, pin, 0} /\ cut' = (cut \/ bin' # bin) /\ UNCHANGED <<idx, meta>>
    \/ step = "idx" /\ idx' \in {idx, 0} /\ cut' = TRUE /\ UNCHANGED <<bin, meta>>
    \/ step = "meta" /\ meta' \in {meta, {}} /\ cut' = TRUE /\ UNCHANGED <<bin, idx>>

\* openBaselineSource: a read or a write of the build fails, and the run goes on with
\* the files.
BuildFails ==
    /\ CutShort /\ faults < MaxFaults
    /\ step' = "list" /\ faults' = faults + 1
    /\ UNCHANGED <<pin, dtsCache, mode, blob, reading, parsed, failures, testCases>>

\* The process dies wherever it is.
Die ==
    /\ step \notin {"idle", "found"} /\ faults < MaxFaults
    /\ CutShort \/ (step \in {"list", "read"} /\ UNCHANGED <<bin, idx, meta, cut>>)
    /\ step' = "idle" /\ faults' = faults + 1
    /\ UNCHANGED <<pin, dtsCache, mode, blob, reading, parsed, failures, testCases>>

\* Mutant: a cached answer is used whatever became of the file.
Cached_Any(b) == b \in DOMAIN dtsCache

\* The answer for a baseline is in the cache, and its file is still the one it is for:
\* the stamp (modification time and size) tells two commits apart.
Cached(b) == b \in DOMAIN dtsCache /\ dtsCache[b].stamp = pin

\* filterToDtsBaselines
EmitsDts(b) == IF Cached(b) THEN dtsCache[b].hasDts ELSE HasDts(b, pin)
Remembered ==
    [b \in Listing(pin) \cup DOMAIN dtsCache |->
        IF b \in Listing(pin) THEN [stamp |-> pin, hasDts |-> EmitsDts(b)] ELSE dtsCache[b]]

\* retainCanonicalInventory: the first max of them, in their order; 0 is no limit.
Retained(candidates, max) ==
    {b \in candidates : max = 0 \/ Cardinality({c \in candidates : c <= b}) <= max}

List ==
    /\ step = "list"
    /\ LET candidates == {b \in Listing(pin) : mode.dtsOnly => EmitsDts(b)}
       IN reading' = [b \in Retained(candidates, mode.max) |-> "queued"]
    /\ dtsCache' = IF mode.dtsOnly THEN Remembered ELSE dtsCache
    /\ step' = "read"
    /\ UNCHANGED <<pin, bin, idx, meta, mode, blob, parsed, failures, testCases, faults, cut>>

\* readBaselineFile: a slice of the blob where it has one, or else the file.  Offsets of
\* one commit into the bytes of another cut out anything.
InBlob(b) == blob # NoBlob /\ blob.bin # 0 /\ b \in Listing(blob.idx)
TextOf(b) ==
    IF ~InBlob(b) THEN [pin |-> pin, of |-> b]
    ELSE IF blob.bin = blob.idx THEN [pin |-> blob.bin, of |-> b]
    ELSE [pin |-> 0, of |-> 0]

TestCase(b, options, failed) ==
    [text |-> TextOf(b),
     options |-> options,
     unsupported |-> IsUnsupported(options, failed)]
AllOptions(b, directives) == Resolved(Embedded(TestPath(b)), directives, Variant(b))

\* The baseline is there; its test file has been parsed for another baseline, or is
\* read now.
ReadBaseline(b) ==
    /\ step = "read" /\ reading[b] = "queued"
    /\ IF TestPath(b) \in DOMAIN parsed
       THEN /\ testCases' = With(testCases, b, TestCase(b, AllOptions(b, parsed[TestPath(b)]), TestPath(b) \in failures))
            /\ reading' = [reading EXCEPT ![b] = "done"]
       ELSE /\ reading' = [reading EXCEPT ![b] = "test"]
            /\ UNCHANGED testCases
    /\ UNCHANGED <<pin, bin, idx, meta, dtsCache, step, mode, blob, parsed, failures, faults, cut>>

\* Mutant: a file that could not be read is only remembered to have no options.
TestUnreadable_Unmarked(b) ==
    /\ step = "read" /\ reading[b] = "test" /\ faults < MaxFaults
    /\ faults' = faults + 1
    /\ parsed' = With(parsed, TestPath(b), Nothing)
    /\ testCases' = With(testCases, b, TestCase(b, AllOptions(b, Nothing), TRUE))
    /\ reading' = [reading EXCEPT ![b] = "done"]
    /\ UNCHANGED <<pin, bin, idx, meta, dtsCache, step, mode, blob, failures, cut>>

\* Several baselines may be reading the same test file.
TestRead(b) ==
    /\ step = "read" /\ reading[b] = "test"
    /\ parsed' = With(parsed, TestPath(b), Directives(TestPath(b)))
    /\ testCases' = With(testCases, b, TestCase(b, AllOptions(b, Directives(TestPath(b))), FALSE))
    /\ reading' = [reading EXCEPT ![b] = "done"]
    /\ UNCHANGED <<pin, bin, idx, meta, dtsCache, step, mode, blob, failures, faults, cut>>

TestUnreadable(b) ==
    /\ step = "read" /\ reading[b] = "test" /\ faults < MaxFaults
    /\ faults' = faults + 1
    /\ failures' = failures \cup {TestPath(b)}
    /\ parsed' = With(parsed, TestPath(b), Nothing)
    /\ testCases' = With(testCases, b, TestCase(b, AllOptions(b, Nothing), TRUE))
    /\ reading' = [reading EXCEPT ![b] = "done"]
    /\ UNCHANGED <<pin, bin, idx, meta, dtsCache, step, mode, blob, cut>>

Found ==
    /\ step = "read" /\ \A b \in DOMAIN reading : reading[b] = "done"
    /\ step' = "found"
    /\ UNCHANGED <<pin, bin, idx, meta, dtsCache, mode, blob, reading, parsed, failures, testCases, faults, cut>>

CorpusNext ==
    \/ Repin \/ StartRun \/ BuildBlob \/ BuildFails \/ Die \/ List \/ Found
    \/ \E b \in DOMAIN reading : ReadBaseline(b) \/ TestRead(b) \/ TestUnreadable(b)

CorpusSpec == CorpusInit /\ [][CorpusNext]_corpusVars

-----------------------------------------------------------------------------
(* Properties *)

\* A run looks at exactly the baselines that are checked out and asked for, whatever
\* was cached of an earlier checkout and whatever could not be read.
InventoryIsCurrent ==
    step = "found" =>
        DOMAIN testCases = Retained({b \in Listing(pin) : mode.dtsOnly => HasDts(b, pin)}, mode.max)

\* Every option a case was authored with, in their order of precedence, and each of them
\* one the harness passes on or obeys.
OptionsAreWhole(b, options) ==
    LET file == TestPath(b)
    IN /\ DOMAIN options \subseteq FORWARDED_OPTIONS \cup HARNESS_OPTIONS
       /\ \A source \in {Embedded(file), Directives(file), Variant(b)} :
              DOMAIN source \subseteq DOMAIN options
       /\ \A key \in DOMAIN options :
              options[key] =
                  CASE key \in DOMAIN Variant(b) -> Variant(b)[key]
                    [] key \notin DOMAIN Variant(b) /\ key \in DOMAIN Directives(file) -> Directives(file)[key]
                    [] OTHER -> Embedded(file)[key]
\* The text of a case is its baseline's.
TextIsIts(b, r) == r.text = [pin |-> pin, of |-> b]
CaseIsWhole(b, r) ==
    /\ TextIsIts(b, r) \/ step = "idle" \/ (cut /\ blob # NoBlob)
    /\ ~r.unsupported => OptionsAreWhole(b, r.options)

\* A case that will be compared has its options whole, and the text of its baseline unless
\* it was sliced from a blob whose last build was cut short: no checkout, no build that
\* failed or died and was made good, no test file that one of two readers could not read,
\* and no option nobody knows makes of it another case (runner.ts, findTestCases and
\* readBaselineFile).
CasesAreWhole == \A b \in DOMAIN testCases : CaseIsWhole(b, testCases[b])

\* build-baseline-blob.ts:57 calls the hash of the names a proxy for "the directory hasn't
\* been re-pinned to a different TypeScript commit": a case of a run that is not over has
\* the text of the checkout's baseline, whatever an earlier build left.
TextsAreTheCheckouts == step # "idle" => \A b \in DOMAIN testCases : TextIsIts(b, testCases[b])
=============================================================================
