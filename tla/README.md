# TLA+ models of tsz

`tsz` is a TypeScript compiler and language service written in Rust.  This
directory holds models of its core (the on-demand type evaluator of one checking
session, the loading of configurations, the language service with the server and
the coordinates it is reached through) and of the programs that decide what is
believed of it: the conformance tools, the fourslash and emit harnesses, the
benchmarks with their page, and the automation of the repository.  TLC checks
them on small programs, file systems, sessions and fleets of processes; TLAPS checks
proofs that hold for every program, file system, session, corpus, fleet of processes and
set of pull requests, every budget and every order of events.

Paths below are relative to the repository; `checker/` stands for
`src/crates/tsz-core/src/semantics/checker/` and `checker.rs` for the file beside it.

## Inventory

| Component | State it keeps | Operations | What makes it correct |
|---|---|---|---|
| On-demand evaluator (`checker.rs`, `checker/recursion.rs`, `checker/cache_model.rs`, `checker/capabilities.rs`) | `force_queries`, `force_reference_stack`, the completion captures, the verdicts of the program and its files | `force_type`, `force_deferred`, `complete_type`, `require_completion`, `observe_file` | an answer stays only if it is the meaning of its query; a verdict hides nothing; every demand unwinds completely and ends |
| Declaration values (`checker/declaration_value.rs`, `checker/function_model.rs`) | `value_queries`, `parameter_type_overrides` | `declaration_value_type`, `check_variable_declarator`, contextual typing of parameters | a provisional `any` never becomes definitive |
| Required-type pass (`checker/required_type.rs`) | `complete_required_type_nodes`, the active visits | `visit_required_type`, `visit_required_deferred` | it evicts incomplete answers only |
| Checking session (`checker/entry.rs`, `checker/entry/display_summary.rs`) | the current file, the pass | required-type pass, checking pass, flushes, value summaries, export summaries | what is met on behalf of a file is observed on that file |
| Alias graph (`checker/recursion.rs`) | none (computed on demand) | `alias_recursion_productivity` | an alias is unproductive iff it only names itself |
| Type relation (`semantics/relation.rs`) | the pairs under comparison, the depth | `relate`, one case per type constructor | the verdict is the greatest fixpoint unless a limit or a deferral is reported |
| Binder and flow (`bind.rs`, `bind/flow.rs`, `checker/flow_reference.rs`) | scopes, symbols, flow nodes | hoisting, merging, flow construction, narrowing | the same declarations whatever their order; narrowing terminates on loops |
| Capabilities (`program/capabilities.rs`) | claims per target and node | closure over dependents, recovery, emit targets | a nonclaim reaches everything that depends on it |
| Compile pipeline (`program.rs`, `emit_paths.rs`, `emit.rs`) | none across compilations | parallel parse and bind, check, emission plan, exit status | the first nonempty phase is reported; no input is overwritten; a missing output is not silent |
| Configuration (`config.rs`) | the cache of loaded configurations, the stack of `extends` | `load_config`, root discovery | a cached configuration equals one loaded from nothing |
| Language service (`service.rs`) | options, open files and their versions, the compiled snapshot | open, change, close, configure, reset, queries | every answer is of the current files and options |
| tsserver (`tsserver.rs`) | the service, the response number | read a frame, dispatch, write a response | one response per request, in order; a refused request changes nothing |
| Source coordinates (`source.rs`) | the line index of a text | line and column to byte and back | both sides of the protocol mean the same place |
| Driver (`driver.rs`) | none across projects | single and batch compilation, writing outputs | one sentinel per project |
| Conformance runner (`runner.rs`, `runner/plan.rs`) | counters, fatal errors, timings | concurrent tests with timeouts, sharding | each selected test has one result; shards partition the tests |
| Oracle cache (`generate-tsc-cache.rs`) | cache, dispositions, the semaphore | concurrent generation, publication | no partial cache is published |
| Fourslash harness (`src/scripts/fourslash/`) | the parent's counters of its processes, the shared word and buffer of each bridge, the sessions of the servers, the files the host opened | deal, watch and account for processes; send, wait, time out, reset, restart; open and edit files | a test hears only its own answers, from a server that has its texts; the report says what happened; every run ends |
| Emit harness (`src/scripts/emit/src/`) | the baseline blob, the discovery cache, the scopes and children of two compilers, the results | discover, read, stage, run two compilers, compare | a case is compared as it was authored, and passes only if both compilers did the same |
| Benchmarks and their page (`src/scripts/bench/`, `src/scripts/ci/project-compatibility.mjs`, `benchmark_data.js`) | the payloads of the jobs, the merged artifact, the page | measure, merge, judge, publish, chart | a ratio is shown only of what was timed and proven; no row vanishes |
| Repository automation (`src/scripts/ci/`) | issues and pull requests on GitHub; none of its own | sentinel issues of a standing condition, refreshing one green pull request | the issue ends up as the condition is; only what is green and stale is refreshed, one at a time |
| Scanner, parser, printer, site markup, other scripts | - | - | sequential text processing; not modelled |

How they interact: the driver and the service call the compile pipeline; the
pipeline parses and binds the files in parallel, runs capability analysis, and
runs one `Checker` on one thread; the checker's components call each other
recursively and share the caches above; the pipeline turns the checker's verdict
into an exit status, while the service reads the verdict of one file.  The
conformance runner starts compilers as processes and compares their diagnostics
with the oracle cache.  The fourslash parent forks test processes; each test blocks
its process on shared memory until a thread has passed its request to a `tsz-server`
and the answer back.  The emit runner starts tsz and the pinned TypeScript side by side
in directories of their own.  The benchmark jobs, the compile guard, the merge, the
readiness check and the site hand each other files; the scripts of `src/scripts/ci`
share nothing but GitHub.

The hard behaviours are listed, each at its line, under `hazards` in
`PROJECT.json`.  In the checker the actors are the demands: they nest to any
depth, meet the same queries in different orders and contexts, are cut off by a
cycle or by the budget, and leave behind answers that later demands rely on.
Around the compiler they are processes, threads and people: answers that come after
their question was given up, processes killed while their last words are in a pipe,
caches of another checkout, jobs that run twice, pages that shift while they are read.

## What is modelled

| Module | Models |
|---|---|
| `Completions` | `SemanticCompletion` and its combination, the capture stack of `CompletionTracker` |
| `AliasGraph` | the two facts `recursion.rs` derives of an alias: unproductive, productive |
| `ForceQueries` | the evaluator: passes, demands, `force_deferred`, `declaration_value_type`, `check_variable_declarator`, `visit_required_type`, the flushes and the summaries |
| `ForceQueriesProperties` | the meaning of a query and the properties |
| `ForceQueriesMC`, `ForceQueriesThreeMC`, `ForceQueriesSummaryMC` | families of programs for TLC |
| `ForceQueriesProofs` | the theorems about the evaluator |
| `ConfigLoading` | `Resolver::load_config` of `config.rs`: `extends`, cycles, the cache, the diagnostics |
| `ConfigLoadingProperties` | a loader with no cache, as reference, and the properties |
| `ConfigLoadingMC` | families of file systems for TLC |
| `ConfigLoadingProofs` | the theorems about the loader |
| `CurrentAnswers` | abstract: a service that answers every question from the present options and texts |
| `LanguageService` | `service.rs`: the calls, the open files, the shared snapshot |
| `TsServer`, `TsServerProperties` | `tsserver.rs` over `LanguageService`, with a client that does not wait |
| `SourceCoordinates` | `SourceCoordinateIndex` of `source.rs` and the slicing of `apply_change`; a reference on UTF-16 units |
| `TsServerProofs` | the theorems about the service and the server |
| `EditorMC` | the instance of the service, the server and the coordinates for TLC |
| `SourceCoordinatesProofs` | the theorems about the coordinates |
| `OracleCache` | `generate-tsc-cache.rs`: threads, the semaphore, native processes, the two files; the worktree |
| `ConformanceRunner` | `runner.rs` and `validate_live_domain` of `plan.rs` beside it: accepting the evidence, the tests, the accounting |
| `ConformanceProperties`, `ConformanceMC` | their properties; the constants of their instance for TLC |
| `ConformanceProofs` | the theorems about the generation and the run |
| `FourslashContract` | abstract: what a test process tells its parent, in which order |
| `FourslashWorker` | `test-worker.cjs`, the bridge of `tsz-adapter.cjs`, the thread of `tsz-worker.cjs`, the server as they see it |
| `FourslashRunner` | `runner.cjs`: the parent of processes that keep the contract |
| `FourslashSelection` | `runner.cjs`: the weights of the last snapshot and the shards |
| `FourslashAdapter` | `TszClientHost` of `tsz-adapter.cjs`: scripts, disk and the files open in the server |
| `FourslashMC` | their instance for TLC |
| `FourslashProofs` | the theorems about the processes, the parent and the host |
| `EmitCorpus` | discovery in `runner.ts`: caches, baselines, test files, authored options |
| `EmitRunner` | `runTest` and `main` of `runner.ts` over two `CliTranspiler`s |
| `EmitBaseline`, `EmitWitness` | `parseBaseline`; the canonical form of what two compilers said |
| `HarnessesMC` | the instance of the conformance tools and of the emit harness for TLC |
| `EmitProofs` | the theorems about the comparison and the discovery |
| `BenchRows` | what a row may say: `record` and the readers of `row-utils.mjs` |
| `BenchPipeline` | the jobs, `merge-results.mjs`, `check-artifact-readiness.mjs` |
| `BenchSite` | the choice of an artifact and what `benchmark_data.js` shows of it; the properties |
| `Sentinels` | `sentinel-issues.mjs` under `check-main-red.mjs` and `check-latest-freshness.mjs` |
| `GreenPrs` | `refresh-green-prs.mjs` |
| `AutomationProofs` | the theorems about the sentinels and the pull requests |
| `AutomationMC` | the instance of the benchmarks, the sentinels and the pull requests for TLC |

### The evaluator

The Rust call stack is the variable `frames`: one record per active call, with
the call's locals (operand to force next, expansion depth, checkpoint of the
reference stack, verdict so far).  `control` is what the evaluator does next:
enter a query, run the call on top, normalise or finish its answer, or return
one.  Each action is the piece of a Rust function between two calls into the
evaluator, with every early return as an action of its own:

| Actions | Code |
|---|---|
| `SelectFile`, `NextPass`, `RequireTypeNode`, `MarkProvisional`, `DemandType`, `CheckDeclarator`, `FlushOrigin`, `SummariseValue`, `SummariseExport` | what `Checker::check` asks of the evaluator in each of its passes |
| `ForceReady`, `ForceActive`, `ForceOverBudget`, `ForceEnter` | the guards of `force_deferred` (`checker.rs` 687-717) |
| `Evaluate...`, `ForceOperand`, `ForceShapeChild`, `ResumeForce`, `NormaliseResult`, `FinishForce` | its evaluation, by kind of query, and its end (718-831) |
| `Declaration...`, `InferContexts`, `InferOperand`, `ResumeInference`, `FinishDeclaration` | `declaration_value_type` |
| `FinishInitializer`, `PublishDeclarator` | `check_variable_declarator` |
| `Visit...`, `ResumeVisit` | `visit_required_type` |
| `Close...` | the root call takes its answer: `require_completion`, `require_file_completion` |

The program is data: `prog` gives each query its kind, the operands its
evaluation forces in order, what it yields, its file, its context and the static
facts of its declaration.  It is chosen in `Init` and never changes.  A type that
is not a query is only `Plain` (definitive through its whole graph) or `Faulty`
(it holds an error or an invalid projection), since that is all
`is_cacheable_type` looks at.  The order of the demands within a pass is free:
every order of statements is a behaviour.

The required-type pass does not leave a file before it has visited every type that is
authored there, the annotation of each value and the body of each alias
(`positions`, `FileIsVisited`; `required_type.rs:250-271`).  An instance of a generic alias
is authored wherever it is used, so it may be visited any number of times.  `VisitForce`
forces whatever was visited; the code leaves conditional and mapped types, bound predicates and
projections of a type parameter to a later demand (`required_type.rs:1067-1086`).
`AliasGraph` has the two outcomes that are acted on and not `Unsupported`.

Left out of these modules: growing type arguments (generative recursion), the
self query of a named function expression, class properties, the grammar checks
made by the required-type pass, and the types and texts themselves.

### The loader

`load_config` calls itself for each base of a configuration.  `loads` is the stack
of active calls, each with the next base to load, what is merged so far and
whether all of it was complete; `Stack`, the configurations of those calls, is the
argument `stack` of the code.  `cache`, `incomplete`, `seen` and `diagnostics` are
the fields of `Resolver`; diagnostics are a set because the result is sorted and
freed of duplicates.

| Actions | Code |
|---|---|
| `EntryMissing`, `ResolveEntry`, `EntryLoaded` | `resolve_explicit_project`, `resolve_config_entry` |
| `LoadCircular`, `LoadCached`, `LoadUnreadable`, `LoadEnter` | the guards of `load_config`, in their order |
| `ExtendMissing`, `Extend`, `MergeNothing`, `MergeBase` | its loop over `extends` |
| `Finish` | its end: own settings, completeness, the cache |

The file system is data, chosen in `Init`: what each configuration extends, which
settings it gives, which files cannot be read.  Options and the `files`, `include`
and `exclude` selectors are all settings, since `merge_from` treats each of them
alone and the last that gives one wins; the value of a setting is the
configuration it came from.

Left out: the search for a root, decoding and validating options, the texts of
deferred options, project references, and the expansion of the selectors.

### The service and the server

`LanguageService` has one action for each method that takes `&mut self`
(`Configure`, `Open`, `Change`, `ChangeUnknown`, `Close`, `Reset`) and `Query` for
the methods that answer from `with_compiled_snapshot`.  Paths are what callers
spell; `normalize_path` is any idempotent function on them.  The compiler is a
function of the options and the open texts, so its output is that pair, and
`Claimed` is any predicate that tells whether an output has a definitive answer.
`reply` is what the last call returned.  The versions of the files are left out:
they are kept and reported, and decide nothing.

`TsServer` EXTENDS it: `Handle` has an action for each branch of
`Server::dispatch` and each refusal in it, and takes the service's action and the
server's together, since `handle` runs to its end before anything else is read.

| Actions | Code |
|---|---|
| `ConfigureRequest`, `PlainRequest`, `UnknownRequest`, `OpenRequest`, `OpenRejected`, `CloseRequest`, `ChangeRequest`, `ChangeRejected`, `ResetRequest`, `TextRequest`, `FileMissing` | `Server::dispatch`, `open_content`, `file_argument`, `apply_change` |
| `DiagnosticsRequest`, `NavigationRequest`, `NavigationRejected` | the queries; an answer that is not claimed is an error, and so is one that names a file that is not open |
| `Write`, `WriteFails`, `ReadGarbled`, `ReadEnd` | `Server::run`, `read_framed_message`, `write_framed_message` |
| `Send`, `SendGarbled`, `CloseStream`, `Receive` | the client |

`control` is where the loop is: reading, writing a response, or stopped.  The
client sends whatever it likes before it has read a response, and keeps its own
`view` of the options and texts: `Effect` says what a request does that succeeded.
A file opened without its content is `Unknown` to it.  Texts and edits are
members of a set here, `Splice` the function that applies one to the other; the
bodies of answers are the output they were taken from.

`SourceCoordinates` is the detail of `Splice`: a text is a sequence of kinds of
characters, each with its width in UTF-8 and UTF-16, `line_starts` is built as the
code builds it, and `Changed` finds the two bytes and slices.  Left out: the
decoding of arguments, including numbers that do not fit in 32 bits.

### The conformance tools

`OracleCache` is a process that threads run in, and what changes beside it:
`Edit` and `Checkout` change the tests on disk at any moment, `Killed` ends the
process.  A test goes through `ReadTest`, and for each of its configurations
`acquire` and `NativeEnds`; `AllProcessed`, `Recheck` and the four steps of the two
files are `main` after the threads.  A digest is the text it is of.

| Actions | Code |
|---|---|
| `ReadTest`, `PrepareFails`, `NativeEnds` | `process_test_file`, `run_command_with_timeout` |
| `acquire`, `release`, `SpuriousWakeup` | `CountingSemaphore`: a thread that finds no permit waits, one that is woken looks again, and one that never waited may be faster |
| `CreateCache`, `write_cache`, `CreateDomain`, `write_domain` | the file is truncated, then written; a buffered write that fails when the writer is dropped is not noticed, so the file may stay `Torn` though all seems well |
| `load_cache`, `load_domain`, `Identify` | `Runner::new` |
| `DispositionRead`, `SourceRead`, `Compare` | `validate_live_domain`, which reads every test twice |
| `run_test`, `compile_text_variant` | `run_test`, `compile_text_variants`: any configuration may time out or fail to start |
| `Account`, `Publish` | the end of `Runner::run` and the exit status |

`ConformanceRunner` EXTENDS it, since the two programs share the tests and the two
files and nothing keeps them apart.  The futures of the tests are polled by one
task and never wait between two counters, so counting a result is one step.
Answers are records of a sequence of diagnostics and an exit status; `canonical`
joins those of all configurations, as the code does.  A pass is therefore about the
joined sequence: in the instance tsz passes `paired` although each of its two
configurations has another share of the diagnostics than the native compiler's.
Left out: the shared declarations in `tests/lib`, which are copied when a test
is prepared and are in no digest; the identity of the native compiler, which stays
the same; and the selection of tests, any set of which may be left.

### The fourslash harness

Three parts, joined by a contract.  `FourslashWorker` is one test process with its
bridges: each bridge has a shared word (`control`), a shared buffer (`data`), a
thread, a server with at most one request and one answer, and the `session` of tests
the server has heard of.  The process never turns its event loop inside a test, so
what a thread `posted` about a dead server is seen at the next await only.

| Actions | Code |
|---|---|
| `Ask`, `Refuse`, `Post`, `Notify`, `TimeOut`, `Receive` | `sendRequest`: the refusals, the store to the word, `Atomics.wait` and its three ways back |
| `TakeRequest`, `Fill`, `Signal`, `ServerDies` | the thread's loop: reading, framing, answering, an exit of its server |
| `StartTest`, `Judge`, `Hang`, `ResetSession`, `Restart`, `StartFails`, `GiveUp`, `Started`, `CheckMemory`, `Finish` | the loop over the tests of `test-worker.cjs`; `mode` "sequential" is `runSequential`, the same loop with another recovery |
| `ServerAnswers`, `ServerIsConfused` | external: a server that answers in time, late, or with what is no answer |

`FourslashContract` says what such a process tells its parent: ready, then for each
test that it starts and how it ended, then done.  The process keeps it
(`KeepsContract`), and `FourslashRunner` lets its processes do exactly that:
`ProcessSends` and `ProcessDies` follow the contract, `Handle`, `HandleExit` and
`Watchdog` are the parent, and what a process sent and its end reach the parent in either
order.  `truth` is what really happened to each test; no action reads it.
`FourslashSelection` is pure: what the snapshot of the last run makes of the shards.
`FourslashAdapter` is the host of one test; TypeScript's own harness below it is
external.

### The emit harness

`EmitCorpus` is `findTestCases`.  The two caches outlive a run, so `Repin` (the
checkout moves to any other commit, one it was at before too) and `Die` (a run ends
anywhere) come between and inside runs.  `BuildBlob` writes the bytes, the offsets and
the names of the baselines, one file a step, over those of the last build; `CutShort` is what
a build leaves that dies or fails between two of them or inside one, and after a failure
the run goes on with what is there (`BuildFails`, `Opened`).  `cut` is history, which no
action reads: the last build that began to write was cut short.  Baselines are read side
by side: `ReadBaseline` starts what `TestRead` or `TestUnreadable` ends, and
readers of one test file share what the first found.  Options are functions from names
to values, from three sources with an order of precedence.

`EmitRunner` is `runTest` with its two compilers: `Begin` stages a case and starts
its children, `ChildWrites`, `ChildEnds` and `ChildIsKilled` are theirs, `Record`
compares when both have settled, `Finish` and `Interrupted` end the run.  `truth` is
whether both compilers did the same on the surfaces of the run.  `EmitBaseline` and
`EmitWitness` are pure; TLC evaluates them for every baseline of up to three sources and
every set of up to three diagnostics.  Left out: what fails before a scope is guarded
(`cli-transpiler.ts:557-661`) or in its removal (893), which leave a directory until
`terminate()` takes them all.

### The benchmarks and their page

`BenchRows` holds the tables and the predicates every later stage reads a row with; a
digest that is present or agrees is a Boolean.  `BenchPipeline` has the jobs
(`Measure`, `Fail`, which leaves a stub), the compile guard (`Guard`), `Merge`, the
upload and the readiness check (`Judge`), whose exits are tried in the order of the
script.  A job may run twice, on another machine or unsigned.  Two fields of a row are
what happened and no code reads them: `ran` (both compilers ended while they were timed)
and `edited` (the sources changed meanwhile).  Machines differ in what is
fatal to the merge; the model and the memory of a processor, of which it only warns, are
left out.  `BenchSite`
publishes: it chooses between the fresh artifact and an older one, sanitises it, adds
the rows that are expected, charts and lists.

### The repository's automation

`Sentinels` takes one gh call as one step: `Fire` reads a verdict, `Walk` a page of
issues, `Call` makes the next call of the plan `Calls`, `Abort` and `Finish` end the
firing.  In between main's CI runs (or latest.json is published), items are opened,
and people edit or close issues; any call may fail, and `runGh` swallows that.  The two monitors are one module,
`watched` tells which.

`GreenPrs` is one run of `refresh-green-prs.mjs`, again a call a step: `List`,
`ReadBase`, `OneByOneGuard` for each armed pull request, `Choose`, `Pick`, `Update`,
`Poll`, `Arm`.  `Pushes`, `Checks`, `Marks`, `Merges`, `MainMoves` are others;
`Applies` is GitHub carrying out an accepted update later, or dropping it because the
head has moved.  A pull request whose update was accepted and carried out after the
last poll is armed by nobody; the script has no memory of it and promises nothing.

## Runs

| Run | Question | Bounds |
|---|---|---|
| `force_three` | Are verdicts honest and the caches pure where every cycle has three queries and is longer than the budget, where a parameter is forced before its context is known, and where something unclaimed is met through any other kind of query; does every call unwind, are definitive answers kept, and is every demand answered? | rings of references, binaries and values, up to rotation; three queries, one a parameter, one a value that fixes it; arguments that force the query they belong to; any two queries over one that is not claimed; two files, `MaxDepth = 1`; fairness below |
| `force_type_query` | violation of `ForceCachePurity` | aliases of `typeof p` |
| `force_summary` | violation of `VerdictReachesAFile` | a default export `-s` of an imported `s`, two files |
| `config` | Is the cache invisible, is everything wrong reported, does loading end? | every way three configurations extend up to two others or a missing one, any of them unreadable; four configurations, an entry with up to three bases, cycles entered in the middle and shared, any of which give a shared setting |
| `editor` | Does the service with a snapshot implement the one that compiles for every query; do a server and a client that does not wait agree, and is every request answered; do lines and columns mean the same place on both sides? | two files, one of them with two spellings, two texts, two options; three requests of fifteen kinds, valid or not; every end of the stream; texts of up to three characters of six kinds, every range, every insertion of up to one character; fairness below |
| `harnesses` | Is the evidence of a conformance run whole and of one corpus and are its passes earned; are the cases of the emit harness those that are checked out and whole, and is every pass of its comparison earned; do both runs end? | conformance: two tests, five texts, two commits, two generations and one run, an edit or a change of commit and what undoes it, a thread for each test and one permit; emit: two commits to go back and forth between, three baselines of one test file, one fault, two cases side by side, baselines of up to three sources, chains of up to four, sets of up to three diagnostics; fairness below |
| `emit_blob` | violation of `TextsAreTheCheckouts` | as `harnesses`, discovery alone |
| `fourslash` | Does each test hear its own answers from a server that has its texts, is the report true, are shards balanced, does every run end? | two tests of one request, three bridges, two attempts, two faults; three discovered tests, two shards, two processes, one death; four paths and five calls; fairness below |
| `fourslash_stuck` | violation of `HealthyRunReports` | as `fourslash` |
| `automation` | Is the page honest and complete and readiness earned; do the sentinels settle; is only what is green and stale refreshed, one by one? | six rows in two jobs, of which one row per job ends out of the ordinary, two payloads; up to three items in pages of two, two CI runs, three troubles; two pull requests, two polls, two changes by others; fairness below |
| `bench_edited` | violation of `NoEditIsCharted` | as `automation` |
| `ci_canonical` | violation of `CanonicalStaysOpen` | as `automation` |

Parts that share nothing share a run: a variable `part` chooses which of them moves, the
others rest in an initial state.  A property that would say nothing of a part that rests is
guarded by `part`.

Why the bounds are enough: a query is evaluated from its own operands and body,
so two queries over a third show every way one evaluation can meet another (as operand, as
body, as itself, above or below it), three in a ring give a cycle an entry that is neither
its first nor its last member, and a budget of 1 (100 in the code) is passed by
chains of three and by nested demands while direct ones stay within it.  Two files
separate the file of a declaration from the file that demands it.  The runs have
no other bound: the state space is finite because the caches are.  They disable
the deadlock check, because a session ends: after the last pass nothing happens.

For the loader, three configurations make every cycle of one, two and three
members, entered anywhere, with a way out; the hazard of its cache needs a fourth: a
cycle of two whose members are both bases of a configuration outside it, one
reached first through the other and later by itself.  There too the search is
exhaustive, and ends because loading does.

The service's state space is finite with no bound on the number of calls.  The
server's sessions are bounded by `MaxRequests`: three are an edit, a second edit
that is refused or uses the other spelling, and a query, or an edit between two
queries; the calls of the service alone are explored without a bound.  The server itself keeps nothing between
requests but a number.  The pipe between them is not bounded.  A text of
three characters has CR and LF side by side with something before or after them, a
surrogate pair between two lines, and all of them at its end, which is where the
arithmetic differs.  `editor` disables the deadlock check because the server
stops at an exit or the end of the stream.

Two tests and two generations are what it takes for a cache of one corpus to meet
a domain of another, and one edit with its undoing to change a test between
two reads and back.  One permit and a second configuration make a thread that was
woken meet one that never waited.  What a second run would do, the first may do at
a later time, since runs share only the files.

A second test is what an answer or a session of the first can reach; a third bridge is
the one that replaces a replacement, and two faults are a late answer and what then goes
wrong with the recovery.  Two processes are one that is lost or quiet and one that
works on.  Three baselines of one file give a reader of the blob, one of the disk and one
that finds the file already read; two commits are the one whose blob was built and the one a
build was cut short at, and the way back is between them; one fault is that build.  Two cases are one that runs while the other is
compared.  One row out of the ordinary in each job meets every other way a row may
end in the other job; a second payload is a job run twice.  Three items in pages of
two make a page shift, and two sentinels beside an item.  Two pull requests are one that is
refreshed and one on its way.  These runs disable the deadlock check: a run of a
harness ends, and the bounds on faults and changes are used up.

The properties, in `ForceQueriesProperties`:

- `CachePurity`: a `Ready` entry is the meaning of its query (`Means`).  The queries that
  have a meaning (`HasMeaning`), and what a query leads to through the queries it yields
  (`Leads`), are the least sets closed under the rules of evaluation: there is no cache, no
  budget and no recursion guard in them, and a query on an unguarded cycle is in neither.
- `ReadyAnswersStay`: a `Ready` entry of `force_queries` is never replaced, no
  evaluation of its query starts while it stands, and only in the required-type pass can
  it be dropped: by the visit of the same query, when one of its operands has forced the
  query meanwhile and a later one was incomplete.
- `VerdictIsHonest`: as long as the verdict under which a demand is made is
  Complete, the demand gets the meaning of its query or no type at all.
- `ProgramIsWorstFile`: no file is worse than the program, and until the last file
  is checked the program's verdict is that of some file.
- `CallsUnwind`, of `StackDiscipline`, `MarksAreActiveCalls` and `Quiescent`: marks,
  captures and the reference stack follow the calls exactly, and nothing is left
  between demands.
- `DemandsReturn`: every demand is answered.

and in `ConfigLoadingProperties`, where `Fresh(h)` and `FreshDiagnostics(h)` are what a
loader with no cache would give and report on the file system `h`:

- `CacheIsDefinitive`: no configuration from which a cycle can be reached is
  remembered.
- `LoadingIsFresh`: what is remembered is what loading it from nothing gives
  (`CachedIsFresh`), so the cache cannot be seen in the result, neither in its settings
  (`EntryIsFresh`) nor in its diagnostics (`DiagnosticsAreFresh`).
- `LoadingEnds`.

in `LanguageService` and `TsServerProperties`:

- `SnapshotIsCurrent`: the snapshot is absent or the output for the present
  options and texts.
- `AnswersAreCurrent`: the service implements `CurrentAnswers`.
- `ResponsesAreComplete`: one response per request, in order, numbered without a gap,
  and a good exit means every request that could be read is answered, up to the end of
  the stream or an exit.
- `ViewsAgree`: once everything is answered and read, client and server hold the
  same options and texts; what was refused changed nothing.
- `AnswersMatchView`: an answer is of exactly the requests before its own.
- `RequestsAreAnswered`: while the server runs, every request is answered.

and in `SourceCoordinates`:

- `CoordinatesRoundTrip`: places between characters and
  accepted lines and columns are in an order-preserving bijection.
- `ChangesAreTheClients`: a change does to the bytes what a client that counts
  UTF-16 units did to its own copy, and is refused only if the range is none.

and in `ConformanceProperties`:

- `EvidenceIsSound`: a cache that can be read has all the answers of the texts its
  rows name (`RowsAreWhole`), and rows, domain and digests that pass the preflight are of
  the same texts of the whole corpus (`AcceptedEvidenceIsOfOneCorpus`).
- `PassesAreEarned`, `ResultsAreCountedOnce`.
- `GenerationEnds`.

in the modules of the harnesses (`Fourslash...`, `Emit...`):

- `TestsAreIsolated`: no test hears of another, in an answer, in what a reset leaves or
  in the session it runs in, until the process says it could not replace a bridge.
- `KeepsContract`: a process implements `FourslashContract` whatever fails.
- `ReportIsTrue`: a row of the report is what happened to its test.
- `ShardsAreBalanced`: the shards are a partition, and no shard outweighs another by
  more than the last test it was dealt.
- `ServerSeesTheHost`: a script that is open in the server has the host's text there.
- `EveryoneEnds`: a process and the run it is part of end.
- `InventoryIsCurrent`: a run looks at exactly the baselines that are checked out and
  asked for.
- `CasesAreWhole`: a case that will be compared has all its options, and its own text unless it was
  sliced from a blob whose last build was cut short, which `TextsAreTheCheckouts` is about.
- `ComparisonIsEarned`: a good exit means both compilers did the same for every case
  (`ExitIsEarned`), and no child outlives the row of its case (`RecordedIsOver`).
- `ReadingsAreTrue`: every product of a baseline is found, and the witnesses of both
  compilers depend on what was said and not on its order or form.
- `RunsEnd` (in `HarnessesMC`, of both harnesses): a run that is under way ends.

and in `BenchSite`, `Sentinels` and `GreenPrs`:

- `PageIsHonest`: a ratio is shown only of what was timed to its end and, of a project,
  proven; of sources that were edited while they were timed, only with the compile
  guard's record in place of the row's own, which `NoEditIsCharted` is about.
- `NothingVanishes`: a row that was measured or is expected is charted or listed, and not both.
- `ReadyIsWhole`: an artifact that passes has every row the gate measures once, none of them with
  times of sources that were being edited, and says "completed" only with every required row.
- `SentinelsSettle`: once the condition stays as it is, one sentinel is open, or none.
- `OnlySentinelsAreTouched`: nothing but a sentinel that was read is changed.
- `RefreshIsEarned`: a head GitHub is asked to update is green and behind.
- `OneByOne`: no pull request is refreshed while another has been on its way since the
  run listed them.

Fairness: `FairSpec` assumes weak fairness of `Evaluate`, the disjunction of all
steps the evaluator makes by itself.  The checker is one thread and never waits,
so an evaluation that can take a step takes one.  Nothing is assumed of the passes
(`Check`): a session may stop between demands.  The loader is one thread too, and its
`FairSpec` assumes weak fairness of `Next`.  The server's fairness (`FairServerSpec`, `EditorSpec` in the run) is of `Serve`,
the loop, which waits for nothing but input, and of `Receive`: a client that never
reads would fill the pipe, which the model does not bound.  Nothing is assumed of
what a client sends.  The `FairSpec` of the conformance tools assumes weak fairness of
each thread, of each future and of what follows them: a process ends or times
out (with `--timeout 0` it need not), and of threads that want a permit none takes
it more than a bounded number of times.

In `fourslash` weak fairness is assumed of the process (its waits are bounded, and its
timer fires), not of its threads or servers; and of the parent, whose handlers and
watchdog run when their event is there, not of the processes.  In the emit part of `harnesses` it is assumed of
children that end or are killed when their time is up, of the start and the recording of cases,
and of the end of the run; a TypeScript API session that hangs in a synchronous call
would hold up every timer and is not modelled.  In `automation` it is assumed of the
monitors alone: `ci-health.yml` fires every 15 minutes, and a firing that started takes
its next step or is aborted.  `refresh-green-prs.mjs` is dispatched by hand, so nothing
is assumed of it and only safety is checked.  Nothing is assumed of the jobs and the site.

## What the violations show

Six runs refute something the repository says of itself; `findings` in
`PROJECT.json` quotes each line.

- `force_type_query`: the locality test looks at arguments and operands, not at
  the body of an alias, so `type X = typeof p` forced while `p` is provisional is
  remembered as `any`.  `force_three` checks `CachePurity` for all the other ways
  to depend on a parameter.
- `force_summary`: `export default -s`, where `s` is an imported string: the checking pass
  infers it without forcing it, and the summary that forces it runs on behalf of no file. So
  the program ends incomplete (the compiler exits so) while every file's verdict, which is
  what the service answers with, is Complete.
- `fourslash_stuck`: a process that has said it is done stays alive and quiet; the
  watchdog kills it while another works on, its exit is counted a second time, and the
  parent ends a run of healthy processes without its results.
- `emit_blob`: a blob is built at one commit; at another, a build writes the bytes and is cut
  short; back at the first, the names still match, so the old offsets slice the bytes
  of the other commit, and a case is compared with a text that is nobody's.
- `bench_edited`: a canary's sources are edited while it is timed, so its record is lowered; the
  merge puts the compile guard's record in its place and keeps the times, and the page charts
  them.
- `ci_canonical`: an item opened between two pages shifts the sentinel onto the next
  page; found twice, it is closed as a duplicate of itself while main is red.

Disagreements met while modelling that no run shows:

- `Limit` depends on the order of demands (`checker.rs:693`): a chain of aliases longer
  than the budget is excessively deep from its head and definitive from its tail,
  against `docs/architecture/RESET.md:180`.  Demands inside an evaluation start again
  from depth zero (`recursion.rs:239`, `call_model.rs:97`), against `RESET.md:145`.
- An optional timed row without exact evidence fails the readiness check
  (`check-artifact-readiness.mjs:427`), against `project-rows.mjs:1255`.  The page
  shows a timed row whose compatibility was never recorded as "Fails".
- `runner.cjs:12` says that the tests of a dead process are redistributed; they are
  accounted as timed out or not run.  A bridge that failed to start keeps `_exited` when it
  is retried (`tsz-adapter.cjs:61`).
- `runner.ts:324` keeps what was asked for, but the declarations-only discovery drops
  a baseline of an `.mts` source.
- With a verdict of "unknown" and a sentinel that exists, `reconcileIssue` of
  `check-main-red.mjs` reads `verdict.run.sha` of no run.
- `refresh-green-prs.mjs` arms auto-merge for any other head it then finds, its usage says
  the refreshed one.

## Proofs

### The evaluator

`ForceQueriesProofs` proves, for every set of queries, program, budget and order of
demands:

- `TypeCorrect`: `Spec => []TypeOK`
- `StackIsDisciplined`: `Spec => []StackDiscipline`
- `MarksAreCalls`: `Spec => []MarksAreActiveCalls`
- `NothingIsLeft`: `Spec => []Quiescent`
- `EveryCallUnwinds`: `Spec => []CallsUnwind`, the last three together
- `ProgramVerdict`: `Spec => []ProgramIsWorstFile`
- `AnswersStay`: `Spec => ReadyAnswersStay`
- `CachesArePure`: `Spec /\ ContextualTypesAreLocal(prog) => []CachePurity`
- `VerdictsAreHonest`: `Spec /\ ContextualTypesAreLocal(prog) => []VerdictIsHonest`

Assumptions: `TypesAssumption` (queries, definitive and faulty types are disjoint),
`ProgramsAssumption` (the programs are well typed, and a parameter that takes its
type from a context has no annotation and no initializer of its own, so its own value is
`any`: `ParametersAreLeaves`),
`FileAssumption` (there is a file), `MaxDepthAssumption` (the budget is a natural
number).  TLC evaluates them in every run.

The argument.  The inductive invariant is

    IInv == TypeOK /\ ParametersAreLeaves(prog) /\ StackDiscipline /\ MarksAreActiveCalls

None of its parts is inductive alone.  `TypeOK` needs that no stack is popped when
empty: a call with an open capture finds one (`CapturesOpen`, from
`MarksAreActiveCalls`), and the reference stack is at least as long as the
checkpoint it is cut back to (`ReferencesNest`).  `MarksAreActiveCalls` needs, for
`InferContexts`, which drops the value queries of parameters, that no parameter
among them is being evaluated: a parameter's value stays on top of the stack and
runs to its end (`ParametersOnTop`, from `ParametersAreLeaves`), and the call on top
is the one that infers; for `VisitClose`, which evicts an answer, that no
evaluation is below a visit (`VisitsComeFirst`); for `PublishDeclarator`, that a
root call is alone (`CallsNest`).  The proof first shows that an action moves the
stack of calls in one of three ways (the call on top goes on, it calls, it
returns) and that each way keeps the invariant (`GoesOnKeeps`, `CallsKeeps`,
`ReturnsKeeps`); `StepKeeps` then has one case per action.

`ProgramVerdict` adds `OnBehalf`: while a pass goes over the files, an evaluation
runs on behalf of one of them.  It is false afterwards, which is what `force_summary`
shows.

`AnswersStay` is about steps.  An evaluation writes its answer where `MarksAreActiveCalls`
says its mark stands, so never over another answer, and a demand that finds an answer starts
no evaluation.  What remains is the eviction at the end of a visit: a visit is only ever
active in the required-type pass (`VisitsAreRequired`, a second inductive invariant), and
it evicts what it was called for and nothing else.

`CachesArePure` and `VerdictsAreHonest` speak of the programs in which whatever yields the
type of a parameter that an initializer fixes is request-local
(`ContextualTypesAreLocal`).  That is what `deferred_result_is_query_local` is there for;
it is false for `type X = typeof p`, and there `force_type_query` shows the cache impure.
TLC evaluates it for every program of `force_three` (`ThreeAssumption`); a program without
such a parameter satisfies it trivially.  A second inductive
invariant, `Pure`, beside `IInv`, carries them:

- `Linked`: every call was made for what the call below waits for (`Awaits`: the operand
  just forced, the declaration, or the query that was yielded).
- `WellStaged`: what the owner, the stage and the query of a call say of each other; a
  parameter that has a contextual type is not being evaluated.
- `Gathering`: a call whose capture is still clean has been given the meaning of every
  operand it has gone past; a binary goes on after an incomplete operand, so for it its own
  verdict must be complete as well.  A call that has closed its capture, or that waits for
  the query it yields, rests on this for all its operands (`Founded`).
- `ControlIsSound`: the same of what is about to happen.  A complete answer on its way to
  an untainted call is the meaning of what that call waits for; one that is being
  normalised is what the query yields, and all the query needs has a meaning.
- `TaintsShow`: as long as the verdict the demand answers to is Complete, every open
  capture is.  This is what makes verdicts honest: a root demand holds no capture.
- `OverridesAreSound`, `ValuesAreSound`, `ForcesAreSound`: what the caches hold.

A step that replaces, adds or removes the call on top keeps the first three
(`ReplaceKeeps`, `PushKeeps`, `PopKeeps`), given that the captures are those of the
calls on top of the stack (`Alignment`, from `MarksAreActiveCalls` and `VisitsComeFirst`).
A capture that is finished worsens the one below it, so the caller of a tainted call
is tainted (`FinishClean`).  The one step that changes meanings is `InferContexts`.  What
has a meaning does not change, since the type of a parameter is never a query
(`MeaningStays`); what a query leads to changes only if it yields the type of such a
parameter, and then it is request-local and was never remembered (`LeadsStays`).

Only model-checked: `DemandsReturn` (liveness under fairness, out of the prover's reach).

### The loader

`ConfigLoadingProofs` proves, for every set of configurations and every way they extend
each other:

- `TypeCorrect`: `Spec => []TypeOK`
- `CacheCorrect`: `Spec => []CacheIsDefinitive`
- `LoadingLooksFresh`: `Spec => []LoadingIsFresh`

from `ConfigAssumption`, `NoConfigAssumption` (the marks for nothing are not
configurations, settings or results) and `HostsAssumption` (file systems are well
typed); the third also from `FiniteAssumption` (a file system has finitely many files).
`CacheIsDefinitive` is not inductive: when a configuration is finished and
remembered, one must know that each of its bases is remembered too.  The inductive
invariant `IInv` therefore adds that the stack holds a configuration once and is a path
of `extends` (`StackIsPath`); that what is being loaded or has just been answered is
the next base of the call on top (`Awaited`); that each base a call has gone past is
remembered, unreadable or missing, or the call is already incomplete or its
configuration marked (`BasesSettled`); and that an answer which claims to be complete
is remembered (`CacheIsComplete`).  The case that matters is `LoadCircular`: the base it
goes past is none of these, but the call on top is a member of the cycle, so it is
marked, and `Finish` looks at the mark.

For `LoadingIsFresh` the reference must first be shown to exist: `Fresh(h)` is recursive
on chains, and `FreshIs` says that it is what its equation says, since a
chain of a finite file system can be made longer only so often.  What is remembered is
ranked (`CacheIsRanked`: a base ranks below what extends it, because it was remembered
before), and by induction on the rank a remembered configuration gives the same below any
stack that holds nothing of its rank or less (`SameBelow`); nothing remembered is on the stack, so
`LoadCached` answers what loading it there would.  `FreshInv` adds to that what each call
has merged (`LoadsAreFresh`: what its bases up to the next one give, laid over one
another) and that every answer is the reference's (`ResultIsFresh`).  `ToldInv` is about
the diagnostics: each base a call is past, and all that can be loaded from it below this
stack, is reported (`LoadsAreTold`), and so is what the bases of a remembered configuration
need (`CacheIsTold`).  `SaysRemembered` is the step that makes the cache invisible
there: from a remembered configuration only remembered ones are reached, none of them
twice on a chain, and a missing or unreadable base of theirs has the same diagnostic
wherever it is met.

Only model-checked: `LoadingEnds` (liveness).

### The service

`TsServerProofs` proves first, for every set of paths, texts and options, every
idempotent normalisation and every notion of what is claimed:

- `TypeCorrect`, `OneCopyOfEachFile` (`KeysAreNormal`), `SnapshotNeverStale`
  (`SnapshotIsCurrent`)
- `Refinement`: `Spec => AnswersAreCurrent`

from `PathAssumption` (normalising twice is normalising once) and `NoneAssumption`
(the marks for no file and no snapshot are not a text and not an output).  The
inductive invariant is `TypeOK /\ KeysAreNormal /\ SnapshotIsCurrent`.  Every call that
changes options or files drops the snapshot; the one that may keep it, `Close`,
keeps it only when the file is not open, and then changes no file, which needs
that the entry it clears is the one it looked at.  For the refinement every edit is
an `Edit` of the abstract service and `Query` is an `Ask`: its answer is taken from
`Snapshot`, which the invariant makes the present output.

### The server

And `TsServerProofs` proves, for every client, any number of requests in advance and every end
of the stream:

- `ServerDrivesService`: `ServerSpec => Spec`, so a session of the server is one of the
  service and what was proved of the service holds of it
- `AnsweredInOrder`: `ServerSpec => []ResponsesAreComplete`
- `ClientAndServerAgree`: `ServerSpec => []ViewsAgree`
- `AnswersAreOfTheirTime`: `ServerSpec => []AnswersMatchView`

from the assumptions of the service and `ServerAssumption` (commands and requests are of
their kinds, and an edit of a text gives a text or is outside it).  The input is what is
left of what was sent (`InputIsRest`), and responses are numbered as their requests
(`OutputIsNumbered`), whether written, being written or read; that is all the first
needs.  The other two are about the past: a client that runs ahead sees the effect of
a request long after the server had it.  `ServerInv` therefore says that there is a history
`h` of what the service held after each request (`Explained`): the client's view agrees with
`h` where the client has read to, the present is its last member, and each response under
way is explained by the two states around its request (`Honest`).  A request extends `h`,
a response that is read moves the client one place along it, and nothing rewrites it.

Only model-checked: `RequestsAreAnswered` (liveness).

### The coordinates

`SourceCoordinatesProofs` proves, for every text and every sequence of changes:

- `CoordinatesComeBack`: `SourceSpec => []CoordinatesRoundTrip`
- `EditedCoordinatesComeBack`: `EditorSpec => []CoordinatesRoundTripIfEdited`, the same of
  what the run explores

from no assumption on a constant.  The inductive invariant is `IndexIsCurrent`: the text is
one and the index is its own.  That it gives the property (`RoundTrips`) is the work.  Bytes
and units before a boundary are folds of widths, which are shown to be sums (`SumsAre`, by
induction on the largest position), so both grow with the boundary (`TotalGrows`); a sorted
sequence of the line ends exists and has all of them (`AscendingIs`).  From there on a text
is what `Sees` says: boundaries `0..n`, lines that start at ever later ones, and two
functions that grow.  A boundary is in one line (`OneLine`), both searches find it
(`LineIs`), its position is that line and its distance from the start (`PositionIs`); what
is accepted is such a line and column (`OffsetIs`), and each of them is accepted, the end of
the file included (`OffsetOf`).  A change is cut at what `byte_offset` found, which is at
boundaries, so it leaves a text (`ChangedIs`).

Only model-checked: `ChangesAreTheClients`, whose reference flattens the text into units and
cuts those.

### The conformance tools

`ConformanceProofs` proves, for every corpus, any number of commits, edits, threads,
configurations and runs, wherever a generation is killed:

- `EvidenceIsAlwaysSound`: `Spec => []EvidenceIsSound`
- `NoPassIsUnearned`: `Spec => []PassesAreEarned`
- `NoResultIsLost`: `Spec => []ResultsAreCountedOnce`

from `OracleCacheAssumption` (the tests are a list, each text has a disposition and at least
one configuration, a pool at least one thread) and `RunnerAssumption` (what is selected are
tests).  The inductive invariant is `GeneratorInv /\ RunnerInv`.  Of the generation: what a
thread has collected are the answers of the first configurations of the text it read
(`JobIsSound`), so what is written, if it can be read at all, has all of them.  Of the run:
each test behind the one that is being looked at was read twice and has a row of what was
read (`PreflightInv`), so what is accepted is of the texts the digests name (`AcceptedInv`),
which later edits no longer touch; a test in progress has the answers of its first
configurations (`TestsInv`); and each counter is the number of tests that ended so, which
`CountInv` says by sets of tests, since a sum is not inductive without what it sums.

Only model-checked: `GenerationEnds` and `RunsEnd` (liveness).

### The fourslash harness

`FourslashProofs` proves:

- `BridgesAgree`: `WorkerSpec => []WorkerInv`, the inductive invariant of a process
- `TestsNeverMeet`: `WorkerSpec => []TestsAreIsolated`
- `ProcessKeepsContract`: `WorkerSpec => KeepsContract`, every step of a process is a step
  of `FourslashContract` or shows nothing
- `ReportIsHonest`: `RunnerSpec => []ReportIsTrue`
- `ShardsStayBalanced`: `RunnerSpec => []ShardsAreBalanced`
- `ServerAgreesWithHost`: `AdapterSpec => []ServerSeesTheHost`

for any number of tests, processes, bridges, attempts and faults, from `WorkerAssumption`
(there is a test; the mark for nothing in a buffer is no message), `WorkersAssumption`
(`--workers` is at least 1, to which `parseArgs` clamps it), `SelectionAssumption` (tests are
finitely many numbers in the order of their paths, times and `--offset` and `--max` are
numbers, there is a shard, and a path is hashed to one of them) and `AdapterAssumption` (the
configurations above a path are configurations).

Isolation is not inductive by itself: that a test hears nothing of another rests on what is
still on its way.  `Link` and `Bridges` say of each bridge, the discarded ones too, what its
word, its thread and its server may be doing together: a server that was given up has been
stopped, or neither has a request nor can take one (`Still`).  `Cleared`: a bridge that was
reset or replaced has an empty session, which `ResetAnswers` gets from the answer to the reset.
`InStep`: from there requests and answers alternate, and after a test was cut off whatever is
on its way is of that test (`OneTest`), until the next reset is answered.  `Owing` counts: one
result is owed while a test runs and none between two, which is what the contract asks.

The parent is proved about any processes that keep the contract.  Its inductive invariant
`ReportInv` relates the rows to the processes through the pipes: the results in the pipe of
a process are of the tests between those the parent has counted and those the process has told
of, all of them, in order (`Numbers`, with a function that says which test each is of, since
the messages do not), so the next result is of the next test; a test behind the one a process
is at has not started (`PlacesAreTrue`), so that once the pipe is known to hold no result, the rows
of a dead process say what happened; and a row is written while its test can no longer change.  The
lemmas before it say that the tests dealt round robin have each one process and one place.
It needs that what is selected is a list of tests, which holds because the shards are.

The shards are proved about as they are computed, for every snapshot: `RunnerInv` says
that the file is one (`IsSnapshot`), since the last process replaces it with the rows of its
run (`WritesASnapshot`).  A finite set of tests can be sorted (`CanBeSorted`: one of them comes
last, `HasLast`), which is what gives `Sorted` a meaning; what is sorted has each of them once
(`SortedIs`).  `SumsAre` shows that the fold that weighs a shard adds one weight per test
(`TotalIs`), and `IsDealt` is the invariant of the dealing: after k tests, each of them is at
one place of one shard, and no shard outweighs another by more than its last test.  One step
keeps it (`DealStep`) because it goes to the lightest shard, of which there is one
(`LightestIs`), and `AllDealt` is the induction.

The host's invariant is the property with the types: every way a text of the host changes is followed
by what is sent, or the file is not open.

Only model-checked: `EveryoneEnds` (liveness).

### The emit harness

`EmitProofs` proves, for any corpus, number of commits, cases and concurrency, whatever the
children write and wherever a run dies:

- `SuccessIsEarned`: `EmitSpec => []ComparisonIsEarned`
- `InventoryStaysCurrent`: `CorpusSpec => []InventoryIsCurrent`
- `CasesStayWhole`: `CorpusSpec => []CasesAreWhole`

from `RunAssumption` (finitely many cases, of which some surface is asked for) and
`ListingAssumption` (a commit has baselines, and two commits have different lists of them:
the blob is compared by its list of names alone, and a checkout that only changes the
contents of baselines has to drop it by hand).

The comparison: a child that lives belongs to a call without a row, and in its scope lie the
inputs of its case and what it wrote, nothing else (`ScopesAreOwn`); no two children of a
compiler share a scope (`ScopesAreApart`), since a scope that is in use has a number the counter has
passed (`ScopesAreUsed`); so the products a call collects are those of its child
(`CallsAreTrue`), and a row without a failure is of compilers that did the same
(`RowsAreEarned`).  The discovery: an entry of the declaration cache is true of the checkout it is
stamped with (`CacheIsTrue`); the list of names is written last of the three files, so after a
build that was not cut short the three are of one commit, and where the names are those of the
checkout, wherever it has been meanwhile, so are the bytes (`BlobIsWhole`); a build that was
cut short breaks this, and the theorem says nothing of the texts it leaves, only of their
options; what readers of one test file share is what is there unless one of them
failed, and then it is not used (`ParsedIsTrue`).

Only model-checked: `ReadingsAreTrue` (folds and sorting over sequences) and `RunsEnd`
(liveness).

### The sentinels and the pull requests

`AutomationProofs` proves, for every size and number of pages and whatever others open, edit
and close between two calls:

- `SentinelsAlone`: `SentinelSpec => OnlySentinelsAreTouched`

from `SentinelAssumption` (a page holds something and there is one).  The inductive
invariant is `SentinelInv`: what the monitor has gathered are issues (`MatchesAreIssues`:
a number is an issue or a pull request for ever, `KindsStay`), and what it still calls for
are calls on numbers it has gathered (`CallsAreOfMatches`), wherever an abort or an item
that moved between two pages leaves it.

It also proves, for every set of pull requests, every number of polls and
whatever authors, CI and GitHub do:

- `GreenTypes`: `GreenSpec => []GreenTypeOK`
- `OnlyGreenAndStale`: `GreenSpec => RefreshIsEarned`
- `RefreshesOneByOne`: `GreenSpec => OneByOne`

from `GreenAssumption` (pull requests are numbers, the polls a natural number).  Both
are action properties: they follow from the inductive invariant

    GreenInv == GreenTypeOK /\ ListIsTrue /\ ChosenIsReady /\ GuardSeesThem

`ListIsTrue`: the base the run knows is no newer than main, and what it listed is of the same
repository.  `ChosenIsReady`: as long as the head is the one that was read, its checks are
passed and it lacks the base; pushes change the head, and checks that have passed do not
change without one, so the head named in the request is what makes the
refresh earned.  `GuardSeesThem`: whoever has been on its way since the list was read is
among those the guard has still to look at, and would end the run there; so when the
guard is through, nobody is.  The guard takes the smallest number first; that a set of
numbers has one is that `<` is well founded on them (`WellFoundedInduction`).

### What stays with TLC

Liveness under fairness is out of reach of the prover, and so are the library's theorems of
induction, which take an operator; and to the prover `SortSeq`, and what sorts with it, is
without a definition.  That leaves, beside what is said above, `SentinelsSettle` (liveness),
and `PageIsHonest`, `NothingVanishes` and `ReadyIsWhole`, which speak of rows that were
flattened, filtered and merged by folds.  Some definitions by recursion are proved about all
the same, by an induction on numbers that is said with sets of them: `FreshIs` shows that
`Fresh` satisfies its equation, `SumsAre` that the folds of the coordinates and of the shards
do (the line index and the tests of a shard are sorted by `Ascending` and `Sorted`, which
have definitions: a list in order, of which there is one for every finite set).  `CachePurity` and `PassesAreEarned`,
which use `SymbolicReach` and `canonical`, need no more than that equal arguments have equal
values.

## Not modelled

- The type relation, flow narrowing, the binder, capability analysis, emission, the
  scanner and the parser: sequential passes whose cases are the cases of the syntax or
  of the types.  A faithful model would be as long as the code, and what could go
  wrong in them is reached by the tests of a compiler.
- The driver's batch loop, project references, root discovery and option decoding.
- A panic of the server, which ends it; of the monitors, the conclusion `action_required` of a
  CI run and a page of issues that is not a list.
- The TypeScript API session of the emit harness, the translation of answers into the
  types of the fourslash harness, the winner reports of the benchmarks, markup.
- The tests of the scripts, which are about half of the JavaScript of the repository, and
  one-shot reports.
