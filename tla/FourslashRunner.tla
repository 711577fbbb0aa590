---------------------------- MODULE FourslashRunner ----------------------------
(***************************************************************************)
(* The parent of the fourslash test processes (runner.cjs, runParallel and   *)
(* main): it selects the tests, deals them round robin to processes that     *)
(* keep FourslashContract, counts their results, kills those that are quiet  *)
(* too long, accounts for the tests of those that die, and reports.          *)
(* What a process sends and its end reach the parent independently.          *)
(***************************************************************************)
EXTENDS FourslashContract, FourslashSelection, FiniteSets

CONSTANTS
    Discovered,  \* the tests that are found, a set of numbers
    Snapshots,   \* the snapshots there may be
    ShardTotal,  \* --shard
    Offsets, Maxes,
    Workers,     \* --workers
    Elapsed(_),  \* how long a test with a verdict took
    MaxDeaths    \* bound: processes that die by themselves

\* parseArgs
ASSUME WorkersAssumption == Workers \in Nat \ {0}
ASSUME SelectionAssumption ==
    /\ Discovered \subseteq Nat /\ IsFiniteSet(Discovered)
    /\ ShardTotal \in Nat \ {0} /\ Offsets \subseteq Nat /\ Maxes \subseteq Nat
    /\ \A s \in Snapshots : IsSnapshot(s)
    /\ \A v \in Verdict : Elapsed(v) \in Nat
    /\ TimeoutBias \in Nat /\ DefaultWeight \in Nat
    /\ \A t \in Discovered : Hash(t, ShardTotal) \in 1..ShardTotal

VARIABLES
    phase,    \* "select", "running", "over"
    snapshot, \* fourslash-snapshot.json
    selected, \* the tests to run, in their order; below they are known by their places
    child,    \* per process: what it has told (Place)
    pipe,     \* per process: what it has sent that is not handled yet
    ended,    \* per process: how it ended: "no", or "signal", "code"
    truth,    \* per test: how it ended in its process, "started", or "none"
    children, \* workerChildren: the processes whose exit has not been handled
    completed,\* workerProgress: the results handled of each process
    active,   \* activeWorkers
    rows,     \* testResults: per test, the statuses recorded
    overtaken,\* the exit of a process was handled before a result it had sent
    exit      \* the exit status, NoExit before it is over
runnerVars == <<phase, snapshot, selected, child, pipe, ended, truth, children, completed, active, rows, overtaken, exit>>

NoExit == -1
count == Len(selected)
Least(i, j) == IF i < j THEN i ELSE j

\* distributeTests: the j-th test of process w is the ((j-1) * n + w)-th selected.
Processes == Least(Workers, count)
Chunk(w) == {t \in 1..count : (t - 1) % Processes = w - 1}
TestAt(w, j) == (j - 1) * Processes + w

RunnerInit ==
    /\ phase = "select"
    /\ snapshot \in Snapshots
    /\ selected = <<>>
    /\ child = <<>> /\ pipe = <<>> /\ ended = <<>> /\ truth = <<>>
    /\ children = {} /\ completed = <<>> /\ active = 0 /\ rows = <<>>
    /\ overtaken = FALSE /\ exit = NoExit

Shards == weightedShardTests(snapshot, Discovered, ShardTotal)

\* main: a selection of nothing is refused before anything runs.
Select ==
    /\ phase = "select"
    /\ \E i \in 1..ShardTotal, offset \in Offsets, max \in Maxes :
           selected' = Slice(Shards[i], offset, max)
    /\ IF selected' = <<>> THEN phase' = "over" /\ exit' = 2
                          ELSE phase' = "running" /\ exit' = NoExit
    /\ children' = 1..Least(Workers, Len(selected'))
    /\ active' = Cardinality(children')
    /\ child' = [w \in children' |-> Booting]
    /\ pipe' = [w \in children' |-> <<>>]
    /\ ended' = [w \in children' |-> "no"]
    /\ completed' = [w \in children' |-> 0]
    /\ truth' = [t \in 1..Len(selected') |-> "none"]
    /\ rows' = [t \in 1..Len(selected') |-> <<>>]
    /\ UNCHANGED <<snapshot, overtaken>>

-----------------------------------------------------------------------------
(* The processes *)

\* A warning or a restart only postpones the watchdog, whose clock is left out: it is
\* no step.
ProcessSends(w) ==
    /\ phase = "running" /\ ended[w] = "no"
    /\ \E message \in Message, p \in [phase : Phase, told : {child[w].told, child[w].told + 1}] :
           /\ Sends(child[w], message, p, Cardinality(Chunk(w)))
           /\ p # child[w]
           /\ child' = [child EXCEPT ![w] = p]
           /\ pipe' = [pipe EXCEPT ![w] = Append(@, message)]
           /\ ended' = IF p.phase = "dead" THEN [ended EXCEPT ![w] = "code"] ELSE ended
           /\ truth' = CASE message.type = "start" -> [truth EXCEPT ![TestAt(w, p.told + 1)] = "started"]
                         [] message.type = "result" -> [truth EXCEPT ![TestAt(w, p.told)] = message.verdict]
                         [] OTHER -> truth
    /\ UNCHANGED <<phase, snapshot, selected, children, completed, active, rows, overtaken, exit>>

\* Out of memory, a fault, an exit on its own.
Deaths == {w \in DOMAIN ended : ended[w] = "died"}
ProcessDies(w) ==
    /\ phase = "running" /\ ended[w] = "no" /\ Cardinality(Deaths) < MaxDeaths
    /\ ended' = [ended EXCEPT ![w] = "died"]
    /\ UNCHANGED <<phase, snapshot, selected, child, pipe, truth, children, completed, active, rows, overtaken, exit>>

-----------------------------------------------------------------------------
(* The parent *)

\* validateResultCoverage: one result for each selected test.
Covered(r) == \A t \in 1..count : Len(r[t]) = 1

\* main, after the last process: the exit status is that of the rows.
Outcome(r) ==
    IF ~Covered(r) THEN 2
    ELSE IF \E t \in 1..count : r[t][1].status \in {"fail", "timeout", "unrun"} THEN 1 ELSE 0

\* classifySnapshotBuckets, as loadHistoricalWeights will read it: the rows of this
\* run replace the file, whatever it selected.
Written(r) == [test \in ToSet(selected) |-> r[CHOOSE t \in 1..count : selected[t] = test][1]]

\* onWorkerDone, with the rows r recorded so far; the last of them lets main report.
OnWorkerDone(r) ==
    /\ active' = active - 1
    /\ IF active = 1
       THEN /\ phase' = "over" /\ exit' = Outcome(r)
            /\ snapshot' = IF Covered(r) THEN Written(r) ELSE snapshot
       ELSE UNCHANGED <<phase, exit, snapshot>>

Timed(verdict) == [status |-> verdict, elapsed |-> Elapsed(verdict)]

\* child.on("message")
Handle(w) ==
    /\ phase = "running" /\ pipe[w] # <<>>
    /\ LET message == Head(pipe[w])
           t == TestAt(w, completed[w] + 1)
       IN \/ /\ message.type = "result"
             /\ rows' = [rows EXCEPT ![t] = Append(@, Timed(message.verdict))]
             /\ completed' = [completed EXCEPT ![w] = @ + 1]
             /\ UNCHANGED <<phase, active, exit, snapshot>>
          \/ /\ message.type = "done"
             /\ OnWorkerDone(rows)
             /\ UNCHANGED <<rows, completed>>
          \/ /\ message.type \in {"ready", "start", "error", "note"}
             /\ UNCHANGED <<phase, active, exit, snapshot, rows, completed>>
    /\ pipe' = [pipe EXCEPT ![w] = Tail(@)]
    /\ UNCHANGED <<selected, child, ended, truth, children, overtaken>>

\* Mutant: everything that is outstanding was still queued.
Accounted_Queued(w) ==
    [t \in 1..count |->
        IF t \in Chunk(w) /\ t >= TestAt(w, completed[w] + 1)
        THEN Append(rows[t], [status |-> "unrun", elapsed |-> 0]) ELSE rows[t]]

\* The rows of a process that died with results outstanding: the first of them was
\* in flight, the others never started.  Neither has a time.
Accounted(w) ==
    LET inFlight == TestAt(w, completed[w] + 1)
        untimed(status) == [status |-> status, elapsed |-> 0]
    IN [t \in 1..count |->
           CASE t \in Chunk(w) /\ t = inFlight -> Append(rows[t], untimed("timeout"))
             [] t \in Chunk(w) /\ t > inFlight -> Append(rows[t], untimed("unrun"))
             [] OTHER -> rows[t]]

\* Mutant: a process that dies between its last result and its "done" is forgotten.
HandleExit_OnlyLosses(w) ==
    /\ phase = "running" /\ w \in children /\ ended[w] # "no"
    /\ children' = children \ {w}
    /\ rows' = Accounted(w)
    /\ IF completed[w] < Cardinality(Chunk(w)) THEN OnWorkerDone(Accounted(w))
       ELSE UNCHANGED <<active, phase, exit, snapshot>>
    /\ overtaken' = (overtaken \/ \E k \in DOMAIN pipe[w] : pipe[w][k].type = "result")
    /\ UNCHANGED <<selected, child, pipe, ended, truth, completed>>

\* child.on("exit"): no process exits with status 0 by itself.
HandleExit(w) ==
    /\ phase = "running" /\ w \in children /\ ended[w] # "no"
    /\ children' = children \ {w}
    /\ rows' = Accounted(w)
    /\ OnWorkerDone(Accounted(w))
    /\ overtaken' = (overtaken \/ \E k \in DOMAIN pipe[w] : pipe[w][k].type = "result")
    /\ UNCHANGED <<selected, child, pipe, ended, truth, completed>>

\* The watchdog: a process of which nothing has been heard for long is killed,
\* whatever it is doing.
Watchdog(w) ==
    /\ phase = "running" /\ w \in children /\ pipe[w] = <<>> /\ ended[w] = "no"
    /\ ended' = [ended EXCEPT ![w] = "killed"]
    /\ UNCHANGED <<phase, snapshot, selected, child, pipe, truth, children, completed, active, rows, overtaken, exit>>

ParentNext == \E w \in DOMAIN child : Handle(w) \/ HandleExit(w) \/ Watchdog(w)
RunnerNext == Select \/ ParentNext \/ \E w \in DOMAIN child : ProcessSends(w) \/ ProcessDies(w)
RunnerSpec == RunnerInit /\ [][RunnerNext]_runnerVars

-----------------------------------------------------------------------------
(* What the parent of the processes promises of its report. *)

\* What the run reports is what happened: a row of a verdict is the verdict of its
\* process, so an exit status of 0 is earned by every test; and a test that is
\* reported as never run did not start.  Exempt are the rows a dead process still
\* had in its pipe: its end may reach the parent first (runner.cjs, child.on("exit"),
\* validateResultCoverage).
ReportIsTrue ==
    exit \in {0, 1} => \A t \in 1..count :
        LET status == rows[t][1].status
        IN /\ status \in Verdict \ {"timeout"} => truth[t] = status
           /\ status = "timeout" /\ ~overtaken => truth[t] \in {"timeout", "started", "none"}
           /\ status = "unrun" /\ ~overtaken => truth[t] = "none"
           /\ exit = 0 => truth[t] \in {"pass", "slow"}

\* What is run is a list of tests that were found (main).
SelectionIsAList == selected \in Seq(Discovered)

\* The shards are a partition of the tests whatever the last snapshot holds, no shard
\* outweighs another by more than the last test it was dealt, and what is run is of one
\* of them (weightedShardTests, main).
ShardsAreBalanced ==
    /\ SelectionIsAList
    /\ phase \in {"select", "over"} =>
        LET weights == loadHistoricalWeights(snapshot)
            shards == Shards
            load == [i \in 1..ShardTotal |-> Total(weights, shards[i])]
        IN /\ \A test \in Discovered :
                  \E i \in 1..ShardTotal : \E k \in DOMAIN shards[i] :
                      \A j \in 1..ShardTotal : \A l \in DOMAIN shards[j] :
                          shards[j][l] = test <=> <<j, l>> = <<i, k>>
           /\ DOMAIN weights # {} =>
                  \A i, j \in 1..ShardTotal :
                      shards[i] # <<>> => load[i] - WeightOf(weights, Last(shards[i])) <= load[j]

\* A run of which no process is lost reports: "if a worker sends no result for this
\* long, kill it. This catches infinite loops in the Rust server" (runner.cjs,
\* WORKER_WATCHDOG_MS).
HealthyRunReports ==
    exit = 2 /\ selected # <<>> =>
        \E w \in DOMAIN ended : ended[w] \notin {"no", "killed"} \/ (ended[w] = "killed" /\ child[w].phase # "done")

\* Every run ends (runner.cjs, watchdog, onWorkerDone), if the parent handles what
\* reaches it and its timer fires.
RunEnds == <>(phase = "over")
=============================================================================
