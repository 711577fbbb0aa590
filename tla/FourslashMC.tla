------------------------------ MODULE FourslashMC ------------------------------
(***************************************************************************)
(* The parent, one of its processes and the host of one test, each explored   *)
(* by itself: what joins the first two is FourslashContract, which the process *)
(* keeps and the parent relies on.                                                                       *)
(***************************************************************************)
EXTENDS FourslashWorker, FourslashRunner, FourslashAdapter

CONSTANTS main, package, config, fresh, old

VARIABLE part  \* which of the three moves

TwoTests == <<"first", "second">>
HashToFirst(t, n) == 1
Times(v) == IF v = "slow" THEN 3 ELSE IF v = "timeout" THEN 2 ELSE 1
Histories == {<<>>, [t \in {1} |-> [status |-> "slow", elapsed |-> 3]]}

\* A script, a script of a package, the config above it, and a path that is free.
AboveAll(p) == {config}
ATest ==
    {[disk |-> [p \in Path |-> IF p = fresh THEN Absent ELSE old], scripts |-> scripts] :
        scripts \in {{main, package}, {main, package, config}}}

vars == <<workerVars, runnerVars, adapterVars, part>>

\* The parts that do not move stay in one of their initial states.
Init ==
    /\ WorkerInit /\ RunnerInit /\ AdapterInit
    /\ part \in {"worker", "runner", "adapter"}
    /\ part # "worker" => mode = "parallel"
    /\ part # "runner" => snapshot = <<>>
    /\ part # "adapter" => script[config] = Absent
Next == \/ part = "worker" /\ WorkerNext /\ UNCHANGED <<runnerVars, adapterVars, part>>
        \/ part = "runner" /\ RunnerNext /\ UNCHANGED <<workerVars, adapterVars, part>>
        \/ part = "adapter" /\ AdapterNext /\ UNCHANGED <<workerVars, runnerVars, part>>
Spec == Init /\ [][Next]_vars
        /\ WF_vars(part = "worker" /\ ProcessNext /\ UNCHANGED <<runnerVars, adapterVars, part>>)
        /\ WF_vars(part = "runner" /\ (ParentNext \/ Select) /\ UNCHANGED <<workerVars, adapterVars, part>>)

\* Neither a process nor the run it is part of goes on for ever (test-worker.cjs
\* main; runner.cjs runParallel).
EveryoneEnds ==
    /\ part = "worker" => WorkerEnds
    /\ part = "runner" => RunEnds
=============================================================================
