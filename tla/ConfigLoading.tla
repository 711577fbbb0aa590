---------------------------- MODULE ConfigLoading ---------------------------
(***************************************************************************)
(* Loading a configuration and the configurations it extends               *)
(* (src/crates/tsz-core/src/config.rs, Resolver::load_config).              *)
(*                                                                         *)
(* The recursion is a machine: loads is the stack of active calls, whose     *)
(* configurations are the code's `stack`, and control says what happens     *)
(* next.  A configuration is its normalised path key; a base that does not   *)
(* resolve to a file is Missing.  Options and the files, include and         *)
(* exclude selectors are all settings: what matters of each is which         *)
(* configuration it was taken from.                                         *)
(***************************************************************************)
EXTENDS Naturals, Sequences, FiniteSets

CONSTANTS
    Config,       \* the configuration files
    Missing,      \* no file
    Setting,      \* options and selectors
    Unset,        \* no configuration gives the setting
    NoConfig,     \* load_config answered None
    Hosts         \* the file systems: a set of records as in HostsAssumption

ASSUME ConfigAssumption == Missing \notin Config /\ Unset \notin Config

Merged == [Setting -> Config \cup {Unset}]
LoadedConfig == [merged : Merged, complete : BOOLEAN]

ASSUME NoConfigAssumption == NoConfig \notin LoadedConfig

\* selection: a directory or a file was named; entry: the configuration it selects
\* (ProjectSelection::Project); bases: what each one extends, in order;
\* unreadable: not readable, or not JSON; authored: the settings each one gives.
Host ==
    [selection : {"directory", "file"},
     entry : Config \cup {Missing},
     bases : [Config -> Seq(Config \cup {Missing})],
     unreadable : SUBSET Config,
     authored : [Config -> SUBSET Setting]]

ASSUME HostsAssumption == Hosts \subseteq Host

VARIABLES
    host,         \* the file system, fixed
    control,      \* what the resolver does next
    loads,        \* the active calls, the innermost last
    cache,        \* Resolver::cache
    incomplete,   \* Resolver::incomplete_configs
    seen,         \* Resolver::seen_configs
    diagnostics   \* Resolver::diagnostics, duplicates removed

vars == <<host, control, loads, cache, incomplete, seen, diagnostics>>

Load == [config : Config, next : Nat \ {0}, merged : Merged, complete : BOOLEAN]

Control ==
    [op : {"start", "run"}] \cup [op : {"load"}, config : Config]
        \cup [op : {"return", "done"}, result : LoadedConfig \cup {NoConfig}]

Empty == [s \in Setting |-> Unset]

\* MergedConfig::merge_from, CompilerOptionPatch::merge_from: what the other gives wins.
MergeFrom(merged, other) ==
    [s \in Setting |-> IF other[s] # Unset THEN other[s] ELSE merged[s]]

Own(c) == [s \in Setting |-> IF s \in host.authored[c] THEN c ELSE Unset]

Stack == [i \in DOMAIN loads |-> loads[i].config]
OnStack(c) == \E i \in DOMAIN loads : loads[i].config = c
Top == loads[Len(loads)]
Pop == SubSeq(loads, 1, Len(loads) - 1)

\* stack[cycle_start..]: where c is on the stack and what was loaded from there.
CycleStart(c) == CHOOSE i \in DOMAIN loads : loads[i].config = c
\* Mutant: only the configuration that closes the cycle.
CycleEntry(c) == {c}
CycleMembers(c) == {loads[i].config : i \in CycleStart(c)..Len(loads)}
Chain(c) == Append(SubSeq(Stack, CycleStart(c), Len(loads)), c)

Report(code, chain) ==
    diagnostics' = diagnostics \cup {[code |-> code, chain |-> chain]}
Return(result) == control' = [op |-> "return", result |-> result]

-----------------------------------------------------------------------------
Init ==
    /\ host \in Hosts
    /\ control = [op |-> "start"]
    /\ loads = <<>>
    /\ cache = [c \in Config |-> NoConfig]
    /\ incomplete = {}
    /\ seen = {}
    /\ diagnostics = {}

\* resolve_explicit_project: the resolution is Terminal.
EntryMissing ==
    /\ control.op = "start"
    /\ host.entry = Missing
    /\ control' = [op |-> "done", result |-> NoConfig]
    /\ Report(IF host.selection = "directory" THEN 5081 ELSE 5058, <<>>)
    /\ UNCHANGED <<host, loads, cache, incomplete, seen>>

ResolveEntry ==
    /\ control.op = "start"
    /\ host.entry # Missing
    /\ control' = [op |-> "load", config |-> host.entry]
    /\ UNCHANGED <<host, loads, cache, incomplete, seen, diagnostics>>

\* The configuration is being loaded: every one on the cycle is incomplete.
LoadCircular ==
    /\ control.op = "load"
    /\ OnStack(control.config)
    /\ incomplete' = incomplete \cup CycleMembers(control.config)
    /\ Report(18000, Chain(control.config))
    /\ Return(NoConfig)
    /\ UNCHANGED <<host, loads, cache, seen>>

LoadCached ==
    /\ control.op = "load"
    /\ ~OnStack(control.config)
    /\ cache[control.config] # NoConfig
    /\ Return(cache[control.config])
    /\ UNCHANGED <<host, loads, cache, incomplete, seen, diagnostics>>

LoadUnreadable ==
    /\ control.op = "load"
    /\ ~OnStack(control.config)
    /\ cache[control.config] = NoConfig
    /\ control.config \in host.unreadable
    /\ seen' = seen \cup {control.config}
    /\ Report(5083, <<control.config>>)
    /\ Return(NoConfig)
    /\ UNCHANGED <<host, loads, cache, incomplete>>

LoadEnter ==
    /\ control.op = "load"
    /\ ~OnStack(control.config)
    /\ cache[control.config] = NoConfig
    /\ control.config \notin host.unreadable
    /\ seen' = seen \cup {control.config}
    /\ loads' = Append(loads, [config |-> control.config, next |-> 1,
                               merged |-> Empty, complete |-> TRUE])
    /\ control' = [op |-> "run"]
    /\ UNCHANGED <<host, cache, incomplete, diagnostics>>

-----------------------------------------------------------------------------
Bases == host.bases[Top.config]
Running == control.op = "run" /\ loads # <<>>

\* Mutant: the base is diagnosed again and again.
ExtendMissingAgain ==
    /\ Running
    /\ Top.next <= Len(Bases)
    /\ Bases[Top.next] = Missing
    /\ Report(6053, <<Top.config>>)
    /\ UNCHANGED <<host, control, loads, cache, incomplete, seen>>

\* resolve_extends_path finds no file: the base is skipped.
ExtendMissing ==
    /\ Running
    /\ Top.next <= Len(Bases)
    /\ Bases[Top.next] = Missing
    /\ Report(6053, <<Top.config>>)
    /\ loads' = [loads EXCEPT ![Len(loads)].next = @ + 1]
    /\ UNCHANGED <<host, control, cache, incomplete, seen>>

Extend ==
    /\ Running
    /\ Top.next <= Len(Bases)
    /\ Bases[Top.next] # Missing
    /\ control' = [op |-> "load", config |-> Bases[Top.next]]
    /\ UNCHANGED <<host, loads, cache, incomplete, seen, diagnostics>>

\* The base was not loaded: it adds nothing.
MergeNothing ==
    /\ control.op = "return"
    /\ loads # <<>>
    /\ control.result = NoConfig
    /\ loads' = [loads EXCEPT ![Len(loads)].next = @ + 1]
    /\ control' = [op |-> "run"]
    /\ UNCHANGED <<host, cache, incomplete, seen, diagnostics>>

MergeBase ==
    /\ control.op = "return"
    /\ loads # <<>>
    /\ control.result # NoConfig
    /\ loads' = [loads EXCEPT ![Len(loads)] =
            [config   |-> Top.config,
             next     |-> Top.next + 1,
             merged   |-> MergeFrom(Top.merged, control.result.merged),
             complete |-> Top.complete /\ control.result.complete]]
    /\ control' = [op |-> "run"]
    /\ UNCHANGED <<host, cache, incomplete, seen, diagnostics>>

\* Mutant: the configuration's own mark is not looked at.
LoadedDespiteMark ==
    [merged |-> MergeFrom(Top.merged, Own(Top.config)), complete |-> Top.complete]

\* The configuration's own settings win; only a complete load is remembered.
Loaded ==
    [merged |-> MergeFrom(Top.merged, Own(Top.config)),
     complete |-> Top.complete /\ Top.config \notin incomplete]

Finish ==
    /\ Running
    /\ Top.next > Len(Bases)
    /\ cache' = IF Loaded.complete THEN [cache EXCEPT ![Top.config] = Loaded] ELSE cache
    /\ loads' = Pop
    /\ Return(Loaded)
    /\ UNCHANGED <<host, incomplete, seen, diagnostics>>

EntryLoaded ==
    /\ control.op = "return"
    /\ loads = <<>>
    /\ control' = [op |-> "done", result |-> control.result]
    /\ UNCHANGED <<host, loads, cache, incomplete, seen, diagnostics>>

Next ==
    \/ EntryMissing \/ ResolveEntry
    \/ LoadCircular \/ LoadCached \/ LoadUnreadable \/ LoadEnter
    \/ ExtendMissing \/ Extend \/ MergeNothing \/ MergeBase
    \/ Finish \/ EntryLoaded

Spec == Init /\ [][Next]_vars
FairSpec == Spec /\ WF_vars(Next)
=============================================================================
