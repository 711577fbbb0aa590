--------------------------- MODULE LanguageService ---------------------------
(***************************************************************************)
(* The language service (src/crates/tsz-core/src/service.rs): options, open   *)
(* files and the compiled snapshot that queries share.                      *)
(*                                                                         *)
(* A file is open under its normalised path.  The compiler is a function of   *)
(* the options and the open texts, so its output is represented by them.     *)
(* The versions of the files decide nothing and are left out.                *)
(***************************************************************************)
CONSTANTS
    Path,         \* paths as they are spelled
    normalize_path, \* a function that maps each spelling to the one files are kept under
    Text,
    Options,
    Target,       \* what a query asks for
    NotOpen,      \* no file
    NoOutput,     \* no snapshot
    Claimed(_, _) \* Claimed(target, output): the paths whose queries are claimed

ASSUME PathAssumption ==
    /\ normalize_path \in [Path -> Path]
    /\ \A p \in Path : normalize_path[normalize_path[p]] = normalize_path[p]

Texts == [Path -> Text \cup {NotOpen}]
CompileOutput == [options : Options, texts : Texts]

ASSUME NoneAssumption ==
    /\ NotOpen \notin Text
    /\ NoOutput \notin CompileOutput

VARIABLES
    options,            \* LanguageService::options
    files,              \* LanguageService::files: the text of each open file
    compiled_snapshot,  \* LanguageService::compiled_snapshot
    reply               \* what the last call returned

vars == <<options, files, compiled_snapshot, reply>>

Nothing == [op |-> "none"]
Done(b) == [op |-> "done", result |-> b]

IsOpen(p) == files[normalize_path[p]] # NotOpen
text(p) == files[normalize_path[p]]

-----------------------------------------------------------------------------
Init ==
    /\ options \in Options
    /\ files = [p \in Path |-> NotOpen]
    /\ compiled_snapshot = NoOutput
    /\ reply = Nothing

\* Mutant: the snapshot survives a change of options.
ConfigureKeeping(o) ==
    /\ options' = o
    /\ reply' = Nothing
    /\ UNCHANGED <<files, compiled_snapshot>>

Configure(o) ==
    /\ options' = o
    /\ compiled_snapshot' = NoOutput
    /\ reply' = Nothing
    /\ UNCHANGED files

\* Mutant: the file is kept as it is spelled.
OpenAsSpelled(p, t) ==
    /\ files' = [files EXCEPT ![p] = t]
    /\ compiled_snapshot' = NoOutput
    /\ reply' = Nothing
    /\ UNCHANGED options

\* An open file is replaced.
Open(p, t) ==
    /\ files' = [files EXCEPT ![normalize_path[p]] = t]
    /\ compiled_snapshot' = NoOutput
    /\ reply' = Nothing
    /\ UNCHANGED options

Change(p, t) ==
    /\ IsOpen(p)
    /\ files' = [files EXCEPT ![normalize_path[p]] = t]
    /\ compiled_snapshot' = NoOutput
    /\ reply' = Done(TRUE)
    /\ UNCHANGED options

ChangeUnknown(p) ==
    /\ ~IsOpen(p)
    /\ reply' = Done(FALSE)
    /\ UNCHANGED <<options, files, compiled_snapshot>>

\* Mutant: the snapshot survives the file.
CloseKeeping(p) ==
    /\ files' = [files EXCEPT ![normalize_path[p]] = NotOpen]
    /\ reply' = Done(IsOpen(p))
    /\ UNCHANGED <<options, compiled_snapshot>>

\* Only closing a file that is open costs the snapshot.
Close(p) ==
    /\ files' = [files EXCEPT ![normalize_path[p]] = NotOpen]
    /\ compiled_snapshot' = IF IsOpen(p) THEN NoOutput ELSE compiled_snapshot
    /\ reply' = Done(IsOpen(p))
    /\ UNCHANGED options

Reset ==
    /\ files' = [p \in Path |-> NotOpen]
    /\ compiled_snapshot' = NoOutput
    /\ reply' = Nothing
    /\ UNCHANGED options

-----------------------------------------------------------------------------
compile == [options |-> options, texts |-> files]

\* with_compiled_snapshot: compiled once for all queries until something changes.
Snapshot == IF compiled_snapshot = NoOutput THEN compile ELSE compiled_snapshot

\* What a query finds in an output: a definitive answer only where it is claimed.
AnswerFrom(output, target, p) ==
    [op |-> "answer", target |-> target, path |-> normalize_path[p],
     claimed |-> normalize_path[p] \in Claimed(target, output), output |-> output]

Query(target, p) ==
    /\ reply' = AnswerFrom(Snapshot, target, p)
    /\ compiled_snapshot' = Snapshot
    /\ UNCHANGED <<options, files>>

Next ==
    \/ \E o \in Options : Configure(o)
    \/ \E p \in Path, t \in Text : Open(p, t) \/ Change(p, t)
    \/ \E p \in Path : ChangeUnknown(p) \/ Close(p)
    \/ Reset
    \/ \E target \in Target, p \in Path : Query(target, p)

Spec == Init /\ [][Next]_vars

-----------------------------------------------------------------------------
(* What the service promises. *)

Question == Target \X Path

Edited == {Nothing, Done(TRUE), Done(FALSE)}
Answered ==
    [op : {"answer"}, target : Target, path : Path, claimed : BOOLEAN, output : CompileOutput]

TypeOK ==
    /\ options \in Options
    /\ files \in Texts
    /\ compiled_snapshot \in CompileOutput \cup {NoOutput}
    /\ reply \in Edited \cup Answered

\* A file is kept under its normalised path alone, so that both spellings of a
\* path find it and neither call can leave a second copy that is compiled too
\* (every operation begins with normalize_path).
KeysAreNormal == \A p \in Path : files[p] # NotOpen => normalize_path[p] = p

\* The snapshot is the output for the present options and texts, whatever calls
\* came between (`compiled_snapshot.get_mut().take()` in each that changes them).
SnapshotIsCurrent == compiled_snapshot \in {NoOutput, compile}

\* What a query answers, had it compiled for itself.
FreshAnswer(o, t, question) ==
    AnswerFrom([options |-> o, texts |-> t], question[1], question[2])

Current == INSTANCE CurrentAnswers WITH
    Options <- Options, Texts <- Texts, Question <- Question, Reply <- Edited,
    Answer <- FreshAnswer, options <- options, texts <- files, reply <- reply

\* Sharing the snapshot cannot be seen in an answer: the service implements the
\* one that compiles for every query (with_compiled_snapshot).
AnswersAreCurrent == Current!Spec
=============================================================================
