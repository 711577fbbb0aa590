------------------------------ MODULE EditorMC -------------------------------
(***************************************************************************)
(* What an editor talks to: the language service called in any order, the     *)
(* server that calls it for a client, and the coordinates of one file, each    *)
(* explored by itself.                                                         *)
(*                                                                         *)
(* Two files, one spelled in two ways, and one request of each kind that      *)
(* matters: what succeeds depends on the texts and on the options.  The file of *)
(* the coordinates has up to MaxLength characters of every kind.              *)
(***************************************************************************)
EXTENDS TsServerProperties, SourceCoordinates

CONSTANTS a, b, b_backslash, strict, loose, good, bad, spoil, start

Paths == {a, b, b_backslash}
Normal == [p \in Paths |-> IF p = b_backslash THEN b ELSE p]

Claims(target, out) ==
    {p \in Paths :
        /\ out.texts[p] # NotOpen
        /\ out.options = strict => \A q \in {a, b} : out.texts[q] # bad}

\* spoil fits a good text only.
Spliced(t, e) == IF t = good THEN bad ELSE Outside
IsInside(t, place) == t = good

\* quickinfo has nothing to say of a bad file; of another it also names a.
Named(target, out, p) == IF out.texts[p] = good THEN {p, a} ELSE {}

Requests ==
    {[command |-> "open", file |-> b, content |-> good],
     [command |-> "open", file |-> b_backslash, content |-> bad],
     [command |-> "open", file |-> a, content |-> OnDisk],
     [command |-> "open", file |-> a, content |-> Malformed],
     [command |-> "change", file |-> b_backslash, content |-> spoil],
     [command |-> "change", file |-> b, content |-> good],
     [command |-> "close", file |-> b_backslash],
     [command |-> "close", file |-> NoFile],
     [command |-> "compilerOptionsForInferredProjects", options |-> strict],
     [command |-> "tsz/reset"],
     [command |-> "semanticDiagnosticsSync", file |-> b],
     [command |-> "quickinfo", file |-> b_backslash, position |-> start],
     [command |-> "tsz/text", file |-> b],
     [command |-> "exit"],
     [command |-> "unknown"]}

VARIABLE part  \* which of the three moves
editorVars == <<serverVars, sourceVars, part>>

NoServer == [op |-> "none"]

EditorInit ==
    /\ SessionInit
    /\ SourceInit
    /\ part \in {"service", "server", "coordinates"}
    /\ control = IF part = "server" THEN Running ELSE NoServer

Calls == part = "service" /\ Next /\ UNCHANGED <<input, ending, control, sequence, output, client, sourceVars, part>>
Serves == part = "server" /\ Serve /\ UNCHANGED <<sourceVars, part>>
Reads == part = "server" /\ Receive /\ UNCHANGED <<sourceVars, part>>
Asks == part = "server" /\ (Send \/ SendGarbled \/ CloseStream) /\ UNCHANGED <<sourceVars, part>>
Edits == part = "coordinates" /\ SourceNext /\ UNCHANGED <<serverVars, part>>
EditorNext == Calls \/ Serves \/ Reads \/ Asks \/ Edits

\* Fairness as in FairServerSpec.
EditorSpec == EditorInit /\ [][EditorNext]_editorVars /\ WF_editorVars(Serves) /\ WF_editorVars(Reads)

\* The coordinates are looked at where their part moves: they are about the texts
\* that were edited (apply_change).
CoordinatesRoundTripIfEdited == part = "coordinates" => CoordinatesRoundTrip
ChangesAreTheClientsIfEdited == part = "coordinates" => ChangesAreTheClients
=============================================================================
