------------------------------- MODULE TsServer ------------------------------
(***************************************************************************)
(* The tsserver loop (src/crates/tsz-cli/src/tsserver.rs) over the language    *)
(* service, and a client that sends requests without waiting for responses.   *)
(*                                                                         *)
(* The client keeps its own view of the options and the texts, and brings a   *)
(* request into it when the response says that it succeeded.                 *)
(***************************************************************************)
EXTENDS LanguageService, Naturals, Sequences

CONSTANTS
    Request,      \* the requests the client makes
    Navigation,   \* the queries that name a position: a subset of Target
    TextEdit,         \* a range and the text to put there
    Splice(_, _), \* Splice(text, edit): the text after it, or Outside
    Outside,      \* the range is not in the text
    Position,
    Inside(_, _), \* Inside(text, position)
    Names(_, _, _), \* Names(target, output, p): the files a query's answer is in
    OnDisk,       \* a request to open a file without its content
    Malformed,    \* content that is not a string
    NoFile,       \* a request without a file
    Unknown,      \* the client has not seen the text
    MaxRequests   \* bounds the requests of a session

AnyRequest ==
    [command : {"compilerOptionsForInferredProjects"}, options : Options]
    \cup [command : {"configure", "exit", "tsz/reset", "unknown"}]
    \cup [command : {"open"}, file : Path \cup {NoFile}, content : Text \cup {OnDisk, Malformed}]
    \cup [command : {"close", "tsz/text"}, file : Path \cup {NoFile}]
    \cup [command : {"change"}, file : Path \cup {NoFile}, content : Text \cup TextEdit]
    \cup [command : Target \ Navigation, file : Path \cup {NoFile}]
    \cup [command : Navigation, file : Path \cup {NoFile}, position : Position]

\* The commands of dispatch that are not queries.
Command == {"compilerOptionsForInferredProjects", "configure", "exit", "tsz/reset",
            "unknown", "open", "close", "change", "tsz/text"}

ASSUME ServerAssumption ==
    /\ Navigation \subseteq Target
    /\ Target \cap Command = {}
    /\ Request \subseteq AnyRequest
    /\ Outside \notin Text
    /\ Text \cap TextEdit = {}
    /\ NoFile \notin Path
    /\ Unknown \notin Text \cup {NotOpen}
    /\ \A t \in Text, e \in TextEdit : Splice(t, e) \in Text \cup {Outside}
    /\ MaxRequests \in Nat

VARIABLES
    input,        \* frames the server has not read
    ending,       \* how the client closed its stream, if it did
    control,      \* where the loop of Server::run is
    sequence,     \* Server::sequence
    output,       \* responses the client has not read
    sent,         \* the requests of the session
    received,     \* how many responses the client has read
    view          \* what the client takes the options and the texts to be

service == <<options, files, compiled_snapshot, reply>>
client == <<sent, received, view>>
serverVars == <<service, input, ending, control, sequence, output, client>>

Frame == [seq : Nat, request : Request]
Garbled == [garbled |-> TRUE]
NoBody == [op |-> "no body"]
Running == [op |-> "read"]
Stopped(ok) == [op |-> "stopped", ok |-> ok]

-----------------------------------------------------------------------------
(***************************************************************************)
(* The client                                                               *)
(***************************************************************************)
Send ==
    /\ ending = "open"
    /\ Len(sent) < MaxRequests
    /\ \E r \in Request :
          LET frame == [seq |-> Len(sent) + 1, request |-> r]
          IN  input' = Append(input, frame) /\ sent' = Append(sent, frame)
    /\ UNCHANGED <<service, ending, control, sequence, output, received, view>>

\* A frame without Content-Length, or one whose body is not JSON.
SendGarbled ==
    /\ ending = "open"
    /\ input' = Append(input, Garbled)
    /\ ending' = "garbled"
    /\ UNCHANGED <<service, control, sequence, output, client>>

\* Between frames or within a header, or else within a body.
CloseStream ==
    /\ ending = "open"
    /\ ending' \in {"clean", "body"}
    /\ UNCHANGED <<service, input, control, sequence, output, client>>

With(p, t) == [view EXCEPT !.files[normalize_path[p]] = t]

\* What a request that succeeded did.
Effect(r) ==
    CASE r.command = "compilerOptionsForInferredProjects" -> [view EXCEPT !.options = r.options]
      [] r.command = "tsz/reset" -> [view EXCEPT !.files = [p \in Path |-> NotOpen]]
      [] r.command = "open" -> With(r.file, IF r.content = OnDisk THEN Unknown ELSE r.content)
      [] r.command = "close" -> With(r.file, NotOpen)
      [] r.command = "change" ->
            With(r.file, IF r.content \in Text THEN r.content
                         ELSE IF view.files[normalize_path[r.file]] = Unknown THEN Unknown
                         ELSE Splice(view.files[normalize_path[r.file]], r.content))
      [] OTHER -> view

\* A response is taken for the request it names.
Receive ==
    /\ output # <<>>
    /\ view' = IF Head(output).success THEN Effect(sent[Head(output).request_seq].request) ELSE view
    /\ received' = received + 1
    /\ output' = Tail(output)
    /\ UNCHANGED <<service, input, ending, control, sequence, sent>>

-----------------------------------------------------------------------------
(***************************************************************************)
(* Server::handle and Server::dispatch                                       *)
(***************************************************************************)
Reading == control = Running /\ input # <<>> /\ Head(input) # Garbled
request == Head(input).request
HasFile == request.file # NoFile
current == text(request.file)

Respond(success, body) ==
    /\ sequence' = sequence + 1
    /\ control' = [op |-> "write", exit |-> request.command = "exit",
                   response |-> [seq |-> sequence + 1, request_seq |-> Head(input).seq,
                                 success |-> success, body |-> body]]
    /\ input' = Tail(input)
    /\ UNCHANGED <<ending, output, client>>

\* dispatch returned before it called the service.
Reject ==
    /\ Respond(FALSE, NoBody)
    /\ UNCHANGED service

ConfigureRequest ==
    /\ Reading
    /\ request.command = "compilerOptionsForInferredProjects"
    /\ Configure(request.options)
    /\ Respond(TRUE, NoBody)

PlainRequest ==
    /\ Reading
    /\ request.command \in {"configure", "exit"}
    /\ Respond(TRUE, NoBody)
    /\ UNCHANGED service

UnknownRequest ==
    /\ Reading
    /\ request.command = "unknown"
    /\ Reject

\* file_argument, the first thing every request about a file calls, failed.
FileMissing ==
    /\ Reading
    /\ "file" \in DOMAIN request
    /\ ~HasFile
    /\ Reject

\* open_content: the content, or what is on disk now.
OpenRequest ==
    /\ Reading
    /\ request.command = "open"
    /\ HasFile
    /\ \/ request.content \in Text /\ Open(request.file, request.content)
       \/ request.content = OnDisk /\ \E t \in Text : Open(request.file, t)
    /\ Respond(TRUE, NoBody)

\* The content is not a string, or there is nothing on disk that can be read.
OpenRejected ==
    /\ Reading
    /\ request.command = "open"
    /\ HasFile
    /\ request.content \in {OnDisk, Malformed}
    /\ Reject

\* Closing a file that is not open succeeds.
CloseRequest ==
    /\ Reading
    /\ request.command = "close"
    /\ HasFile
    /\ Close(request.file)
    /\ Respond(TRUE, NoBody)

\* apply_change: fileContent replaces the text, otherwise the range must be in it.
Applied == IF request.content \in Text THEN request.content ELSE Splice(current, request.content)

\* Mutant: a range outside the text empties the file before it is refused.
ChangeRejectedLate ==
    /\ Reading
    /\ request.command = "change"
    /\ HasFile
    /\ IsOpen(request.file) => Applied = Outside
    /\ Respond(FALSE, NoBody)
    /\ IF IsOpen(request.file) THEN Close(request.file) ELSE UNCHANGED service

ChangeRequest ==
    /\ Reading
    /\ request.command = "change"
    /\ HasFile
    /\ IsOpen(request.file)
    /\ Applied # Outside
    /\ Change(request.file, Applied)
    /\ Respond(TRUE, NoBody)

ChangeRejected ==
    /\ Reading
    /\ request.command = "change"
    /\ HasFile
    /\ IsOpen(request.file) => Applied = Outside
    /\ Reject

ResetRequest ==
    /\ Reading
    /\ request.command = "tsz/reset"
    /\ Reset
    /\ Respond(TRUE, NoBody)

TextRequest ==
    /\ Reading
    /\ request.command = "tsz/text"
    /\ HasFile
    /\ IF current = NotOpen THEN Respond(FALSE, NoBody)
       ELSE Respond(TRUE, [op |-> "text", path |-> normalize_path[request.file], text |-> current])
    /\ UNCHANGED service

\* An answer that is not claimed is an error, never an empty body.
DiagnosticsRequest ==
    /\ Reading
    /\ request.command \in Target \ Navigation
    /\ HasFile
    /\ Query(request.command, request.file)
    /\ Respond(reply'.claimed, IF reply'.claimed THEN reply' ELSE NoBody)

Located == IsOpen(request.file) /\ Inside(current, request.position)

\* Every file the answer is in must be open, and quickinfo must have something to say.
Presentable ==
    LET named == Names(request.command, reply'.output, reply'.path)
    IN  /\ reply'.claimed
        /\ \A f \in named : IsOpen(f)
        /\ request.command = "quickinfo" => named # {}

NavigationRequest ==
    /\ Reading
    /\ request.command \in Navigation
    /\ HasFile
    /\ Located
    /\ Query(request.command, request.file)
    /\ Respond(Presentable, IF Presentable THEN reply' ELSE NoBody)

\* `location` fails before anything is compiled.
NavigationRejected ==
    /\ Reading
    /\ request.command \in Navigation
    /\ HasFile
    /\ ~Located
    /\ Reject

Handle ==
    \/ ConfigureRequest \/ PlainRequest \/ UnknownRequest
    \/ FileMissing \/ OpenRequest \/ OpenRejected \/ CloseRequest
    \/ ChangeRequest \/ ChangeRejected \/ ResetRequest \/ TextRequest
    \/ DiagnosticsRequest \/ NavigationRequest \/ NavigationRejected

-----------------------------------------------------------------------------
(***************************************************************************)
(* Server::run                                                               *)
(***************************************************************************)
\* Mutant: only what succeeded is answered.
WriteSuccesses ==
    /\ control.op = "write"
    /\ output' = IF control.response.success THEN Append(output, control.response) ELSE output
    /\ control' = IF control.exit THEN Stopped(TRUE) ELSE Running
    /\ UNCHANGED <<service, input, ending, sequence, client>>

Write ==
    /\ control.op = "write"
    /\ output' = Append(output, control.response)
    /\ control' = IF control.exit THEN Stopped(TRUE) ELSE Running
    /\ UNCHANGED <<service, input, ending, sequence, client>>

\* Writing or flushing failed: what the request did stays done, and the run fails.
WriteFails ==
    /\ control.op = "write"
    /\ output' \in {output, Append(output, control.response)}
    /\ control' = Stopped(FALSE)
    /\ UNCHANGED <<service, input, ending, sequence, client>>

ReadGarbled ==
    /\ control = Running
    /\ input # <<>>
    /\ Head(input) = Garbled
    /\ control' = Stopped(FALSE)
    /\ UNCHANGED <<service, input, ending, sequence, output, client>>

\* read_framed_message: no frame is left, even if a header was begun; a body that
\* is cut off is an error.
ReadEnd ==
    /\ control = Running
    /\ input = <<>>
    /\ ending \in {"clean", "body"}
    /\ control' = Stopped(ending # "body")
    /\ UNCHANGED <<service, input, ending, sequence, output, client>>

Serve == Handle \/ Write \/ WriteFails \/ ReadGarbled \/ ReadEnd

SessionInit ==
    /\ Init
    /\ input = <<>>
    /\ ending = "open"
    /\ sequence = 0
    /\ output = <<>>
    /\ sent = <<>>
    /\ received = 0
    /\ view = [options |-> options, files |-> files]

ServerInit == SessionInit /\ control = Running

ServerNext == Send \/ SendGarbled \/ CloseStream \/ Receive \/ Serve

ServerSpec == ServerInit /\ [][ServerNext]_serverVars

\* The loop takes every step it can; the client reads what is written.
FairServerSpec == ServerSpec /\ WF_serverVars(Serve) /\ WF_serverVars(Receive)
=============================================================================
