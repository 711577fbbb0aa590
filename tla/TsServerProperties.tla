-------------------------- MODULE TsServerProperties -------------------------
(***************************************************************************)
(* What the server promises to a client that does not wait.                  *)
(***************************************************************************)
EXTENDS TsServer

\* How many requests have been answered, read by the client or not.
Answers == received + Len(output)

Agree(mine, theirs) == mine = theirs \/ (mine = Unknown /\ theirs \in Text)
AgreeOn(v, o, t) == v.options = o /\ \A p \in Path : Agree(v.files[p], t[p])

\* Once everything is answered and read, the client and the server hold the same
\* options and the same texts: a request that was refused, wherever dispatch gave
\* up, has changed nothing, and one that succeeded has done all of it.
ViewsAgree ==
    (control = Running /\ input = <<>> /\ output = <<>>) => AgreeOn(view, options, files)

\* An answer is of exactly the requests before its own: none that the client sent
\* later, and none that was refused (the loop handles a request at a time).
AnswersMatchView ==
    output # <<>> =>
        LET body == Head(output).body
        IN  /\ body.op = "answer" =>
                  AgreeOn(view, body.output.options, body.output.texts)
            /\ body.op = "text" => Agree(view.files[body.path], body.text)

\* Responses come one for each request and in the order of the requests, numbered
\* without a gap, whatever fails on the way (`sequence`, `request_seq`); and the server
\* ends well only when every request it could read is answered: up to the end of the
\* stream, or up to and including an exit.
ResponsesAreComplete ==
    /\ Answers <= Len(sent)
    /\ \A i \in DOMAIN output :
        /\ output[i].seq = received + i
        /\ output[i].request_seq = sent[received + i].seq
    /\ control = Stopped(TRUE) =>
        \/ Answers = Len(sent) /\ ending = "clean"
        \/ Answers > 0 /\ sent[Answers].request.command = "exit"

\* No request is left without a response while the server runs.
RequestsAreAnswered ==
    \A n \in 1..MaxRequests : Len(sent) >= n ~> (received >= n \/ control.op = "stopped")
=============================================================================
