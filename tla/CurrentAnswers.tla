---------------------------- MODULE CurrentAnswers ---------------------------
(***************************************************************************)
(* What a language service promises: whatever happens to the options and the *)
(* texts, a question is answered from the present ones and changes neither.  *)
(***************************************************************************)
CONSTANTS
    Options,      \* compiler options
    Texts,        \* what is open, with which text
    Question,
    Reply,        \* what an edit answers
    Answer(_, _, _)

VARIABLES options, texts, reply

vars == <<options, texts, reply>>

Init ==
    /\ options \in Options
    /\ texts \in Texts
    /\ reply \in Reply

Edit ==
    /\ options' \in Options
    /\ texts' \in Texts
    /\ reply' \in Reply

Ask ==
    /\ \E q \in Question : reply' = Answer(options, texts, q)
    /\ UNCHANGED <<options, texts>>

Next == Edit \/ Ask

Spec == Init /\ [][Next]_vars
=============================================================================
