---------------------------- MODULE Completions ----------------------------
(***************************************************************************)
(* The completion lattice every semantic operation of tsz answers with:     *)
(* Complete < Deferred < Cycle < Limit.  `combine` keeps the worse of two   *)
(* verdicts; an operation's answer is Complete with a type, or one of the   *)
(* three incomplete verdicts with no type at all.                           *)
(***************************************************************************)
EXTENDS Integers, Sequences

Completion == {"complete", "deferred", "cycle", "limit"}

\* Position in the derived PartialOrd of the Rust enum.
Rank(c) ==
    CASE c = "complete" -> 0
      [] c = "deferred" -> 1
      [] c = "cycle"    -> 2
      [] c = "limit"    -> 3

Combine(a, b) == IF Rank(a) >= Rank(b) THEN a ELSE b

\* The answers of a semantic operation that returns a value of T.  An
\* incomplete answer carries no value: its type field is the marker none.
Answers(T, none) ==
    [state : {"complete"}, type : T]
        \cup [state : Completion \ {"complete"}, type : {none}]

-----------------------------------------------------------------------------
(***************************************************************************)
(* The capture stack of CompletionTracker.  A capture collects the worst    *)
(* verdict observed while it is on top; finishing it hands what it          *)
(* collected to the capture below.                                          *)
(***************************************************************************)
BeginCapture(captures) == Append(captures, "complete")

Captured(captures) == captures[Len(captures)]

Capture(captures, c) ==
    IF captures = <<>> THEN captures
    ELSE [captures EXCEPT ![Len(captures)] = Combine(@, c)]

FinishCapture(captures) ==
    Capture(SubSeq(captures, 1, Len(captures) - 1), Captured(captures))
=============================================================================
