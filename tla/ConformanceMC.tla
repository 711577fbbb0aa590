---------------------------- MODULE ConformanceMC -----------------------------
(***************************************************************************)
(* Two tests, a thread for each and one permit.  "paired", "lost" and "killed" *)
(* select two configurations, "old" none that can run.  tsz is right on        *)
(* "paired", except for where the diagnostics of one configuration end and     *)
(* those of the next begin; it is wrong on "odd", and right on the first       *)
(* configuration only of "lost" and "killed".                                *)
(***************************************************************************)
EXTENDS ConformanceProperties, TLC

CONSTANTS t1, t2, paired, odd, lost, killed, old, c1, c2, A, B, C

Order == <<t1, t2>>
Kind == [text \in {paired, odd, lost, killed, old} |->
            IF text = old THEN "unsupported" ELSE "runnable"]
Configurations == [text \in DOMAIN Kind |-> IF text \in {odd, old} THEN 1 ELSE 2]
Commits == (c1 :> ((t1 :> paired) @@ (t2 :> odd))) @@ (c2 :> ((t1 :> lost) @@ (t2 :> old)))

Answer(diagnostics) == [diagnostics |-> diagnostics, exit |-> IF diagnostics = <<>> THEN 0 ELSE 1]
NativeAnswer(text, i) ==
    IF text = paired THEN Answer(IF i = 1 THEN <<A, B>> ELSE <<C>>) ELSE Answer(<<A>>)
TszAnswer(text, i) ==
    CASE text = paired -> Answer(IF i = 1 THEN <<A>> ELSE <<B, C>>)
      [] text = lost /\ i = 2 -> Incomplete
      [] text = killed /\ i = 2 -> Crash
      [] text = odd -> Answer(<<>>)
      [] OTHER -> NativeAnswer(text, i)
=============================================================================
