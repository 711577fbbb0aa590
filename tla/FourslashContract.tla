--------------------------- MODULE FourslashContract ---------------------------
(***************************************************************************)
(* What a test process tells the fourslash runner, and in which order: that  *)
(* it is ready, then for each of its tests that it starts and how it ended,  *)
(* then that it is done (test-worker.cjs).  The runner counts on that order: *)
(* the number of results it has is the index of the test a dead process was  *)
(* running.  FourslashWorker is shown to keep it, FourslashRunner relies on  *)
(* it.                                                                       *)
(***************************************************************************)
EXTENDS Naturals

\* How a test ends for the process that ran it (runTestWithTimeout and the
\* catch around it).
Verdict == {"pass", "slow", "fail", "timeout"}

\* Where a process is: phase, and how many of its tests it has told the result of.
Phase == {"boot", "between", "testing", "done", "dead"}
Place == [phase : Phase, told : Nat]
Booting == [phase |-> "boot", told |-> 0]

Message == [type : {"ready", "start", "done", "error", "note"}] \cup [type : {"result"}, verdict : Verdict]

\* A process of count tests goes from p to q by sending message.
Sends(p, message, q, count) ==
    \/ /\ message.type = "ready" /\ p.phase = "boot"
       /\ q = [p EXCEPT !.phase = "between"]
    \/ /\ message.type = "start" /\ p.phase = "between" /\ p.told < count
       /\ q = [p EXCEPT !.phase = "testing"]
    \/ /\ message.type = "result" /\ p.phase = "testing"
       /\ q = [phase |-> "between", told |-> p.told + 1]
    \/ /\ message.type = "done" /\ p.phase = "between" /\ p.told = count
       /\ q = [p EXCEPT !.phase = "done"]
    \/ /\ message.type = "note" /\ p.phase = "between"
       /\ q = p
    \/ /\ message.type = "error" /\ p.phase \in {"boot", "between"}
       /\ \/ q = p
          \/ q = [p EXCEPT !.phase = "dead"]
=============================================================================
