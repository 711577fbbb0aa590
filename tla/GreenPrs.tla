---------------------------------- MODULE GreenPrs ----------------------------------
(***************************************************************************)
(* refresh-green-prs.mjs: bring one ready, green pull request that is behind   *)
(* main up to date and let it merge by itself.  Each gh call is a step; between *)
(* two of them authors push, CI reports, pull requests merge and main moves.    *)
(***************************************************************************)
EXTENDS Integers

CONSTANTS PullRequests,  \* their numbers
          DEFAULT_POLL_ATTEMPTS,
          MaxChanges     \* bound on what others do

ASSUME GreenAssumption == PullRequests \subseteq Nat /\ DEFAULT_POLL_ATTEMPTS \in Nat

VARIABLES prs,      \* the pull requests as GitHub has them
          main,     \* the commit main is at
          bot,      \* the run of the script
          steady,   \* the pull requests that were in flight ever since the script listed them
          changes   \* how much others have done
greenVars == <<prs, main, bot, steady, changes>>

\* push counts the heads, base is the commit of main the head contains, update
\* the head of an accepted request to bring it up to date.
Opened(base, armed, foreign) ==
    [push |-> 1, base |-> base, checks |-> "passed", draft |-> FALSE, wip |-> FALSE, armed |-> armed, foreign |-> foreign,
     open |-> TRUE, update |-> 0]
Openings == {Opened(0, FALSE, FALSE), Opened(0, TRUE, FALSE), Opened(1, FALSE, FALSE), Opened(1, TRUE, FALSE), Opened(0, FALSE, TRUE)}
Resting == [at |-> "start", list |-> [n \in {} |-> 0], base |-> 0, todo |-> {}, pr |-> [push |-> 0], polls |-> 0]
GreenInit == prs \in [PullRequests -> Openings] /\ main = 1 /\ bot = Resting /\ steady = {} /\ changes = 0

Others == changes < MaxChanges /\ changes' = changes + 1
\* selectSortedPullRequests: the next of those still to look at.
First(ns) == CHOOSE n \in ns : \A m \in ns : n <= m
This == First(bot.todo)
OthersToDo == bot.todo \ {This}

\* Mutant: with its checks passed it is no longer on its way.
autoMergeInFlight_Pending(pr, base) == pr.open /\ ~pr.draft /\ pr.armed /\ pr.checks = "pending"

\* autoMergeInFlightReason, for a pull request as it was read and the base the run knows.
autoMergeInFlight(pr, base) ==
    /\ pr.open /\ ~pr.draft /\ pr.armed
    /\ \/ pr.checks = "pending"
       \/ pr.checks \in {"missing", "passed"} /\ pr.base >= base

\* readPullRequests, then readBranchOid: the summary and the base for the whole run.
List ==
    /\ bot.at = "start"
    /\ bot' = [bot EXCEPT !.at = "base", !.list = [n \in {m \in PullRequests : prs[m].open} |-> prs[n]]]
    /\ UNCHANGED <<prs, main, changes>>
ReadBase ==
    /\ bot.at = "base"
    /\ bot' = [bot EXCEPT !.at = "guard", !.base = main,
                          !.todo = {n \in DOMAIN bot.list : ~bot.list[n].draft /\ bot.list[n].armed}]
    /\ UNCHANGED <<prs, main, changes>>

\* The guard: one armed pull request that is on its way ends the run.
summarySkips(n) == bot.list[n].draft \/ bot.list[n].foreign
OneByOneGuard ==
    /\ bot.at = "guard" /\ bot.todo # {}
    /\ bot' = IF autoMergeInFlight(prs[This], bot.base) THEN [bot EXCEPT !.at = "done"]
              ELSE [bot EXCEPT !.todo = OthersToDo]
    /\ UNCHANGED <<prs, main, changes>>
Choose ==
    /\ bot.at = "guard" /\ bot.todo = {}
    /\ bot' = [bot EXCEPT !.at = "pick", !.todo = {n \in DOMAIN bot.list : ~summarySkips(n)}]
    /\ UNCHANGED <<prs, main, changes>>

\* cheapSkipReason and candidateFromCompare of a pull request as it is now.
cheapSkips(pr) == pr.draft \/ pr.wip \/ pr.checks # "passed"
Pick ==
    /\ bot.at = "pick" /\ bot.todo # {}
    /\ LET pr == prs[This]
       IN  bot' = IF cheapSkips(pr) \/ pr.base >= bot.base THEN [bot EXCEPT !.todo = OthersToDo]
                  ELSE [bot EXCEPT !.at = "update", !.pr = pr]
    /\ UNCHANGED <<prs, main, changes>>

\* updateBranch: GitHub takes the request for the head it was made for, and may
\* refuse it otherwise; a refusal is a failure of this pull request only.
\* Mutant: the request names no head.
IsExpectedHead_Any(n) == TRUE
IsExpectedHead(n) == prs[n].push = bot.pr.push
Update ==
    LET n == This
    IN  /\ bot.at = "update"
        /\ \/ /\ prs[n].open /\ IsExpectedHead(n)
              /\ prs' = [prs EXCEPT ![n].update = prs[n].push]
              /\ bot' = [bot EXCEPT !.at = "poll", !.polls = DEFAULT_POLL_ATTEMPTS]
              /\ UNCHANGED changes
           \/ /\ bot' = [bot EXCEPT !.at = "pick", !.todo = OthersToDo]
              /\ IF prs[n].open /\ IsExpectedHead(n) THEN Others ELSE UNCHANGED changes
              /\ UNCHANGED prs
        /\ UNCHANGED main

\* waitForUpdatedHead: any other head will do.
Poll ==
    LET n == This
    IN  /\ bot.at = "poll"
        /\ bot' = CASE prs[n].push # bot.pr.push ->
                         [bot EXCEPT !.at = IF prs[n].armed THEN "done" ELSE "arm", !.pr = prs[n]]
                    [] prs[n].push = bot.pr.push /\ bot.polls > 1 -> [bot EXCEPT !.polls = @ - 1]
                    [] OTHER -> [bot EXCEPT !.at = "done"]
        /\ UNCHANGED <<prs, main, changes>>

\* enableAutoMerge, for the head that was read.
Arm ==
    LET n == This
    IN  /\ bot.at = "arm"
        /\ prs' = IF prs[n].open /\ IsExpectedHead(n) THEN [prs EXCEPT ![n].armed = TRUE] ELSE prs
        /\ bot' = [bot EXCEPT !.at = "done"]
        /\ UNCHANGED <<main, changes>>

\* The end of a run; another may be dispatched.
Again ==
    /\ bot.at = "done" \/ (bot.at = "pick" /\ bot.todo = {})
    /\ Others
    /\ bot' = Resting
    /\ UNCHANGED <<prs, main>>

-----------------------------------------------------------------------------
\* GitHub carries an accepted update out later, or drops it when the head has moved.
Applies(n) ==
    /\ prs[n].update # 0
    /\ prs' = IF prs[n].update = prs[n].push /\ prs[n].open
              THEN [prs EXCEPT ![n].update = 0, ![n].push = @ + 1, ![n].base = main, ![n].checks = "missing"]
              ELSE [prs EXCEPT ![n].update = 0]
    /\ UNCHANGED <<main, bot, changes>>
Pushes(n, onMain) ==
    /\ prs[n].open /\ Others
    /\ prs' = [prs EXCEPT ![n].push = @ + 1, ![n].base = IF onMain THEN main ELSE @, ![n].checks = "missing"]
    /\ UNCHANGED <<main, bot>>
Checks(n) ==
    /\ prs[n].open
    /\ \/ prs[n].checks = "missing" /\ prs' = [prs EXCEPT ![n].checks = "pending"]
       \/ prs[n].checks = "pending" /\ \E c \in {"passed", "failed"} : prs' = [prs EXCEPT ![n].checks = c]
    /\ UNCHANGED <<main, bot, changes>>
Marks(n) ==
    /\ prs[n].open /\ Others
    /\ \/ prs' = [prs EXCEPT ![n].draft = ~@]
       \/ prs' = [prs EXCEPT ![n].wip = ~@]
       \/ prs' = [prs EXCEPT ![n].armed = ~@]
    /\ UNCHANGED <<main, bot>>
Merges(n) ==
    /\ prs[n].open /\ prs[n].armed /\ ~prs[n].draft /\ prs[n].checks = "passed" /\ prs[n].base = main
    /\ prs' = [prs EXCEPT ![n].open = FALSE]
    /\ main' = main + 1
    /\ UNCHANGED <<bot, changes>>
MainMoves == Others /\ main' = main + 1 /\ UNCHANGED <<prs, bot>>

BotNext == List \/ ReadBase \/ OneByOneGuard \/ Choose \/ Pick \/ Update \/ Poll \/ Arm \/ Again
OthersNext == MainMoves \/ \E n \in PullRequests : \/ Applies(n) \/ Checks(n) \/ Marks(n) \/ Merges(n)
                                                   \/ \E onMain \in BOOLEAN : Pushes(n, onMain)
\* Nobody need touch it any more: it merges when its checks pass.
IsOnItsWay(pr, base) == pr.open /\ ~pr.draft /\ pr.armed /\ pr.checks # "failed" /\ pr.base >= base
GreenNext ==
    /\ BotNext \/ OthersNext
    /\ LET base == IF bot'.at \in {"start", "base"} THEN main' ELSE bot'.base
           flying == {n \in PullRequests : IsOnItsWay(prs'[n], base)}
       IN  steady' = IF bot.at = "start" /\ bot'.at = "base" THEN flying ELSE steady \cap flying

-----------------------------------------------------------------------------
GreenSpec == GreenInit /\ [][GreenNext]_greenVars

IsUpdated(n) == bot.at = "update" /\ bot'.at = "poll" /\ n = This

\* The head GitHub is asked to bring up to date is the one whose required checks
\* had passed and which lacked a commit of main, whoever pushed since it was read
\* (updateBranch, expected_head_sha).
RefreshIsEarned ==
    [][\A n \in PullRequests : IsUpdated(n) =>
          prs[n].open /\ prs[n].checks = "passed" /\ prs[n].base < main /\ ~prs[n].foreign]_greenVars

\* One by one: no pull request is refreshed while another has been on its way to
\* merge by itself ever since the run listed them (autoMergeInFlightReason, "One-by-one guard").
OneByOne == [][\A n \in PullRequests : IsUpdated(n) => steady \ {n} = {}]_greenVars
===================================================================================
