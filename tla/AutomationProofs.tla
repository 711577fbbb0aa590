------------------------------ MODULE AutomationProofs -----------------------------
(***************************************************************************)
(* What refresh-green-prs.mjs and the monitors of ci-health.yml touch is what   *)
(* they read, for every set of pull requests and issues and whatever authors,   *)
(* CI and GitHub do between two calls.                                           *)
(***************************************************************************)
EXTENDS GreenPrs, Sentinels, WellFoundedInduction, TLAPS

States == {"start", "base", "guard", "pick", "update", "poll", "arm", "done"}
PullRequest ==
    [push : Nat, base : Nat, checks : {"missing", "pending", "passed", "failed"}, draft : BOOLEAN, wip : BOOLEAN,
     armed : BOOLEAN, foreign : BOOLEAN, open : BOOLEAN, update : Nat]
Bot(list) == [at : States, list : {list}, base : Nat, todo : SUBSET PullRequests,
              pr : PullRequest \cup {[push |-> 0]}, polls : Int]

GreenTypeOK ==
    /\ prs \in [PullRequests -> PullRequest]
    /\ main \in Nat
    /\ bot \in Bot(bot.list)
    /\ bot.list \in [DOMAIN bot.list -> PullRequest]
    /\ steady \subseteq PullRequests

\* No base is ahead of main, and what was listed is of the same repository now.
ListIsTrue ==
    /\ bot.base <= main
    /\ \A n \in DOMAIN bot.list : n \in PullRequests /\ bot.list[n].foreign = prs[n].foreign

\* A head that is still the one that was read is as green and as far behind as it was.
ChosenIsReady ==
    /\ bot.at \in {"pick", "update"} => \A n \in bot.todo : n \in DOMAIN bot.list /\ ~bot.list[n].foreign
    /\ bot.at \in {"update", "poll", "arm"} => bot.todo # {}
    /\ bot.at = "update" =>
          /\ bot.pr.push <= prs[This].push
          /\ prs[This].push = bot.pr.push => prs[This].checks = "passed" /\ prs[This].base < bot.base

\* Whoever is on its way is among those the guard has still to look at.
GuardSeesThem ==
    /\ bot.at = "base" => \A n \in steady : n \in DOMAIN bot.list /\ ~bot.list[n].draft /\ bot.list[n].armed
    /\ bot.at = "guard" => \A n \in steady : n \in bot.todo /\ IsOnItsWay(prs[n], bot.base)
    /\ bot.at \in {"pick", "update"} => steady = {}

GreenInv == GreenTypeOK /\ ListIsTrue /\ ChosenIsReady /\ GuardSeesThem

LEMMA InitInv == GreenInit => GreenInv
<1> SUFFICES ASSUME GreenInit PROVE GreenInv
    OBVIOUS
<1>1. GreenTypeOK
  <2>1. Openings \subseteq PullRequest
    <3> SUFFICES ASSUME NEW o \in Openings PROVE o \in PullRequest
        OBVIOUS
    <3>1. ASSUME NEW base \in {0, 1}, NEW armed \in BOOLEAN, NEW foreign \in BOOLEAN PROVE Opened(base, armed, foreign) \in PullRequest
        BY DEF Opened, PullRequest
    <3>2. FALSE \in BOOLEAN /\ TRUE \in BOOLEAN /\ 0 \in {0, 1} /\ 1 \in {0, 1}
        OBVIOUS
    <3> QED BY <3>1, <3>2, Zenon DEF Openings
  <2>2. bot \in Bot(bot.list) /\ bot.list \in [DOMAIN bot.list -> PullRequest]
    <3>1. bot.list = [n \in {} |-> 0] /\ DOMAIN bot.list = {}
        BY DEF GreenInit, Resting
    <3>2. bot.list \in [DOMAIN bot.list -> PullRequest]
        BY <3>1
    <3> QED BY <3>1, <3>2 DEF GreenInit, Resting, Bot, States
  <2> QED BY <2>1, <2>2 DEF GreenInit, GreenTypeOK
<1>2. ListIsTrue /\ ChosenIsReady /\ GuardSeesThem
    BY DEF GreenInit, ListIsTrue, ChosenIsReady, GuardSeesThem, Resting
<1> QED BY <1>1, <1>2 DEF GreenInv

\* The next pull request to look at is one of those still to look at.
LEMMA FirstIsOne ==
    ASSUME NEW ns \in SUBSET PullRequests, ns # {}
    PROVE  First(ns) \in ns
<1> DEFINE Less == OpToRel(<, Nat)
<1>1. IsWellFoundedOn(Less, Nat)
    BY NatLessThanWellFounded
<1>2. ns \subseteq Nat
    BY GreenAssumption
<1>3. PICK n \in ns : \A m \in ns : ~(<<m, n>> \in Less)
  <2> HIDE DEF Less
  <2> QED BY <1>1, <1>2, WFMin
<1>4. \A m \in ns : n <= m
  <2> SUFFICES ASSUME NEW m \in ns PROVE n <= m
      OBVIOUS
  <2>1. ~(m < n)
      BY <1>2, <1>3 DEF OpToRel
  <2> QED BY <1>2, <2>1
<1> QED BY <1>4 DEF First

\* What a step leaves of the pull requests that are on their way.
LEMMA SteadyStep ==
    ASSUME GreenNext, steady \subseteq PullRequests
    PROVE  /\ steady' \subseteq PullRequests
           /\ bot.at = "start" /\ bot'.at = "base" => \A n \in steady' : IsOnItsWay(prs'[n], main')
           /\ ~(bot.at = "start" /\ bot'.at = "base") => steady' \subseteq steady
           /\ bot'.at \notin {"start", "base"} => \A n \in steady' : IsOnItsWay(prs'[n], bot'.base)
BY DEF GreenNext

-----------------------------------------------------------------------------
(***************************************************************************)
(* What authors, CI, GitHub and main do.                                      *)
(***************************************************************************)

\* A pull request keeps its repository; while its head stays, so do its passed
\* checks and its base.
Ages(old, new) ==
    /\ new.foreign = old.foreign
    /\ old.push <= new.push
    /\ new.push = old.push => new.base = old.base /\ (old.checks = "passed" => new.checks = "passed")

Aged(old, new) == new \in PullRequest /\ Ages(old, new)
LEMMA Aging ==
    ASSUME NEW pr \in PullRequest, NEW base \in Nat
    PROVE  /\ \A b \in BOOLEAN : Aged(pr, [pr EXCEPT !.draft = b]) /\ Aged(pr, [pr EXCEPT !.wip = b]) /\ Aged(pr, [pr EXCEPT !.armed = b])
           /\ Aged(pr, [pr EXCEPT !.update = 0])
           /\ Aged(pr, [pr EXCEPT !.open = FALSE])
           /\ \A c \in {"pending", "passed", "failed"} : pr.checks # "passed" => Aged(pr, [pr EXCEPT !.checks = c])
           /\ Aged(pr, [pr EXCEPT !.push = @ + 1, !.base = base, !.checks = "missing"])
           /\ Aged(pr, [pr EXCEPT !.update = 0, !.push = @ + 1, !.base = base, !.checks = "missing"])
<1> USE DEF Aged, PullRequest, Ages
<1>1. ASSUME NEW b \in BOOLEAN PROVE Aged(pr, [pr EXCEPT !.draft = b])
    OBVIOUS
<1>2. ASSUME NEW b \in BOOLEAN PROVE Aged(pr, [pr EXCEPT !.wip = b])
    OBVIOUS
<1>3. ASSUME NEW b \in BOOLEAN PROVE Aged(pr, [pr EXCEPT !.armed = b])
    OBVIOUS
<1>4. Aged(pr, [pr EXCEPT !.update = 0])
    OBVIOUS
<1>5. Aged(pr, [pr EXCEPT !.open = FALSE])
  <2>1. ASSUME NEW b \in BOOLEAN PROVE Aged(pr, [pr EXCEPT !.open = b])
      OBVIOUS
  <2> QED BY <2>1, Zenon
<1>6. ASSUME NEW c \in {"pending", "passed", "failed"}, pr.checks # "passed" PROVE Aged(pr, [pr EXCEPT !.checks = c])
    BY <1>6
<1>7. Aged(pr, [pr EXCEPT !.push = @ + 1, !.base = base, !.checks = "missing"])
  <2> DEFINE new == [pr EXCEPT !.push = @ + 1, !.base = base, !.checks = "missing"]
  <2>1. new.push = pr.push + 1 /\ new.foreign = pr.foreign /\ pr.push \in Nat
      OBVIOUS
  <2>2. Ages(pr, new)
      BY <2>1
  <2>3. new \in PullRequest
    <3>1. ASSUME NEW m \in Nat, NEW c \in {"missing", "pending", "passed", "failed"}
          PROVE  [pr EXCEPT !.push = m, !.base = base, !.checks = c] \in PullRequest
        OBVIOUS
    <3>2. pr.push + 1 \in Nat /\ "missing" \in {"missing", "pending", "passed", "failed"}
        BY <2>1
    <3> QED BY <3>1, <3>2, Zenon
  <2> QED BY <2>2, <2>3
<1>8. Aged(pr, [pr EXCEPT !.update = 0, !.push = @ + 1, !.base = base, !.checks = "missing"])
  <2> DEFINE new == [pr EXCEPT !.update = 0, !.push = @ + 1, !.base = base, !.checks = "missing"]
  <2>1. new.push = pr.push + 1 /\ new.foreign = pr.foreign /\ pr.push \in Nat
      OBVIOUS
  <2>2. Ages(pr, new)
      BY <2>1
  <2>3. new \in PullRequest
    <3>1. ASSUME NEW m \in Nat, NEW c \in {"missing", "pending", "passed", "failed"}
          PROVE  [pr EXCEPT !.update = 0, !.push = m, !.base = base, !.checks = c] \in PullRequest
        OBVIOUS
    <3>2. pr.push + 1 \in Nat /\ "missing" \in {"missing", "pending", "passed", "failed"}
        BY <2>1
    <3> QED BY <3>1, <3>2, Zenon
  <2> QED BY <2>2, <2>3
<1> HIDE DEF Aged, PullRequest, Ages
<1> QED BY <1>1, <1>2, <1>3, <1>4, <1>5, <1>6, <1>7, <1>8

LEMMA OneChanges ==
    ASSUME GreenTypeOK, NEW n \in PullRequests, NEW new,
           prs' = [prs EXCEPT ![n] = new], Aged(prs[n], new)
    PROVE  prs' \in [PullRequests -> PullRequest] /\ \A k \in PullRequests : Ages(prs[k], prs'[k])
<1>1. prs' \in [PullRequests -> PullRequest]
    BY DEF GreenTypeOK, Aged
<1>2. ASSUME NEW k \in PullRequests PROVE Ages(prs[k], prs'[k])
  <2>1. CASE k = n
      BY <2>1 DEF GreenTypeOK, Aged
  <2>2. CASE k # n
      BY <2>2 DEF GreenTypeOK, PullRequest, Ages
  <2> QED BY <2>1, <2>2
<1> QED BY <1>1, <1>2

LEMMA NoneChanges ==
    ASSUME GreenTypeOK
    PROVE  \A k \in PullRequests : Ages(prs[k], prs[k])
BY DEF GreenTypeOK, PullRequest, Ages

LEMMA OthersStep ==
    ASSUME GreenTypeOK, OthersNext
    PROVE  /\ prs' \in [PullRequests -> PullRequest]
           /\ \A n \in PullRequests : Ages(prs[n], prs'[n])
           /\ main' \in Nat /\ main <= main'
           /\ bot' = bot
<1> DEFINE AllAge == prs' \in [PullRequests -> PullRequest] /\ \A k \in PullRequests : Ages(prs[k], prs'[k])
<1>1. ASSUME MainMoves PROVE AllAge /\ main' \in Nat /\ main <= main' /\ bot' = bot
    BY <1>1, NoneChanges DEF MainMoves, GreenTypeOK
<1>2. ASSUME NEW n \in PullRequests, Applies(n) PROVE AllAge /\ main' = main /\ bot' = bot
  <2> DEFINE new == IF prs[n].update = prs[n].push /\ prs[n].open
                    THEN [prs[n] EXCEPT !.update = 0, !.push = @ + 1, !.base = main, !.checks = "missing"]
                    ELSE [prs[n] EXCEPT !.update = 0]
  <2>1. prs' = [prs EXCEPT ![n] = new]
      BY <1>2 DEF Applies, GreenTypeOK, PullRequest
  <2>2. Aged(prs[n], new)
      BY Aging DEF GreenTypeOK
  <2> QED BY <1>2, <2>1, <2>2, OneChanges DEF Applies
<1>3. ASSUME NEW n \in PullRequests, Checks(n) PROVE AllAge /\ main' = main /\ bot' = bot
  <2>1. PICK c \in {"pending", "passed", "failed"} :
              prs[n].checks # "passed" /\ prs' = [prs EXCEPT ![n].checks = c]
      BY <1>3 DEF Checks
  <2> DEFINE new == [prs[n] EXCEPT !.checks = c]
  <2>2. prs' = [prs EXCEPT ![n] = new]
      BY <2>1
  <2>3. Aged(prs[n], new)
      BY <2>1, Aging DEF GreenTypeOK
  <2> QED BY <1>3, <2>2, <2>3, OneChanges DEF Checks
<1>4. ASSUME NEW n \in PullRequests, Marks(n) PROVE AllAge /\ main' = main /\ bot' = bot
  <2>1. PICK new \in {[prs[n] EXCEPT !.draft = ~@], [prs[n] EXCEPT !.wip = ~@], [prs[n] EXCEPT !.armed = ~@]} :
              prs' = [prs EXCEPT ![n] = new]
      BY <1>4 DEF Marks
  <2>2. Aged(prs[n], new)
    <3>1. prs[n] \in PullRequest
        BY DEF GreenTypeOK
    <3>2. {prs[n].draft, prs[n].wip, prs[n].armed} \subseteq BOOLEAN
        BY <3>1 DEF PullRequest
    <3>3. {~prs[n].draft, ~prs[n].wip, ~prs[n].armed} \subseteq BOOLEAN
        BY <3>2
    <3>4. \A b \in BOOLEAN : /\ Aged(prs[n], [prs[n] EXCEPT !.draft = b])
                            /\ Aged(prs[n], [prs[n] EXCEPT !.wip = b])
                            /\ Aged(prs[n], [prs[n] EXCEPT !.armed = b])
        BY <3>1, Aging DEF GreenTypeOK
    <3> QED BY <3>3, <3>4
  <2> QED BY <1>4, <2>1, <2>2, OneChanges DEF Marks
<1>5. ASSUME NEW n \in PullRequests, Merges(n) PROVE AllAge /\ main' = main + 1 /\ bot' = bot
  <2> DEFINE new == [prs[n] EXCEPT !.open = FALSE]
  <2>1. prs' = [prs EXCEPT ![n] = new]
      BY <1>5 DEF Merges
  <2>2. Aged(prs[n], new)
      BY Aging DEF GreenTypeOK
  <2> QED BY <1>5, <2>1, <2>2, OneChanges DEF Merges
<1>6. ASSUME NEW n \in PullRequests, NEW onMain \in BOOLEAN, Pushes(n, onMain) PROVE AllAge /\ main' = main /\ bot' = bot
  <2> DEFINE new == [prs[n] EXCEPT !.push = @ + 1, !.base = IF onMain THEN main ELSE @, !.checks = "missing"]
  <2>1. prs' = [prs EXCEPT ![n] = new]
      BY <1>6 DEF Pushes, GreenTypeOK, PullRequest
  <2>2. Aged(prs[n], new)
    <3>1. prs[n] \in PullRequest /\ prs[n].base \in Nat /\ main \in Nat
        BY DEF GreenTypeOK, PullRequest
    <3>2. CASE onMain
        BY <3>1, <3>2, Aging
    <3>3. CASE ~onMain
        BY <3>1, <3>3, Aging
    <3> QED BY <3>2, <3>3
  <2> QED BY <1>6, <2>1, <2>2, OneChanges DEF Pushes
<1> HIDE DEF AllAge
<1>7. AllAge /\ main' \in Nat /\ main <= main' /\ bot' = bot
  <2>1. CASE MainMoves
      BY <2>1, <1>1
  <2>2. CASE \E n \in PullRequests : \/ Applies(n) \/ Checks(n) \/ Marks(n) \/ Merges(n)
                                      \/ \E onMain \in BOOLEAN : Pushes(n, onMain)
    <3>1. AllAge /\ (main' = main \/ main' = main + 1) /\ bot' = bot
        BY <2>2, <1>2, <1>3, <1>4, <1>5, <1>6, Zenon
    <3> QED BY <3>1 DEF GreenTypeOK
  <2> QED BY <2>1, <2>2 DEF OthersNext
<1> QED BY <1>7 DEF AllAge

LEMMA OthersKeep ==
    ASSUME GreenInv, GreenNext, OthersNext
    PROVE  GreenInv'
<1>1. /\ prs' \in [PullRequests -> PullRequest]
      /\ \A n \in PullRequests : Ages(prs[n], prs'[n])
      /\ main' \in Nat /\ main <= main'
      /\ bot' = bot
    BY OthersStep DEF GreenInv
<1>2. steady' \subseteq PullRequests /\ steady' \subseteq steady
    BY <1>1, SteadyStep DEF GreenInv, GreenTypeOK
<1>3. GreenTypeOK'
    BY <1>1, <1>2 DEF GreenInv, GreenTypeOK
<1>4. ListIsTrue'
    BY <1>1 DEF GreenInv, GreenTypeOK, ListIsTrue, Ages, Bot
<1>5. ChosenIsReady'
  <2>1. CASE bot.at = "update"
    <3>1. This \in PullRequests /\ This' = This
        BY <1>1, <2>1, FirstIsOne DEF GreenInv, GreenTypeOK, ChosenIsReady, Bot, This
    <3>2. Ages(prs[This], prs'[This]) /\ prs[This].push \in Nat /\ prs'[This].push \in Nat
        BY <1>1, <3>1 DEF GreenInv, GreenTypeOK, PullRequest
    <3>3. bot.pr.push \in Nat
        BY DEF GreenInv, GreenTypeOK, Bot, PullRequest
    <3> QED BY <1>1, <2>1, <3>1, <3>2, <3>3 DEF GreenInv, ChosenIsReady, Ages
  <2>2. CASE bot.at # "update"
      BY <1>1, <2>2 DEF GreenInv, ChosenIsReady
  <2> QED BY <2>1, <2>2
<1>6. GuardSeesThem'
    BY <1>1, <1>2, SteadyStep DEF GreenInv, GreenTypeOK, GuardSeesThem
<1> QED BY <1>3, <1>4, <1>5, <1>6 DEF GreenInv

-----------------------------------------------------------------------------
(***************************************************************************)
(* What the script does.                                                      *)
(***************************************************************************)
LEMMA ListKeeps ==
    ASSUME GreenInv, GreenNext, List
    PROVE  GreenInv'
<1> DEFINE listed == {m \in PullRequests : prs[m].open}
<1>1. /\ bot'.at = "base" /\ bot'.base = bot.base /\ bot'.todo = bot.todo /\ bot.at = "start"
      /\ bot'.list = [n \in listed |-> prs[n]]
      /\ bot' \in Bot(bot'.list)
      /\ prs' = prs /\ main' = main
    BY DEF List, GreenInv, GreenTypeOK, Bot, States
<1>2. bot'.list \in [DOMAIN bot'.list -> PullRequest] /\ DOMAIN bot'.list = listed
    BY <1>1 DEF GreenInv, GreenTypeOK
<1>3. GreenTypeOK'
    BY <1>1, <1>2, SteadyStep DEF GreenInv, GreenTypeOK
<1>4. ListIsTrue'
    BY <1>1, <1>2 DEF GreenInv, ListIsTrue
<1>5. ChosenIsReady'
    BY <1>1 DEF ChosenIsReady
<1>6. GuardSeesThem'
  <2>1. \A n \in steady' : n \in PullRequests /\ IsOnItsWay(prs[n], main)
      BY <1>1, SteadyStep DEF GreenInv, GreenTypeOK
  <2> QED BY <1>1, <1>2, <2>1 DEF GuardSeesThem, IsOnItsWay
<1> QED BY <1>3, <1>4, <1>5, <1>6 DEF GreenInv

LEMMA ReadBaseKeeps ==
    ASSUME GreenInv, GreenNext, ReadBase
    PROVE  GreenInv'
<1> DEFINE armed == {n \in DOMAIN bot.list : ~bot.list[n].draft /\ bot.list[n].armed}
<1>1. /\ bot'.at = "guard" /\ bot'.base = main /\ bot'.todo = armed /\ bot'.list = bot.list /\ bot.at = "base"
      /\ prs' = prs /\ main' = main
    BY DEF ReadBase, GreenInv, GreenTypeOK, Bot
<1>2. bot' \in Bot(bot'.list)
    BY <1>1 DEF ReadBase, GreenInv, GreenTypeOK, ListIsTrue, Bot, States
<1>3. steady' \subseteq PullRequests /\ steady' \subseteq steady /\ \A n \in steady' : IsOnItsWay(prs[n], main)
    BY <1>1, SteadyStep DEF GreenInv, GreenTypeOK
<1>4. GreenTypeOK'
    BY <1>1, <1>2, <1>3 DEF GreenInv, GreenTypeOK
<1>5. ListIsTrue'
    BY <1>1 DEF GreenInv, GreenTypeOK, ListIsTrue
<1>6. ChosenIsReady'
    BY <1>1 DEF ChosenIsReady
<1>7. GuardSeesThem'
    BY <1>1, <1>3 DEF GreenInv, GuardSeesThem
<1> QED BY <1>4, <1>5, <1>6, <1>7 DEF GreenInv

\* The actions that change at most the state, the work left, what was read and the polls.
LEMMA SameList ==
    ASSUME GreenInv, GreenNext, prs' \in [PullRequests -> PullRequest], \A n \in PullRequests : Ages(prs[n], prs'[n]),
           main' = main, NEW at \in States, NEW todo \in SUBSET PullRequests, NEW pr \in PullRequest \cup {[push |-> 0]},
           NEW polls \in Int, bot' = [bot EXCEPT !.at = at, !.todo = todo, !.pr = pr, !.polls = polls], at # "base"
    PROVE  /\ GreenTypeOK' /\ ListIsTrue' /\ bot'.at = at /\ bot'.todo = todo /\ bot'.pr = pr
           /\ bot'.list = bot.list /\ bot'.base = bot.base /\ steady' \subseteq steady
<1>1. /\ bot'.at = at /\ bot'.todo = todo /\ bot'.pr = pr /\ bot'.list = bot.list /\ bot'.base = bot.base
      /\ bot' \in Bot(bot'.list)
    BY DEF GreenInv, GreenTypeOK, Bot
<1>2. steady' \subseteq PullRequests /\ steady' \subseteq steady
    BY <1>1, SteadyStep DEF GreenInv, GreenTypeOK
<1>3. GreenTypeOK'
    BY <1>1, <1>2 DEF GreenInv, GreenTypeOK
<1>4. ListIsTrue'
    BY <1>1 DEF GreenInv, GreenTypeOK, ListIsTrue, Ages
<1> QED BY <1>1, <1>2, <1>3, <1>4

LEMMA AllSame ==
    ASSUME GreenInv, prs' = prs
    PROVE  prs' \in [PullRequests -> PullRequest] /\ \A n \in PullRequests : Ages(prs[n], prs'[n])
BY NoneChanges DEF GreenInv, GreenTypeOK

LEMMA GuardKeeps ==
    ASSUME GreenInv, GreenNext, OneByOneGuard
    PROVE  GreenInv'
<1>1. bot.at = "guard" /\ bot.todo # {} /\ prs' = prs /\ main' = main
    BY DEF OneByOneGuard
<1>2. bot \in Bot(bot.list) /\ This \in PullRequests
    BY <1>1, FirstIsOne DEF GreenInv, GreenTypeOK, Bot, This
<1>3. CASE autoMergeInFlight(prs[This], bot.base)
  <2>1. bot' = [bot EXCEPT !.at = "done", !.todo = bot.todo, !.pr = bot.pr, !.polls = bot.polls]
      BY <1>2, <1>3 DEF OneByOneGuard, Bot
  <2>2. GreenTypeOK' /\ ListIsTrue' /\ bot'.at = "done"
      BY <1>1, <1>2, <2>1, AllSame, SameList DEF Bot, States
  <2> QED BY <2>2 DEF GreenInv, ChosenIsReady, GuardSeesThem
<1>4. CASE ~autoMergeInFlight(prs[This], bot.base)
  <2>1. bot' = [bot EXCEPT !.at = "guard", !.todo = OthersToDo, !.pr = bot.pr, !.polls = bot.polls]
      BY <1>1, <1>2, <1>4 DEF OneByOneGuard, Bot
  <2>2. OthersToDo \in SUBSET PullRequests
      BY <1>2 DEF OthersToDo, Bot
  <2>3. GreenTypeOK' /\ ListIsTrue' /\ bot'.at = "guard" /\ bot'.todo = OthersToDo /\ bot'.base = bot.base /\ steady' \subseteq steady
      BY <1>1, <1>2, <2>1, <2>2, AllSame, SameList DEF Bot, States
  <2>4. \A n \in steady' : IsOnItsWay(prs[n], bot.base)
      BY <1>1, <2>3, SteadyStep DEF GreenInv, GreenTypeOK
  <2>5. ASSUME This \in steady' PROVE FALSE
    <3>1. IsOnItsWay(prs[This], bot.base)
        BY <2>4, <2>5
    <3>2. prs[This].checks \in {"missing", "pending", "passed", "failed"}
        BY <1>2 DEF GreenInv, GreenTypeOK, PullRequest
    <3> QED BY <1>4, <3>1, <3>2 DEF IsOnItsWay, autoMergeInFlight
  <2>6. GuardSeesThem'
      BY <1>1, <2>3, <2>4, <2>5 DEF GreenInv, GuardSeesThem, OthersToDo
  <2> QED BY <2>3, <2>6 DEF GreenInv, ChosenIsReady
<1> QED BY <1>3, <1>4

LEMMA ChooseKeeps ==
    ASSUME GreenInv, GreenNext, Choose
    PROVE  GreenInv'
<1> DEFINE chosen == {n \in DOMAIN bot.list : ~summarySkips(n)}
<1>1. bot.at = "guard" /\ bot.todo = {} /\ prs' = prs /\ main' = main
    BY DEF Choose
<1>2. bot \in Bot(bot.list)
    BY DEF GreenInv, GreenTypeOK
<1>3. bot' = [bot EXCEPT !.at = "pick", !.todo = chosen, !.pr = bot.pr, !.polls = bot.polls]
    BY <1>2 DEF Choose, Bot
<1>4. chosen \in SUBSET PullRequests
    BY DEF GreenInv, ListIsTrue
<1>5. GreenTypeOK' /\ ListIsTrue' /\ bot'.at = "pick" /\ bot'.todo = chosen /\ bot'.list = bot.list /\ steady' \subseteq steady
  <2> HIDE DEF chosen
  <2> QED BY <1>1, <1>2, <1>3, <1>4, AllSame, SameList DEF Bot, States
<1>6. ChosenIsReady'
    BY <1>5 DEF ChosenIsReady, summarySkips
<1>7. GuardSeesThem'
    BY <1>1, <1>5 DEF GreenInv, GuardSeesThem
<1> QED BY <1>5, <1>6, <1>7 DEF GreenInv

LEMMA PickKeeps ==
    ASSUME GreenInv, GreenNext, Pick
    PROVE  GreenInv'
<1> DEFINE pr == prs[This]
<1>1. bot.at = "pick" /\ bot.todo # {} /\ prs' = prs /\ main' = main
    BY DEF Pick
<1>2. bot \in Bot(bot.list) /\ This \in PullRequests /\ pr \in PullRequest
    BY <1>1, FirstIsOne DEF GreenInv, GreenTypeOK, Bot, This
<1>3. CASE cheapSkips(pr) \/ pr.base >= bot.base
  <2>1. bot' = [bot EXCEPT !.at = "pick", !.todo = OthersToDo, !.pr = bot.pr, !.polls = bot.polls]
      BY <1>1, <1>2, <1>3 DEF Pick, Bot
  <2>2. OthersToDo \in SUBSET PullRequests
      BY <1>2 DEF OthersToDo, Bot
  <2>3. GreenTypeOK' /\ ListIsTrue' /\ bot'.at = "pick" /\ bot'.todo = OthersToDo /\ bot'.list = bot.list /\ steady' \subseteq steady
      BY <1>1, <1>2, <2>1, <2>2, AllSame, SameList DEF Bot, States
  <2> QED BY <1>1, <2>3 DEF GreenInv, ChosenIsReady, GuardSeesThem, OthersToDo
<1>4. CASE ~(cheapSkips(pr) \/ pr.base >= bot.base)
  <2>1. bot' = [bot EXCEPT !.at = "update", !.todo = bot.todo, !.pr = pr, !.polls = bot.polls]
      BY <1>2, <1>4 DEF Pick, Bot
  <2>2. GreenTypeOK' /\ ListIsTrue' /\ bot'.at = "update" /\ bot'.todo = bot.todo /\ bot'.pr = pr /\ bot'.list = bot.list
        /\ bot'.base = bot.base /\ steady' \subseteq steady
    <3> HIDE DEF pr
    <3> QED BY <1>1, <1>2, <2>1, AllSame, SameList DEF Bot, States
  <2>3. pr.checks = "passed" /\ pr.base < bot.base /\ pr.push \in Nat
      BY <1>2, <1>4 DEF cheapSkips, Bot, PullRequest
  <2>4. This' = This
      BY <2>2 DEF This
  <2>5. ChosenIsReady'
      BY <1>1, <2>2, <2>3, <2>4 DEF GreenInv, ChosenIsReady
  <2> QED BY <1>1, <2>2, <2>5 DEF GreenInv, GuardSeesThem
<1> QED BY <1>3, <1>4

LEMMA UpdateKeeps ==
    ASSUME GreenInv, GreenNext, Update
    PROVE  GreenInv'
<1>1. bot.at = "update" /\ main' = main /\ bot \in Bot(bot.list) /\ This \in PullRequests
    BY FirstIsOne DEF Update, GreenInv, GreenTypeOK, ChosenIsReady, Bot, This
<1>2. CASE /\ prs' = [prs EXCEPT ![This].update = prs[This].push]
           /\ bot' = [bot EXCEPT !.at = "poll", !.polls = DEFAULT_POLL_ATTEMPTS]
  <2> DEFINE new == [prs[This] EXCEPT !.update = prs[This].push]
  <2>1. Aged(prs[This], new) /\ prs' = [prs EXCEPT ![This] = new]
    <3>1. prs[This] \in PullRequest
        BY <1>1 DEF GreenInv, GreenTypeOK
    <3>2. new \in PullRequest
        BY <3>1 DEF PullRequest
    <3> QED BY <1>2, <3>1, <3>2 DEF PullRequest, Aged, Ages
  <2>2. prs' \in [PullRequests -> PullRequest] /\ \A n \in PullRequests : Ages(prs[n], prs'[n])
    <3> HIDE DEF new
    <3> QED BY <1>1, <2>1, OneChanges DEF GreenInv
  <2>3. bot' = [bot EXCEPT !.at = "poll", !.todo = bot.todo, !.pr = bot.pr, !.polls = DEFAULT_POLL_ATTEMPTS]
      BY <1>1, <1>2 DEF Bot
  <2>4. GreenTypeOK' /\ ListIsTrue' /\ bot'.at = "poll" /\ bot'.todo = bot.todo
    <3> HIDE DEF new
    <3>1. DEFAULT_POLL_ATTEMPTS \in Int /\ "poll" \in States /\ "poll" # "base"
        BY GreenAssumption DEF States
    <3> QED BY <1>1, <2>2, <2>3, <3>1, SameList DEF Bot
  <2> QED BY <1>1, <2>4 DEF GreenInv, ChosenIsReady, GuardSeesThem
<1>3. CASE prs' = prs /\ bot' = [bot EXCEPT !.at = "pick", !.todo = OthersToDo]
  <2>1. bot' = [bot EXCEPT !.at = "pick", !.todo = OthersToDo, !.pr = bot.pr, !.polls = bot.polls]
      BY <1>1, <1>3 DEF Bot
  <2>2. OthersToDo \in SUBSET PullRequests /\ "pick" \in States /\ "pick" # "base"
      BY <1>1 DEF OthersToDo, Bot, States
  <2>3. bot.pr \in PullRequest \cup {[push |-> 0]} /\ bot.polls \in Int
      BY <1>1 DEF Bot
  <2>4. prs' \in [PullRequests -> PullRequest] /\ \A n \in PullRequests : Ages(prs[n], prs'[n])
      BY <1>3, AllSame
  <2>5. GreenTypeOK' /\ ListIsTrue' /\ bot'.at = "pick" /\ bot'.todo = OthersToDo /\ bot'.list = bot.list /\ steady' \subseteq steady
    <3>1. PICK todo \in SUBSET PullRequests : todo = OthersToDo
        BY <2>2
    <3>2. bot' = [bot EXCEPT !.at = "pick", !.todo = todo, !.pr = bot.pr, !.polls = bot.polls]
        BY <2>1, <3>1
    <3>3. main' = main /\ GreenInv /\ GreenNext
        BY <1>1
    <3>4. /\ GreenTypeOK' /\ ListIsTrue' /\ bot'.at = "pick" /\ bot'.todo = todo
          /\ bot'.list = bot.list /\ steady' \subseteq steady
        BY <2>2, <2>3, <2>4, <3>2, <3>3, SameList
    <3> QED BY <3>1, <3>4
  <2> QED BY <1>1, <2>5 DEF GreenInv, ChosenIsReady, GuardSeesThem, OthersToDo
<1> QED BY <1>2, <1>3 DEF Update

LEMMA PollKeeps ==
    ASSUME GreenInv, GreenNext, Poll
    PROVE  GreenInv'
<1>1. bot.at = "poll" /\ prs' = prs /\ main' = main /\ bot \in Bot(bot.list) /\ bot.todo # {} /\ This \in PullRequests
    BY FirstIsOne DEF Poll, GreenInv, GreenTypeOK, ChosenIsReady, Bot, This
<1>2. /\ prs[This] \in PullRequest /\ bot.pr \in PullRequest \cup {[push |-> 0]} /\ bot.polls \in Int
      /\ bot.todo \in SUBSET PullRequests
    BY <1>1 DEF GreenInv, GreenTypeOK, Bot
<1>3. PICK at \in {"poll", "arm", "done"}, pr \in {bot.pr, prs[This]}, polls \in {bot.polls, bot.polls - 1} :
            bot' = [bot EXCEPT !.at = at, !.todo = bot.todo, !.pr = pr, !.polls = polls]
  <2>1. CASE prs[This].push # bot.pr.push
    <3>1. bot' = [bot EXCEPT !.at = IF prs[This].armed THEN "done" ELSE "arm", !.pr = prs[This]]
        BY <2>1 DEF Poll
    <3>2. PICK at \in {"poll", "arm", "done"} : bot' = [bot EXCEPT !.at = at, !.pr = prs[This]]
        BY <3>1
    <3>3. bot = [bot EXCEPT !.todo = bot.todo, !.polls = bot.polls]
        BY <1>1 DEF Bot
    <3>4. bot' = [bot EXCEPT !.at = at, !.todo = bot.todo, !.pr = prs[This], !.polls = bot.polls]
        BY <3>2, <3>3
    <3> QED BY <3>4
  <2>2. CASE prs[This].push = bot.pr.push /\ bot.polls > 1
    <3>1. bot' = [bot EXCEPT !.polls = @ - 1]
        BY <2>2 DEF Poll
    <3>2. bot' = [bot EXCEPT !.at = "poll", !.todo = bot.todo, !.pr = bot.pr, !.polls = bot.polls - 1]
        BY <1>1, <3>1 DEF Bot
    <3> QED BY <3>2
  <2>3. CASE prs[This].push = bot.pr.push /\ ~(bot.polls > 1)
    <3>1. bot' = [bot EXCEPT !.at = "done"]
        BY <2>3 DEF Poll
    <3>2. bot' = [bot EXCEPT !.at = "done", !.todo = bot.todo, !.pr = bot.pr, !.polls = bot.polls]
        BY <1>1, <3>1 DEF Bot
    <3> QED BY <3>2
  <2> QED BY <2>1, <2>2, <2>3
<1>4. at \in States /\ at # "base" /\ pr \in PullRequest \cup {[push |-> 0]} /\ polls \in Int
    BY <1>2 DEF States
<1>5. GreenTypeOK' /\ ListIsTrue' /\ bot'.at = at /\ bot'.todo = bot.todo
  <2>1. prs' \in [PullRequests -> PullRequest] /\ \A n \in PullRequests : Ages(prs[n], prs'[n])
      BY <1>1, AllSame
  <2>2. PICK todo \in SUBSET PullRequests : todo = bot.todo
      BY <1>2
  <2>3. bot' = [bot EXCEPT !.at = at, !.todo = todo, !.pr = pr, !.polls = polls]
      BY <1>3, <2>2
  <2>4. GreenTypeOK' /\ ListIsTrue' /\ bot'.at = at /\ bot'.todo = todo
      BY <1>1, <1>4, <2>1, <2>3, SameList
  <2> QED BY <2>2, <2>4
<1> QED BY <1>1, <1>5 DEF GreenInv, ChosenIsReady, GuardSeesThem

LEMMA ArmKeeps ==
    ASSUME GreenInv, GreenNext, Arm
    PROVE  GreenInv'
<1>1. bot.at = "arm" /\ main' = main /\ bot \in Bot(bot.list) /\ bot.todo # {} /\ This \in PullRequests
    BY FirstIsOne DEF Arm, GreenInv, GreenTypeOK, ChosenIsReady, Bot, This
<1>2. prs' \in [PullRequests -> PullRequest] /\ \A n \in PullRequests : Ages(prs[n], prs'[n])
  <2>1. CASE prs' = prs
      BY <2>1, AllSame
  <2>2. CASE prs' = [prs EXCEPT ![This].armed = TRUE]
    <3> DEFINE new == [prs[This] EXCEPT !.armed = TRUE]
    <3>1. prs' = [prs EXCEPT ![This] = new]
        BY <2>2
    <3>2. Aged(prs[This], new)
        BY <1>1, Aging DEF GreenInv, GreenTypeOK
    <3> HIDE DEF new
    <3> QED BY <1>1, <3>1, <3>2, OneChanges DEF GreenInv
  <2> QED BY <2>1, <2>2 DEF Arm
<1>3. bot' = [bot EXCEPT !.at = "done", !.todo = bot.todo, !.pr = bot.pr, !.polls = bot.polls]
    BY <1>1 DEF Arm, Bot
<1>4. GreenTypeOK' /\ ListIsTrue' /\ bot'.at = "done"
    BY <1>1, <1>2, <1>3, SameList DEF Bot, States
<1> QED BY <1>4 DEF GreenInv, ChosenIsReady, GuardSeesThem

LEMMA AgainKeeps ==
    ASSUME GreenInv, GreenNext, Again
    PROVE  GreenInv'
<1>1. /\ bot' = Resting /\ bot'.at = "start" /\ bot'.base = 0 /\ DOMAIN bot'.list = {} /\ bot'.list = [n \in {} |-> 0]
      /\ prs' = prs /\ main' = main
    BY DEF Again, Resting
<1>2. bot' \in Bot(bot'.list)
    BY <1>1 DEF Resting, Bot, States
<1>3. bot'.list \in [DOMAIN bot'.list -> PullRequest]
    BY <1>1
<1>4. steady' \subseteq PullRequests
    BY SteadyStep DEF GreenInv, GreenTypeOK
<1>5. GreenTypeOK' /\ ListIsTrue'
    BY <1>1, <1>2, <1>3, <1>4 DEF GreenInv, GreenTypeOK, ListIsTrue
<1> QED BY <1>1, <1>5 DEF GreenInv, ChosenIsReady, GuardSeesThem

-----------------------------------------------------------------------------
LEMMA NextKeeps ==
    ASSUME GreenInv, [GreenNext]_greenVars
    PROVE  GreenInv'
<1>1. CASE GreenNext
    BY <1>1, OthersKeep, ListKeeps, ReadBaseKeeps, GuardKeeps, ChooseKeeps, PickKeeps, UpdateKeeps, PollKeeps, ArmKeeps,
       AgainKeeps DEF GreenNext, BotNext
<1>2. CASE UNCHANGED greenVars
    BY <1>2 DEF greenVars, GreenInv, GreenTypeOK, ListIsTrue, ChosenIsReady, GuardSeesThem, This, IsOnItsWay
<1> QED BY <1>1, <1>2

LEMMA AlwaysInv == GreenSpec => []GreenInv
<1>1. GreenInv /\ [GreenNext]_greenVars => GreenInv'
    BY NextKeeps
<1> QED BY InitInv, <1>1, PTL DEF GreenSpec

\* Every variable of the script and of GitHub keeps its type, and no pull request
\* is looked up that is not one (readPullRequests, selectSortedPullRequests).
THEOREM GreenTypes == GreenSpec => []GreenTypeOK
<1>1. GreenInv => GreenTypeOK
    BY DEF GreenInv
<1> QED BY AlwaysInv, <1>1, PTL

\* The head that GitHub is asked to bring up to date had passed its required checks and
\* lacked a commit of main, for every set of pull requests (updateBranch).
THEOREM OnlyGreenAndStale == GreenSpec => RefreshIsEarned
<1> DEFINE Earned == \A n \in PullRequests : IsUpdated(n) =>
                         prs[n].open /\ prs[n].checks = "passed" /\ prs[n].base < main /\ ~prs[n].foreign
<1>1. GreenInv /\ [GreenNext]_greenVars => [Earned]_greenVars
  <2> SUFFICES ASSUME GreenInv, GreenNext, NEW n \in PullRequests, IsUpdated(n)
               PROVE  prs[n].open /\ prs[n].checks = "passed" /\ prs[n].base < main /\ ~prs[n].foreign
      OBVIOUS
  <2>1. bot.at = "update" /\ bot'.at = "poll" /\ n = This
      BY DEF IsUpdated
  <2>2. bot \in Bot(bot.list)
      BY DEF GreenInv, GreenTypeOK
  <2>3. Update
    <3>1. ~OthersNext
        BY <2>1, OthersStep DEF GreenInv
    <3> QED BY <2>1, <3>1 DEF GreenNext, BotNext, List, ReadBase, OneByOneGuard, Choose, Pick, Poll, Arm, Again
  <2>4. prs[n].open /\ prs[n].push = bot.pr.push
      BY <2>1, <2>2, <2>3 DEF Update, IsExpectedHead, Bot
  <2>5. n \in bot.todo
      BY <2>1, <2>2, FirstIsOne DEF GreenInv, ChosenIsReady, This, Bot
  <2>6. ~prs[n].foreign
      BY <2>1, <2>5 DEF GreenInv, ListIsTrue, ChosenIsReady
  <2>7. prs[n].checks = "passed" /\ prs[n].base < bot.base /\ bot.base <= main
      BY <2>1, <2>4 DEF GreenInv, ListIsTrue, ChosenIsReady
  <2>8. prs[n].base \in Nat /\ bot.base \in Nat /\ main \in Nat
      BY <2>2 DEF GreenInv, GreenTypeOK, PullRequest, Bot
  <2> QED BY <2>4, <2>6, <2>7, <2>8
<1> QED BY AlwaysInv, <1>1, PTL DEF GreenSpec, RefreshIsEarned

\* One by one, for every set of pull requests: none is refreshed while another has been
\* on its way to merge since the run listed them (autoMergeInFlightReason).
THEOREM RefreshesOneByOne == GreenSpec => OneByOne
<1> DEFINE Alone == \A n \in PullRequests : IsUpdated(n) => steady \ {n} = {}
<1>1. GreenInv /\ [GreenNext]_greenVars => [Alone]_greenVars
    BY DEF GreenInv, GuardSeesThem, IsUpdated
<1> QED BY AlwaysInv, <1>1, PTL DEF GreenSpec, OneByOne

-----------------------------------------------------------------------------
\* The monitors of standing conditions.

IssueOrPr == [kind : {"issue", "pr"}, open : BOOLEAN, marker : BOOLEAN, title : BOOLEAN]
Match == [number : Nat, page : Nat]
GhCall == [do : {"create", "edit", "close"}, number : Nat, page : Nat]
Firing == [at : {"idle", "walk", "call"}, verdict : {"", "unknown", "green", "red"}, page : Nat,
           matches : SUBSET Match, calls : SUBSET GhCall]

SentinelTypeOK == items \in Seq(IssueOrPr) /\ monitor \in Firing

\* What was found is an issue, though perhaps no open one any more.
MatchesAreIssues ==
    \A m \in monitor.matches : m.number \in DOMAIN items /\ items[m.number].kind = "issue"

\* The calls still to make are for what was found.
CallsAreOfMatches ==
    \A c \in monitor.calls : c.do # "create" => \E m \in monitor.matches : m.number = c.number

SentinelInv == SentinelTypeOK /\ MatchesAreIssues /\ CallsAreOfMatches

\* The kind of what has been opened never changes, whatever is opened or edited.
LEMMA KindsStay ==
    ASSUME items \in Seq(IssueOrPr),
           \/ items' = items
           \/ \E item \in IssueOrPr : items' = Append(items, item)
           \/ \E n \in DOMAIN items, item \in IssueOrPr :
                 item.kind = items[n].kind /\ items' = [items EXCEPT ![n] = item]
    PROVE  /\ items' \in Seq(IssueOrPr)
           /\ DOMAIN items \subseteq DOMAIN items'
           /\ \A n \in DOMAIN items : items'[n].kind = items[n].kind
<1>1. CASE items' = items
    BY <1>1
<1>2. ASSUME NEW item \in IssueOrPr, items' = Append(items, item)
      PROVE  /\ items' \in Seq(IssueOrPr)
             /\ DOMAIN items \subseteq DOMAIN items'
             /\ \A n \in DOMAIN items : items'[n].kind = items[n].kind
  <2>1. items' \in Seq(IssueOrPr) /\ DOMAIN items = 1..Len(items) /\ DOMAIN items' = 1..(Len(items) + 1)
        /\ Len(items) \in Nat
      BY <1>2
  <2>2. \A n \in 1..Len(items) : items'[n] = items[n]
      BY <1>2
  <2>3. \A n \in Nat : \A i \in 1..n : i \in 1..(n + 1)
      OBVIOUS
  <2>4. DOMAIN items \subseteq DOMAIN items'
      BY <2>1, <2>3
  <2>5. \A n \in DOMAIN items : items'[n].kind = items[n].kind
      BY <2>1, <2>2
  <2> QED BY <2>1, <2>4, <2>5
<1>3. ASSUME NEW n \in DOMAIN items, NEW item \in IssueOrPr, item.kind = items[n].kind,
             items' = [items EXCEPT ![n] = item]
      PROVE  /\ items' \in Seq(IssueOrPr)
             /\ DOMAIN items \subseteq DOMAIN items'
             /\ \A k \in DOMAIN items : items'[k].kind = items[k].kind
    BY <1>3
<1> QED BY <1>1, <1>2, <1>3

\* So what was found stays an issue as long as the monitor keeps to it.
LEMMA ItemsMove ==
    ASSUME SentinelInv, monitor' \in Firing,
           monitor'.matches \subseteq monitor.matches,
           \A c \in monitor'.calls : c \in monitor.calls,
           monitor'.matches = monitor.matches \/ monitor'.calls = {},
           \/ items' = items
           \/ \E item \in IssueOrPr : items' = Append(items, item)
           \/ \E n \in DOMAIN items, item \in IssueOrPr :
                 item.kind = items[n].kind /\ items' = [items EXCEPT ![n] = item]
    PROVE  SentinelInv'
<1>1. /\ items' \in Seq(IssueOrPr)
      /\ DOMAIN items \subseteq DOMAIN items'
      /\ \A n \in DOMAIN items : items'[n].kind = items[n].kind
    BY KindsStay DEF SentinelInv, SentinelTypeOK
<1>2. MatchesAreIssues'
    BY <1>1 DEF SentinelInv, MatchesAreIssues
<1>3. CallsAreOfMatches'
    BY DEF SentinelInv, CallsAreOfMatches
<1> QED BY <1>1, <1>2, <1>3 DEF SentinelInv, SentinelTypeOK

\* What a call does: it opens an issue, or it changes one that was found.
LEMMA CallTouches ==
    ASSUME SentinelInv, NEW call \in monitor.calls, items' = After(call)
    PROVE  \/ call.do = "create" /\ \E item \in IssueOrPr : items' = Append(items, item)
           \/ /\ call.do # "create" /\ call.number \in DOMAIN items
              /\ items[call.number].kind = "issue"
              /\ \E item \in IssueOrPr : /\ item.kind = items[call.number].kind
                                         /\ items' = [items EXCEPT ![call.number] = item]
<1>1. call \in GhCall /\ items \in Seq(IssueOrPr)
    BY DEF SentinelInv, SentinelTypeOK, Firing
<1>2. CASE call.do = "create"
  <2>1. items' = Append(items, Item("issue", TRUE, TRUE)) /\ Item("issue", TRUE, TRUE) \in IssueOrPr
      BY <1>2 DEF After, Item, IssueOrPr
  <2> QED BY <1>2, <2>1
<1>3. CASE call.do # "create"
  <2> DEFINE old == items[call.number]
  <2>1. call.number \in DOMAIN items /\ old.kind = "issue" /\ old \in IssueOrPr
      BY <1>1, <1>3 DEF SentinelInv, CallsAreOfMatches, MatchesAreIssues
  <2>2. [old EXCEPT !.marker = TRUE] \in IssueOrPr /\ [old EXCEPT !.open = FALSE] \in IssueOrPr
      BY <2>1 DEF IssueOrPr
  <2>3. [old EXCEPT !.marker = TRUE].kind = old.kind /\ [old EXCEPT !.open = FALSE].kind = old.kind
      BY <2>1 DEF IssueOrPr
  <2>4. \/ items' = [items EXCEPT ![call.number] = [old EXCEPT !.marker = TRUE]]
        \/ items' = [items EXCEPT ![call.number] = [old EXCEPT !.open = FALSE]]
      BY <1>3 DEF After
  <2> HIDE DEF old
  <2>5. \E item \in IssueOrPr : item.kind = old.kind /\ items' = [items EXCEPT ![call.number] = item]
      BY <2>2, <2>3, <2>4
  <2> QED BY <1>3, <2>1, <2>5 DEF old
<1> QED BY <1>2, <1>3

\* One page is read: only issues are matched, and the calls are for what was matched.
LEMMA WalkMatches ==
    ASSUME SentinelInv, Walk
    PROVE  SentinelInv'
<1> DEFINE page == Page(monitor.page)
           found == {[number |-> n, page |-> monitor.page] : n \in {n \in page : IsSentinel(items[n])}}
           matches == monitor.matches \cup found
<1>1. monitor \in Firing /\ items \in Seq(IssueOrPr) /\ items' = items
    BY DEF SentinelInv, SentinelTypeOK, Walk
<1>2. page \subseteq DOMAIN items /\ DOMAIN items \subseteq Nat
    BY <1>1 DEF Page
<1>3. \A m \in found : m \in Match /\ m.number \in DOMAIN items /\ items[m.number].kind = "issue"
  <2> SUFFICES ASSUME NEW n \in page, IsSentinel(items[n])
               PROVE  LET m == [number |-> n, page |-> monitor.page]
                      IN  m \in Match /\ m.number \in DOMAIN items /\ items[m.number].kind = "issue"
      OBVIOUS
  <2>1. monitor.page \in Nat
      BY <1>1 DEF Firing
  <2> QED BY <1>2, <2>1 DEF Match, IsSentinel
<1>4. \/ monitor' = [monitor EXCEPT !.page = @ + 1, !.matches = matches]
      \/ monitor' = Idle
      \/ monitor' = [monitor EXCEPT !.at = "call", !.matches = matches, !.calls = Calls(monitor.verdict, matches)]
    BY DEF Walk
<1> HIDE DEF page, found
<1>5. /\ matches \in SUBSET Match
      /\ \A m \in matches : m.number \in DOMAIN items /\ items[m.number].kind = "issue"
    BY <1>1, <1>3 DEF SentinelInv, MatchesAreIssues, Firing
<1>6. /\ Calls(monitor.verdict, matches) \in SUBSET GhCall
      /\ \A c \in Calls(monitor.verdict, matches) : c.do # "create" => \E m \in matches : m.number = c.number
    BY <1>5 DEF Calls, GhCall, Match
<1> HIDE DEF matches
<1>7. CASE monitor' = [monitor EXCEPT !.page = @ + 1, !.matches = matches]
  <2>1. monitor.page \in Nat
      BY <1>1 DEF Firing
  <2>2. monitor.page + 1 \in Nat
      BY <2>1
  <2>3. monitor' \in Firing /\ monitor'.matches = matches /\ monitor'.calls = monitor.calls
      BY <1>1, <1>5, <1>7, <2>2 DEF Firing
  <2>4. \A m \in monitor.matches : m \in matches
      BY DEF matches
  <2> QED BY <1>1, <1>5, <2>3, <2>4 DEF SentinelInv, SentinelTypeOK, MatchesAreIssues, CallsAreOfMatches
<1>8. CASE monitor' = Idle
    BY <1>1, <1>8 DEF Idle, Firing, SentinelInv, SentinelTypeOK, MatchesAreIssues, CallsAreOfMatches
<1>9. CASE monitor' = [monitor EXCEPT !.at = "call", !.matches = matches, !.calls = Calls(monitor.verdict, matches)]
  <2>1. /\ monitor' \in Firing /\ monitor'.matches = matches
        /\ monitor'.calls = Calls(monitor.verdict, matches)
      BY <1>1, <1>5, <1>6, <1>9 DEF Firing
  <2> QED BY <1>1, <1>5, <1>6, <2>1 DEF SentinelInv, SentinelTypeOK, MatchesAreIssues, CallsAreOfMatches
<1> QED BY <1>4, <1>7, <1>8, <1>9

LEMMA SentinelStep == SentinelInv /\ [SentinelNext]_sentinelVars => SentinelInv'
<1> SUFFICES ASSUME SentinelInv, [SentinelNext]_sentinelVars PROVE SentinelInv'
    OBVIOUS
<1>1. monitor \in Firing /\ items \in Seq(IssueOrPr)
    BY DEF SentinelInv, SentinelTypeOK
<1>2. Idle \in Firing /\ Idle.matches = {} /\ Idle.calls = {}
    BY DEF Idle, Firing
<1>3. CASE Fire
  <2>1. PICK unread : monitor' = [Idle EXCEPT !.at = "walk", !.page = 1, !.verdict = Verdict(unread)]
      BY <1>3 DEF Fire
  <2>2. Verdict(unread) \in {"unknown", "green", "red"}
      BY DEF Verdict, mainCiHealth, classifyFreshness
  <2>3. monitor' \in Firing /\ monitor'.matches = {} /\ monitor'.calls = {}
      BY <2>1, <2>2 DEF Idle, Firing
  <2>4. items' = items
      BY <1>3 DEF Fire
  <2> QED BY <2>3, <2>4, ItemsMove
<1>4. CASE Walk
    BY <1>4, WalkMatches
<1>5. CASE Abort \/ Finish
  <2>1. monitor' = Idle /\ items' = items
      BY <1>5 DEF Abort, Finish
  <2> QED BY <1>2, <2>1, ItemsMove
<1>6. CASE Call
  <2>1. PICK call \in monitor.calls : /\ items' = After(call) \/ items' = items
                                      /\ monitor' = [monitor EXCEPT !.calls = @ \ {call}]
      BY <1>6 DEF Call
  <2>2. /\ monitor' \in Firing /\ monitor'.matches = monitor.matches
        /\ \A c \in monitor'.calls : c \in monitor.calls
      BY <1>1, <2>1 DEF Firing
  <2>3. \/ items' = items
        \/ \E item \in IssueOrPr : items' = Append(items, item)
        \/ \E n \in DOMAIN items, item \in IssueOrPr :
              item.kind = items[n].kind /\ items' = [items EXCEPT ![n] = item]
      BY <2>1, CallTouches
  <2> QED BY <2>2, <2>3, ItemsMove
<1>7. CASE WorldNext
  <2>1. monitor' = monitor
      BY <1>7 DEF WorldNext, CiRuns, OpensItem, EditsItem
  <2>2. ASSUME NEW n \in DOMAIN items, NEW item \in IssueOrPr, item.kind = items[n].kind, EditsItem(n, item)
        PROVE  \E k \in DOMAIN items, new \in IssueOrPr :
                  new.kind = items[k].kind /\ items' = [items EXCEPT ![k] = new]
      BY <2>2 DEF EditsItem
  <2>3. ASSUME NEW n \in DOMAIN items
        PROVE  LET edited == {[items[n] EXCEPT !.marker = FALSE], [items[n] EXCEPT !.title = FALSE],
                              [items[n] EXCEPT !.open = FALSE]}
               IN  \A item \in edited : item \in IssueOrPr /\ item.kind = items[n].kind
    <3>1. items[n] \in IssueOrPr
        BY <1>1
    <3> QED BY <3>1 DEF IssueOrPr
  <2>4. ASSUME NEW kind \in {"issue", "pr"}, NEW quotes \in BOOLEAN, OpensItem(kind, quotes)
        PROVE  \E item \in IssueOrPr : items' = Append(items, item)
    <3>1. Item(kind, quotes, FALSE) \in IssueOrPr
        BY DEF Item, IssueOrPr
    <3> QED BY <2>4, <3>1 DEF OpensItem
  <2>5. (\E result \in Results : CiRuns(result)) => items' = items
      BY DEF CiRuns
  <2>6. \/ items' = items
        \/ \E item \in IssueOrPr : items' = Append(items, item)
        \/ \E n \in DOMAIN items, item \in IssueOrPr :
              item.kind = items[n].kind /\ items' = [items EXCEPT ![n] = item]
      BY <1>7, <2>2, <2>3, <2>4, <2>5 DEF WorldNext
  <2> QED BY <1>1, <2>1, <2>6, ItemsMove
<1>8. CASE UNCHANGED sentinelVars
    BY <1>1, <1>8, ItemsMove DEF sentinelVars
<1> QED BY <1>3, <1>4, <1>5, <1>6, <1>7, <1>8 DEF SentinelNext, MonitorNext

\* What a firing changes of what was open before is an issue it found.
LEMMA FiringTouches ==
    ASSUME SentinelInv, [SentinelNext]_sentinelVars, NEW n \in DOMAIN items,
           items'[n] # items[n], monitor.at = "call", monitor' # monitor
    PROVE  items[n].kind = "issue" /\ \E m \in monitor.matches : m.number = n
<1>1. items' # items /\ items \in Seq(IssueOrPr)
    BY DEF SentinelInv, SentinelTypeOK
<1>2. Call
    BY <1>1 DEF SentinelNext, MonitorNext, WorldNext, Fire, Walk, Abort, Finish, CiRuns, OpensItem,
                EditsItem, sentinelVars
<1>3. PICK call \in monitor.calls : items' = After(call)
    BY <1>1, <1>2 DEF Call
<1>4. ~ \E item \in IssueOrPr : items' = Append(items, item)
    BY <1>1
<1>5. call.do # "create" /\ n = call.number /\ items[n].kind = "issue"
    BY <1>1, <1>3, <1>4, CallTouches
<1> QED BY <1>5 DEF SentinelInv, CallsAreOfMatches

\* Every issue that a monitor edits or closes carried its marker or its title when it was
\* read, however many pages the issues fill and whatever is opened, edited or closed between
\* two calls; a pull request is never touched (collectSentinelIssues, reconcileIssue).
THEOREM SentinelsAlone == SentinelSpec => OnlySentinelsAreTouched
<1> DEFINE Alone == \A n \in DOMAIN items :
                       (items'[n] # items[n] /\ monitor.at = "call" /\ monitor' # monitor) =>
                           items[n].kind = "issue" /\ \E m \in monitor.matches : m.number = n
<1>1. SentinelInit => SentinelInv
  <2>1. Idle \in Firing /\ Idle.matches = {} /\ Idle.calls = {}
      BY DEF Idle, Firing
  <2>2. <<>> \in Seq(IssueOrPr)
      OBVIOUS
  <2> QED BY <2>1, <2>2 DEF SentinelInit, SentinelInv, SentinelTypeOK, MatchesAreIssues, CallsAreOfMatches
<1>2. SentinelInv /\ [SentinelNext]_sentinelVars => [Alone]_sentinelVars
    BY FiringTouches
<1> QED BY <1>1, <1>2, SentinelStep, PTL DEF SentinelSpec, OnlySentinelsAreTouched
===================================================================================
