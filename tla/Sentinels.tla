--------------------------------- MODULE Sentinels ---------------------------------
(***************************************************************************)
(* The tracking issue of a standing condition.  A monitor of ci-health.yml     *)
(* (check-main-red.mjs, or check-latest-freshness.mjs) takes a verdict, walks   *)
(* the open issues page by page for its sentinels, and opens, edits or closes   *)
(* them with one gh call after the other (lib/sentinel-issues.mjs, lib/gh.mjs). *)
(* People and pull requests come and go meanwhile, calls fail, the job dies.    *)
(***************************************************************************)
EXTENDS Integers, Sequences, FiniteSets, SequencesExt, FiniteSetsExt

CONSTANTS SENTINEL_PER_PAGE,  \* open issues and pull requests on a page
          SENTINEL_MAX_PAGES, \* pages that are read
          MaxItems,           \* bound on the issues and pull requests ever opened
          MaxRuns,            \* bound on the readings
          MaxTroubles         \* bound on what people do and what fails

ASSUME SentinelAssumption == SENTINEL_PER_PAGE \in Nat \ {0} /\ SENTINEL_MAX_PAGES \in Nat \ {0}

VARIABLES watched,  \* "main": the CI of main; "latest": the published latest.json
          runs,     \* what became of the CI runs on main, or was published, the newest last
          items,    \* issues and pull requests by number
          monitor,  \* the firing of the cron that is under way
          troubles  \* how much has happened beside the monitor
sentinelVars == <<watched, runs, items, monitor, troubles>>

Item(kind, marker, title) == [kind |-> kind, open |-> TRUE, marker |-> marker, title |-> title]
Idle == [at |-> "idle", verdict |-> "", page |-> 0, matches |-> {}, calls |-> {}]
SentinelInit == watched \in {"main", "latest"} /\ runs = <<>> /\ items = <<>> /\ monitor = Idle /\ troubles = 0

\* Something happens beside the monitor, or a call of gh fails after its retries.
Trouble == troubles < MaxTroubles /\ troubles' = troubles + 1

\* mainCiHealth: the newest conclusive run, but an interrupted red one whose
\* jobs could be read says nothing.
INCONCLUSIVE == {"cancelled"}
mainCiHealth(unread) ==
    LET verdicts == {i \in DOMAIN runs : runs[i] \notin INCONCLUSIVE /\ (runs[i] = "interrupted" => i \in unread)}
    IN  IF verdicts = {} THEN "unknown"
        ELSE IF runs[Max(verdicts)] = "success" THEN "green" ELSE "red"

\* classifyFreshness of the payload that is published; without one the GET fails
\* and the issues are not looked at.
classifyFreshness == IF Last(runs) = "fresh" THEN "green" ELSE "red"

Verdict(unread) ==
    IF watched = "main" THEN mainCiHealth(unread)
    ELSE IF runs = <<>> THEN "unknown" ELSE classifyFreshness

Fire ==
    /\ monitor = Idle
    /\ watched = "latest" => runs # <<>>
    /\ \E unread \in SUBSET {i \in DOMAIN runs : runs[i] = "interrupted"} :
         /\ IF unread = {} THEN UNCHANGED troubles ELSE Trouble
         /\ monitor' = [Idle EXCEPT !.at = "walk", !.page = 1, !.verdict = Verdict(unread)]
    /\ UNCHANGED <<watched, runs, items>>

\* A page of the listing of what is open, the youngest first.
Page(k) ==
    LET open == {n \in DOMAIN items : items[n].open}
        Place(n) == Cardinality({m \in open : m >= n})
    IN  {n \in open : Place(n) \in (k - 1) * SENTINEL_PER_PAGE + 1 .. k * SENTINEL_PER_PAGE}

\* Mutant: a pull request that quotes the marker is a sentinel too.
IsSentinel_Any(item) == item.marker \/ item.title
IsSentinel(item) == item.kind = "issue" /\ (item.marker \/ item.title)

\* A match is an issue on a page: what is opened or closed between two pages moves the
\* others.  They are sorted by their numbers, and the first is canonical.
Before(x, y) == x.number < y.number \/ (x.number = y.number /\ x.page < y.page)
IsFirst(x, matches) == \A y \in matches \ {x} : Before(x, y)

\* reconcileIssue: the calls for the sentinels found, made in their order.
\* Mutant: only the first match is looked at.
Calls_First(verdict, matches) ==
    IF matches = {} THEN IF verdict = "red" THEN {[do |-> "create", number |-> 0, page |-> 0]} ELSE {}
    ELSE {[do |-> IF verdict = "red" THEN "edit" ELSE "close", number |-> m.number, page |-> m.page] :
             m \in {x \in matches : IsFirst(x, matches)}}
Calls(verdict, matches) ==
    IF matches = {} THEN IF verdict = "red" THEN {[do |-> "create", number |-> 0, page |-> 0]} ELSE {}
    ELSE {[do |-> IF verdict = "red" /\ IsFirst(m, matches) THEN "edit" ELSE "close",
           number |-> m.number, page |-> m.page] : m \in matches}

\* collectSentinelIssues: one page, and after the last one the calls; a verdict
\* without a run and with a sentinel ends in an error.
Walk ==
    LET page == Page(monitor.page)
        matches == monitor.matches \cup
                     {[number |-> n, page |-> monitor.page] : n \in {n \in page : IsSentinel(items[n])}}
    IN  /\ monitor.at = "walk"
        /\ monitor' = IF Cardinality(page) = SENTINEL_PER_PAGE /\ monitor.page < SENTINEL_MAX_PAGES
                      THEN [monitor EXCEPT !.page = @ + 1, !.matches = matches]
                      ELSE IF monitor.verdict = "unknown" THEN Idle
                      ELSE [monitor EXCEPT !.at = "call", !.matches = matches, !.calls = Calls(monitor.verdict, matches)]
        /\ UNCHANGED <<watched, runs, items, troubles>>

\* A page cannot be read, or the job dies: this firing is over.
Abort ==
    /\ monitor # Idle /\ Trouble
    /\ monitor' = Idle
    /\ UNCHANGED <<watched, runs, items>>

\* What a call does to the issues; an edit writes the body anew, with the marker.
After(call) ==
    CASE call.do = "create" -> Append(items, Item("issue", TRUE, TRUE))
      [] call.do = "edit" -> [items EXCEPT ![call.number].marker = TRUE]
      [] OTHER -> [items EXCEPT ![call.number].open = FALSE]
Call ==
    /\ monitor.at = "call"
    /\ \E call \in monitor.calls :
         /\ IsFirst(call, monitor.calls)
         /\ \/ items' = After(call) /\ UNCHANGED troubles
            \/ UNCHANGED items /\ Trouble
         /\ monitor' = [monitor EXCEPT !.calls = @ \ {call}]
    /\ UNCHANGED <<watched, runs>>
Finish ==
    /\ monitor.at = "call" /\ monitor.calls = {}
    /\ monitor' = Idle
    /\ UNCHANGED <<watched, runs, items, troubles>>

-----------------------------------------------------------------------------
\* Beside the monitor: main's CI, the publication, and people.
Results == IF watched = "main" THEN {"success", "failure", "interrupted", "cancelled"} ELSE {"fresh", "stale", "unparseable"}
CiRuns(result) ==
    /\ Len(runs) < MaxRuns
    /\ runs' = Append(runs, result)
    /\ UNCHANGED <<watched, items, monitor, troubles>>
OpensItem(kind, quotes) ==
    /\ Len(items) < MaxItems /\ Trouble
    /\ items' = Append(items, Item(kind, quotes, FALSE))
    /\ UNCHANGED <<watched, runs, monitor>>
EditsItem(n, item) ==
    /\ items[n].open /\ items[n].kind = "issue" /\ Trouble
    /\ items' = [items EXCEPT ![n] = item]
    /\ UNCHANGED <<watched, runs, monitor>>

MonitorNext == Fire \/ Walk \/ Abort \/ Call \/ Finish
WorldNext ==
    \/ \E result \in Results : CiRuns(result)
    \/ \E kind \in {"issue", "pr"}, quotes \in BOOLEAN : OpensItem(kind, quotes)
    \/ \E n \in DOMAIN items : \/ EditsItem(n, [items[n] EXCEPT !.marker = FALSE])
                               \/ EditsItem(n, [items[n] EXCEPT !.title = FALSE])
                               \/ EditsItem(n, [items[n] EXCEPT !.open = FALSE])
SentinelNext == MonitorNext \/ WorldNext
SentinelSpec == SentinelInit /\ [][SentinelNext]_sentinelVars

-----------------------------------------------------------------------------
OpenSentinels == {n \in DOMAIN items : items[n].open /\ IsSentinel(items[n])}

\* Once main stays red, or what is published stale, exactly one sentinel is open, and once all is well none
\* is, whatever was doubled, stripped, missed or half done on the way
\* (sentinel-issues.mjs:16, "self-healing").
SentinelsSettle ==
    /\ <>[](Verdict({}) = "red" => Cardinality(OpenSentinels) = 1)
    /\ <>[](Verdict({}) = "green" => OpenSentinels = {})

\* The monitor changes issues only, and of these only such as carried its marker
\* or its title when this firing read them; a pull request that quotes the marker
\* is left alone (sentinel-issues.mjs, collectSentinelIssues).
OnlySentinelsAreTouched ==
    [][\A n \in DOMAIN items :
          (items'[n] # items[n] /\ monitor.at = "call" /\ monitor' # monitor) =>
              items[n].kind = "issue" /\ \E m \in monitor.matches : m.number = n]_sentinelVars

\* While main is red the monitor leaves its canonical sentinel open
\* (sentinel-issues.mjs:126, "the issue that stays open").
CanonicalStaysOpen ==
    [][\A n \in DOMAIN items :
          (monitor.at = "call" /\ monitor.verdict = "red" /\ items[n].open /\ monitor' # monitor
              /\ \E m \in monitor.matches : m.number = n /\ IsFirst(m, monitor.matches))
          => items'[n].open]_sentinelVars
===================================================================================
