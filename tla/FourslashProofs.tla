---------------------------- MODULE FourslashProofs ----------------------------
(***************************************************************************)
(* A fourslash test process keeps its contract with the runner, and no test   *)
(* hears of another: for every sequence of tests, every number of bridges and  *)
(* attempts, and however servers, threads, starts and tests fail.  What the    *)
(* parent then reports of them is what happened, and what it runs is a shard    *)
(* that weighs about as much as the others.                                    *)
(***************************************************************************)
EXTENDS FourslashWorker, FourslashRunner, FourslashAdapter,
        SequenceTheorems, FiniteSetTheorems, WellFoundedInduction, TLAPS

-----------------------------------------------------------------------------
(***************************************************************************)
(* The invariant: what is in flight between the process and its bridges.      *)
(***************************************************************************)
\* A reset belongs to no test.
SoundRequest == {r \in Request : r.command = "tsz/reset" => r.test = 0}
SoundAnswer == {a \in Answer : a.to \in SoundRequest}

InTest == {"test", "hung"}
InRequest == {"send", "posted", "wait"}
BetweenTests == {"boot", "reset", "cleaned", "restart", "starting", "next", "done", "dead"}

WorkerTypes ==
    /\ pc \in InTest \cup InRequest \cup BetweenTests
    /\ test \in 0..Len(Tests)
    /\ seq \in Nat
    /\ told \in Nat
    /\ bridge \in Bridge
    /\ candidate \in Bridge
    /\ cleaned \in {"no", "reset", "new"}
    /\ control \in [Bridge -> 0..4]
    /\ data \in [Bridge -> {None} \cup SoundRequest \cup SoundAnswer \cup Failure]
    /\ thread \in [Bridge -> {"absent", "idle", "reading", "filled", "deaf", "gone"}]
    /\ exited \in [Bridge -> BOOLEAN]
    /\ posted \in [Bridge -> BOOLEAN]
    /\ own_seq \in [Bridge -> Nat]
    /\ up \in [Bridge -> BOOLEAN]
    /\ asked \in [Bridge -> {None} \cup SoundRequest \cup Garbage]
    /\ answer \in [Bridge -> {None} \cup SoundAnswer]
    /\ session \in [Bridge -> SUBSET (0..Len(Tests))]

\* One result is owed while a test runs, and none between two tests.
OfTest == request.command # "tsz/reset"
Owing ==
    /\ pc \in InTest => test = told + 1
    /\ pc \in BetweenTests => test = told
    /\ pc \in InRequest =>
          /\ request \in SoundRequest
          /\ IF OfTest THEN test = told + 1 /\ request.test = test ELSE test = told

\* The thread neither has a request nor can take one.
Still(b) == control[b] # STATE_REQUEST_READY /\ thread[b] \notin {"reading", "filled"}

\* What each thread and its server agree on.
Link(b) ==
    /\ asked[b] # None => up[b] /\ thread[b] = "reading" /\ answer[b] = None
    /\ answer[b] # None => thread[b] = "reading"
    /\ control[b] \in {STATE_RESPONSE_READY, STATE_ERROR} => thread[b] \notin {"reading", "filled"}
    /\ posted[b] => ~up[b]
    /\ exited[b] => ~up[b] \/ Still(b)
    /\ b # bridge => ~up[b] \/ Still(b)

IsReset(content) == content \in Answer /\ content.to.command = "tsz/reset"

\* An answer to a reset, as long as nothing has been sent after it, means that the
\* server remembers nothing.
ResetAnswers(b) ==
    /\ IsReset(answer[b]) => session[b] = {}
    /\ thread[b] # "reading" /\ IsReset(data[b]) => session[b] = {}

\* Bridges that have not been started.
Unstarted == {b \in Bridge : b > candidate \/ (b = candidate /\ pc \in {"boot", "starting"})}
Fresh(b) ==
    /\ thread[b] = "absent" /\ control[b] = STATE_IDLE /\ ~up[b] /\ ~posted[b]
    /\ session[b] = {}

Bridges ==
    /\ \A b \in Bridge : Link(b) /\ ResetAnswers(b)
    /\ \A b \in Unstarted : Fresh(b)
    /\ bridge <= candidate
    /\ pc = "boot" => bridge = candidate
    /\ pc = "starting" => bridge < candidate
    /\ pc = "posted" => ~exited[bridge]

\* A session that was cleared stays so until the next test.
Cleared ==
    /\ pc \in InTest \cup InRequest \cup {"reset"} => cleaned = "no"
    /\ pc = "cleaned" => cleaned = "reset"
    /\ cleaned # "no" => session[bridge] = {} /\ Still(bridge)

\* As long as every bridge could be replaced: a test begins on a cleared session,
\* its requests and their answers alternate, and whatever is on its way to the
\* server when it has ended is its own.
InStep ==
    /\ pc = "next" => cleaned # "no"
    /\ pc = "test" => Still(bridge)
    /\ pc \in {"send", "posted"} /\ OfTest => Still(bridge)
    /\ pc = "posted" /\ OfTest => data[bridge] = request
    /\ pc = "wait" /\ OfTest =>
          /\ asked[bridge] \in {None, request}
          /\ answer[bridge] \in {None, [to |-> request]}
          /\ data[bridge] \in Answer => data[bridge].to = request
          /\ control[bridge] = STATE_REQUEST_READY /\ thread[bridge] = "idle" =>
                data[bridge] = request

OfThisTest(content) ==
    content \in Request => content.command = "tsz/reset" \/ content.test = test
OneTest ==
    /\ session[bridge] \subseteq {test}
    /\ OfThisTest(asked[bridge])
    /\ control[bridge] = STATE_REQUEST_READY \/ pc = "posted" => OfThisTest(data[bridge])
    /\ \A b \in Bridge : \A t, u \in session[b] : t = u

Isolated == ~gave_up => InStep /\ OneTest

WorkerInv ==
    /\ WorkerTypes
    /\ Owing
    /\ Bridges
    /\ Cleared
    /\ Isolated
    /\ AnswersAreOwn

-----------------------------------------------------------------------------
LEMMA Kinds ==
    /\ Request \cap Answer = {} /\ Request \cap Failure = {} /\ Request \cap Garbage = {}
    /\ Answer \cap Failure = {} /\ Answer \cap Garbage = {}
    /\ None \notin Request /\ None \notin Answer /\ None \notin Failure /\ None \notin Garbage
    /\ SoundRequest \subseteq Request /\ SoundAnswer \subseteq Answer
<1>1. \A r \in Request : DOMAIN r = {"command", "test", "seq"}
    BY DEF Request
<1>2. \A a \in Answer : DOMAIN a = {"to"}
    BY DEF Answer
<1>3. \A f \in Failure : DOMAIN f = {"error"}
    BY DEF Failure
<1>4. \A g \in Garbage : DOMAIN g = {"garbage"}
    BY DEF Garbage
<1>5. "to" \notin {"command", "test", "seq"} /\ "error" \notin {"command", "test", "seq"}
      /\ "garbage" \notin {"command", "test", "seq"}
    OBVIOUS
<1>6. {"to"} # {"error"} /\ {"to"} # {"garbage"}
    OBVIOUS
<1>7. Request \cap Answer = {} /\ Request \cap Failure = {} /\ Request \cap Garbage = {}
    BY <1>1, <1>2, <1>3, <1>4, <1>5
<1>8. Answer \cap Failure = {} /\ Answer \cap Garbage = {}
    BY <1>2, <1>3, <1>4, <1>6
<1> QED BY <1>7, <1>8, WorkerAssumption DEF SoundRequest, SoundAnswer

Content == {None} \cup SoundRequest \cup SoundAnswer \cup Failure

LEMMA FramedKind ==
    ASSUME NEW content \in Content
    PROVE  /\ content \in Request => content \in SoundRequest /\ Framed(content) = content
           /\ content \notin Request => Framed(content) \in Garbage
<1>1. content \in Request => content \in SoundRequest
    BY Kinds DEF Content
<1>2. Framed(content) = content \/ Framed(content) \in Garbage
    BY DEF Framed, Garbage
<1>3. content \notin Request => Framed(content) \in Garbage
    BY DEF Framed, Garbage
<1> QED BY <1>1, <1>3 DEF Framed

LEMMA StateNumbers ==
    /\ STATE_IDLE = 0 /\ STATE_REQUEST_READY = 1 /\ STATE_RESPONSE_READY = 2
    /\ STATE_SHUTDOWN = 3 /\ STATE_ERROR = 4
BY DEF STATE_IDLE, STATE_REQUEST_READY, STATE_RESPONSE_READY, STATE_SHUTDOWN, STATE_ERROR

LEMMA BoundsAreNaturals == /\ MaxBridges \in Nat /\ 1 \in Bridge /\ Len(Tests) \in Nat
BY WorkerAssumption DEF Bridge

LEMMA WorkerInitInv == WorkerInit => WorkerInv
<1> SUFFICES ASSUME WorkerInit PROVE WorkerInv
    OBVIOUS
<1>1. WorkerTypes
    BY BoundsAreNaturals, StateNumbers DEF WorkerInit, WorkerTypes, BetweenTests
<1>2. Owing
    BY DEF WorkerInit, Owing, InTest, InRequest, BetweenTests
<1>3. \A b \in Bridge : Link(b) /\ ResetAnswers(b) /\ Fresh(b) /\ Still(b)
    BY Kinds, StateNumbers DEF WorkerInit, Link, ResetAnswers, Fresh, Still, IsReset
<1>4. Bridges
    BY <1>3 DEF Bridges, WorkerInit, Unstarted
<1>5. Cleared
    BY <1>3, BoundsAreNaturals DEF Cleared, WorkerInit, InTest, InRequest
<1>6. Isolated
    BY BoundsAreNaturals, StateNumbers, Kinds DEF Isolated, InStep, OneTest, OfThisTest, WorkerInit
<1>7. AnswersAreOwn
    BY DEF AnswersAreOwn, WorkerInit
<1> QED BY <1>1, <1>2, <1>4, <1>5, <1>6, <1>7 DEF WorkerInv

-----------------------------------------------------------------------------
(***************************************************************************)
(* Types.                                                                   *)
(***************************************************************************)
\* A server that is sent an answer as a request dies, or answers as if it were one.
LEMMA ConfusedAnswer ==
    ASSUME WorkerTypes, NEW b \in Bridge, ServerIsConfused(b)
    PROVE  \/ UNCHANGED <<answer, session>> /\ up' = [up EXCEPT ![b] = FALSE]
           \/ \E a \in SoundAnswer :
                  /\ answer' = [answer EXCEPT ![b] = a]
                  /\ session' = [session EXCEPT ![b] = IF IsReset(a) THEN {} ELSE session[b]]
                  /\ up' = up
<1> DEFINE command == IF asked[b].garbage = "other" THEN "lsp" ELSE "tsz/reset"
           Said(n) == [to |-> [command |-> command, test |-> 0, seq |-> n]]
<1>1. asked[b].garbage \in {"tsz/reset", "other"}
    BY DEF ServerIsConfused, Garbage
<1>2. ASSUME NEW n \in 0..own_seq[b]
      PROVE  Said(n) \in SoundAnswer /\ (IsReset(Said(n)) <=> asked[b].garbage = "tsz/reset")
  <2>1. n \in Nat /\ 0 \in 0..Len(Tests)
      BY BoundsAreNaturals DEF WorkerTypes
  <2>2. command \in {"lsp", "tsz/reset"}
      OBVIOUS
  <2>3. [command |-> command, test |-> 0, seq |-> n] \in SoundRequest
      BY <2>1, <2>2 DEF SoundRequest, Request
  <2>4. Said(n) \in SoundAnswer /\ Said(n).to.command = command
      BY <2>3, Kinds DEF SoundAnswer, Answer
  <2>5. IsReset(Said(n)) <=> command = "tsz/reset"
      BY <2>4, Kinds DEF IsReset
  <2> QED BY <1>1, <2>4, <2>5
<1>3. \/ /\ \E n \in 0..own_seq[b] : answer' = [answer EXCEPT ![b] = Said(n)]
         /\ session' = [session EXCEPT ![b] = IF asked[b].garbage = "tsz/reset" THEN {} ELSE session[b]]
         /\ up' = up
      \/ UNCHANGED <<answer, session>> /\ up' = [up EXCEPT ![b] = FALSE]
    BY DEF ServerIsConfused
<1> HIDE DEF Said
<1> QED BY <1>2, <1>3

LEMMA ThreadTypes ==
    ASSUME WorkerInv, NEW b \in Bridge, ThreadNext(b)
    PROVE  WorkerTypes'
<1>t. WorkerTypes
    BY DEF WorkerInv
<1>1. CASE TakeRequest(b)
  <2>1. Framed(data[b]) \in SoundRequest \cup Garbage
      BY <1>t, FramedKind DEF WorkerTypes, Content
  <2>2. asked' = asked \/ asked' = [asked EXCEPT ![b] = Framed(data[b])]
      BY <1>1 DEF TakeRequest
  <2>3. asked' \in [Bridge -> {None} \cup SoundRequest \cup Garbage]
      BY <1>t, <2>1, <2>2 DEF WorkerTypes
  <2>4. /\ thread' \in [Bridge -> {"absent", "idle", "reading", "filled", "deaf", "gone"}]
        /\ posted' \in [Bridge -> BOOLEAN]
      BY <1>t, <1>1 DEF TakeRequest, WorkerTypes
  <2>5. UNCHANGED <<processVars, control, data, exited, own_seq, up, answer, session>>
      BY <1>1 DEF TakeRequest
  <2> QED BY <1>t, <2>3, <2>4, <2>5 DEF WorkerTypes, processVars
<1>2. CASE ServerAnswers(b)
  <2>1. asked[b] \in SoundRequest /\ asked[b].test \in 0..Len(Tests)
      BY <1>t, <1>2, Kinds DEF ServerAnswers, WorkerTypes, Request
  <2>2. [to |-> asked[b]] \in SoundAnswer
      BY <2>1, Kinds DEF SoundAnswer, Answer
  <2> QED BY <1>t, <1>2, <2>1, <2>2 DEF ServerAnswers, WorkerTypes, processVars
<1>3. CASE ServerIsConfused(b)
  <2> DEFINE Answers == [Bridge -> {None} \cup SoundAnswer]
             Sessions == [Bridge -> SUBSET (0..Len(Tests))]
  <2>1. answer \in Answers /\ session \in Sessions /\ up \in [Bridge -> BOOLEAN]
      BY <1>t DEF WorkerTypes
  <2>2. /\ answer' = answer \/ \E a \in SoundAnswer : answer' = [answer EXCEPT ![b] = a]
        /\ session' = session \/ session' = [session EXCEPT ![b] = {}]
                              \/ session' = [session EXCEPT ![b] = session[b]]
        /\ up' = up \/ up' = [up EXCEPT ![b] = FALSE]
    <3>1. CASE UNCHANGED <<answer, session>> /\ up' = [up EXCEPT ![b] = FALSE]
        BY <3>1
    <3>2. CASE ~(UNCHANGED <<answer, session>> /\ up' = [up EXCEPT ![b] = FALSE])
      <4>1. PICK a \in SoundAnswer :
                /\ answer' = [answer EXCEPT ![b] = a]
                /\ session' = [session EXCEPT ![b] = IF IsReset(a) THEN {} ELSE session[b]]
                /\ up' = up
          BY <1>t, <1>3, <3>2, ConfusedAnswer
      <4> QED BY <4>1
    <3> QED BY <3>1, <3>2
  <2>3. answer' \in Answers
      BY <2>1, <2>2
  <2>4. session' \in Sessions
      BY <2>1, <2>2
  <2>5. up' \in [Bridge -> BOOLEAN]
      BY <2>1, <2>2
  <2>6. asked' = [asked EXCEPT ![b] = None]
        /\ UNCHANGED <<processVars, control, data, thread, exited, posted, own_seq>>
      BY <1>3 DEF ServerIsConfused
  <2>7. asked' \in [Bridge -> {None} \cup SoundRequest \cup Garbage]
      BY <1>t, <2>6 DEF WorkerTypes
  <2> QED BY <1>t, <2>3, <2>4, <2>5, <2>6, <2>7 DEF WorkerTypes, processVars
<1>4. CASE ServerDies(b)
    BY <1>t, <1>4 DEF ServerDies, WorkerTypes, processVars
<1>5. CASE Fill(b)
  <2>1. [error |-> "large"] \in Failure /\ [error |-> "closed"] \in Failure
      BY DEF Failure
  <2>2. PICK content \in SoundAnswer \cup Failure : data' = [data EXCEPT ![b] = content]
      BY <1>t, <1>5, <2>1 DEF Fill, WorkerTypes
  <2>3. data' \in [Bridge -> {None} \cup SoundRequest \cup SoundAnswer \cup Failure]
      BY <1>t, <2>2 DEF WorkerTypes
  <2>4. /\ answer' \in [Bridge -> {None} \cup SoundAnswer]
        /\ posted' \in [Bridge -> BOOLEAN]
      BY <1>t, <1>5 DEF Fill, WorkerTypes
  <2>5. thread' \in [Bridge -> {"absent", "idle", "reading", "filled", "deaf", "gone"}]
      BY <1>t, <1>5 DEF Fill, WorkerTypes
  <2>6. UNCHANGED <<processVars, control, exited, own_seq, up, asked, session>>
      BY <1>5 DEF Fill
  <2> QED BY <1>t, <2>3, <2>4, <2>5, <2>6 DEF WorkerTypes, processVars
<1>6. CASE Signal(b)
  <2>1. PICK state \in {STATE_ERROR, STATE_RESPONSE_READY} : control' = [control EXCEPT ![b] = state]
      BY <1>6 DEF Signal
  <2>2. state \in 0..4
      BY StateNumbers
  <2>3. control' \in [Bridge -> 0..4]
      BY <1>t, <2>1, <2>2 DEF WorkerTypes
  <2> QED BY <1>t, <1>6, <2>3 DEF Signal, WorkerTypes, processVars
<1> QED BY <1>1, <1>2, <1>3, <1>4, <1>5, <1>6 DEF ThreadNext

\* The processes' own steps, but those that start and stop bridges.
LEMMA ProcessTypes ==
    ASSUME WorkerInv, \/ Refuse \/ Post \/ Notify \/ TimeOut \/ Receive
                      \/ Ask \/ Judge \/ Hang \/ StartTest \/ ResetSession \/ CheckMemory
    PROVE  WorkerTypes'
<1>t. WorkerTypes /\ Owing
    BY DEF WorkerInv
<1> USE DEF InTest, InRequest, BetweenTests
<1>1. CASE Refuse
  <2>1. pc' \in {"restart", "reset"} /\ told' \in Nat
      BY <1>t, <1>1 DEF Refuse, Throws, Ended, Tell, Quiet, WorkerTypes
  <2> QED BY <1>t, <1>1, <2>1 DEF Refuse, WorkerTypes, bridgeVars
<1>2. CASE Post
    BY <1>t, <1>2 DEF Post, Quiet, WorkerTypes, Owing
<1>3. CASE Notify
    BY <1>t, <1>3, StateNumbers DEF Notify, Quiet, WorkerTypes
<1>4. CASE TimeOut
  <2>1. pc' \in {"restart", "reset"} /\ told' \in Nat
      BY <1>t, <1>4 DEF TimeOut, Throws, Ended, Tell, Quiet, WorkerTypes
  <2> QED BY <1>t, <1>4, <2>1 DEF TimeOut, WorkerTypes, bridgeVars
<1>5. CASE Receive
  <2>1. pc' \in {"restart", "reset", "cleaned", "test"} /\ told' \in Nat /\ cleaned' \in {"no", "reset", "new"}
      BY <1>t, <1>5 DEF Receive, Throws, Ended, Tell, Quiet, WorkerTypes
  <2>2. control' \in [Bridge -> 0..4]
      BY <1>t, <1>5, StateNumbers DEF Receive, WorkerTypes
  <2> QED BY <1>t, <1>5, <2>1, <2>2 DEF Receive, WorkerTypes
<1>6. CASE Ask
  <2>1. seq' \in Nat /\ own_seq' \in [Bridge -> Nat]
      BY <1>t, <1>6 DEF Ask, WorkerTypes
  <2> QED BY <1>t, <1>6, <2>1 DEF Ask, Quiet, WorkerTypes
<1>7. CASE Judge
  <2>1. pc' = "reset" /\ told' \in Nat
      BY <1>t, <1>7 DEF Judge, Ended, Tell, Quiet, WorkerTypes
  <2> QED BY <1>t, <1>7, <2>1 DEF Judge, WorkerTypes, bridgeVars
<1>8. CASE Hang
    BY <1>t, <1>8 DEF Hang, Quiet, WorkerTypes, bridgeVars
<1>9. CASE StartTest
    BY <1>t, <1>9, BoundsAreNaturals DEF StartTest, Tell, WorkerTypes, bridgeVars
<1>10. CASE ResetSession
  <2>1. own_seq' = [own_seq EXCEPT ![bridge] = own_seq[bridge] + 1] /\ pc' = "send"
      BY <1>10 DEF ResetSession
  <2>2. own_seq' \in [Bridge -> Nat]
      BY <1>t, <2>1 DEF WorkerTypes
  <2>3. /\ UNCHANGED <<test, seq, told, bridge, candidate, cleaned>>
        /\ UNCHANGED <<control, data, thread, exited, posted, up, asked, answer, session>>
      BY <1>10 DEF ResetSession, Quiet
  <2> QED BY <1>t, <2>1, <2>2, <2>3 DEF WorkerTypes
<1>11. CASE CheckMemory
    BY <1>t, <1>11 DEF CheckMemory, Quiet, WorkerTypes, bridgeVars
<1> QED BY <1>1, <1>2, <1>3, <1>4, <1>5, <1>6, <1>7, <1>8, <1>9, <1>10, <1>11

\* What shutting down makes of the bridges.
LEMMA ShutDownTypes ==
    ASSUME WorkerTypes, NEW dead \in [Bridge -> BOOLEAN], ShutDown(bridge, dead)
    PROVE  /\ control' \in [Bridge -> 0..4]
           /\ data' \in [Bridge -> {None} \cup SoundRequest \cup SoundAnswer \cup Failure]
           /\ answer' \in [Bridge -> {None} \cup SoundAnswer]
           /\ asked' \in [Bridge -> {None} \cup SoundRequest \cup Garbage]
<1>1. /\ control' = control \/ control' = [control EXCEPT ![bridge] = STATE_SHUTDOWN]
      /\ data' = data \/ data' = [data EXCEPT ![bridge] = None]
      /\ answer' = answer \/ answer' = [answer EXCEPT ![bridge] = None]
      /\ asked' = asked \/ asked' = [asked EXCEPT ![bridge] = None]
    BY DEF ShutDown
<1>2. STATE_SHUTDOWN \in 0..4
    BY StateNumbers
<1>3. control' \in [Bridge -> 0..4]
    BY <1>1, <1>2 DEF WorkerTypes
<1>4. /\ data' \in [Bridge -> {None} \cup SoundRequest \cup SoundAnswer \cup Failure]
      /\ answer' \in [Bridge -> {None} \cup SoundAnswer]
      /\ asked' \in [Bridge -> {None} \cup SoundRequest \cup Garbage]
    BY <1>1 DEF WorkerTypes
<1> QED BY <1>3, <1>4

LEMMA RunningTypes ==
    ASSUME WorkerTypes, NEW dead \in [Bridge -> BOOLEAN], NEW starts \in SUBSET Bridge,
           Running(bridge, dead, starts)
    PROVE  /\ thread' \in [Bridge -> {"absent", "idle", "reading", "filled", "deaf", "gone"}]
           /\ up' \in [Bridge -> BOOLEAN]
BY DEF Running, WorkerTypes

LEMMA HeardType == ASSUME WorkerTypes PROVE Heard \in [Bridge -> BOOLEAN]
BY DEF Heard, WorkerTypes

LEMMA BridgeTypes ==
    ASSUME WorkerInv, Restart \/ StartFails \/ GiveUp \/ Started \/ Finish
    PROVE  WorkerTypes'
<1>t. WorkerTypes /\ Heard \in [Bridge -> BOOLEAN]
    BY HeardType DEF WorkerInv
<1> USE DEF InTest, InRequest, BetweenTests
<1>1. CASE Restart
  <2>1. candidate' \in Bridge
      BY <1>t, <1>1, BoundsAreNaturals DEF Restart, WorkerTypes, Bridge
  <2> QED BY <1>t, <1>1, <2>1 DEF Restart, Quiet, WorkerTypes, bridgeVars
<1>2. CASE StartFails
  <2>1. exited' \in [Bridge -> BOOLEAN]
      BY <1>t, <1>2 DEF StartFails, WorkerTypes
  <2> QED BY <1>t, <1>2, <2>1 DEF StartFails, Quiet, WorkerTypes
<1>3. CASE GiveUp
  <2>1. exited' \in [Bridge -> BOOLEAN]
      BY <1>t, <1>3 DEF GiveUp, WorkerTypes
  <2>2. pc' \in {"dead", "next"}
      BY <1>3 DEF GiveUp
  <2> QED BY <1>t, <1>3, <2>1, <2>2 DEF GiveUp, Tell, WorkerTypes
<1>4. CASE Started
  <2>1. /\ thread' \in [Bridge -> {"absent", "idle", "reading", "filled", "deaf", "gone"}]
        /\ up' \in [Bridge -> BOOLEAN]
      BY <1>t, <1>4, RunningTypes DEF Started, WorkerTypes
  <2>2. \/ UNCHANGED <<control, data, answer, asked>>
        \/ ShutDown(bridge, Heard)
      BY <1>4 DEF Started
  <2>3. /\ control' \in [Bridge -> 0..4]
        /\ data' \in [Bridge -> {None} \cup SoundRequest \cup SoundAnswer \cup Failure]
        /\ answer' \in [Bridge -> {None} \cup SoundAnswer]
        /\ asked' \in [Bridge -> {None} \cup SoundRequest \cup Garbage]
    <3>1. CASE UNCHANGED <<control, data, answer, asked>>
        BY <1>t, <3>1 DEF WorkerTypes
    <3>2. CASE ShutDown(bridge, Heard)
        BY <1>t, <3>2, ShutDownTypes
    <3> QED BY <2>2, <3>1, <3>2
  <2>4. /\ pc' = "next" /\ told' = told /\ bridge' = candidate /\ cleaned' = "new" /\ exited' = Heard
        /\ UNCHANGED <<test, seq, candidate, posted, own_seq, session>>
      BY <1>4 DEF Started, Tell
  <2> QED BY <1>t, <2>1, <2>3, <2>4 DEF WorkerTypes
<1>5. CASE Finish
  <2>1. /\ thread' \in [Bridge -> {"absent", "idle", "reading", "filled", "deaf", "gone"}]
        /\ up' \in [Bridge -> BOOLEAN]
      BY <1>t, <1>5, RunningTypes DEF Finish, WorkerTypes
  <2>2. /\ control' \in [Bridge -> 0..4]
        /\ data' \in [Bridge -> {None} \cup SoundRequest \cup SoundAnswer \cup Failure]
        /\ answer' \in [Bridge -> {None} \cup SoundAnswer]
        /\ asked' \in [Bridge -> {None} \cup SoundRequest \cup Garbage]
    <3>1. ShutDown(bridge, exited) /\ exited \in [Bridge -> BOOLEAN]
        BY <1>t, <1>5 DEF Finish, WorkerTypes
    <3> QED BY <1>t, <3>1, ShutDownTypes
  <2>3. /\ pc' = "done" /\ told' = told
        /\ UNCHANGED <<test, seq, bridge, candidate, cleaned, exited, posted, own_seq, session>>
      BY <1>5 DEF Finish, Tell
  <2> QED BY <1>t, <2>1, <2>2, <2>3 DEF WorkerTypes
<1> QED BY <1>1, <1>2, <1>3, <1>4, <1>5

-----------------------------------------------------------------------------
(***************************************************************************)
(* The contract with the runner.                                            *)
(***************************************************************************)
LEMMA ThreadsLeaveTheProcess ==
    ASSUME NEW b \in Bridge, ThreadNext(b)
    PROVE  UNCHANGED processVars
BY DEF ThreadNext, TakeRequest, ServerAnswers, ServerIsConfused, ServerDies, Fill, Signal

\* One call of the test or of the reset ends: a result is sent for a test alone.
LEMMA CallEnds ==
    ASSUME WorkerTypes, Owing, pc \in InRequest, NEW v, NEW unhealthy, Throws(v, unhealthy), test' = test
    PROVE  /\ Owing' /\ pc' \in {"restart", "reset"}
           /\ IF OfTest THEN told' = told + 1 /\ said' = [type |-> "result", verdict |-> v]
              ELSE told' = told
<1>1. IF OfTest THEN test = told + 1 ELSE test = told
    BY DEF Owing
<1>2. CASE OfTest
  <2>1. pc' \in {"restart", "reset"} /\ told' = told + 1 /\ said' = [type |-> "result", verdict |-> v]
      BY <1>2 DEF Throws, Ended, Tell, Quiet, OfTest
  <2> QED BY <1>1, <1>2, <2>1 DEF Owing, InTest, InRequest, BetweenTests
<1>3. CASE ~OfTest
  <2>1. pc' = "restart" /\ told' = told
      BY <1>3 DEF Throws, Quiet, OfTest
  <2> QED BY <1>1, <1>3, <2>1 DEF Owing, InTest, InRequest, BetweenTests
<1> QED BY <1>2, <1>3

\* What the runner can tell of the process.
PlaceByPc ==
    /\ pc \in InTest => PlaceOf = [phase |-> "testing", told |-> told]
    /\ pc \in InRequest => PlaceOf = [phase |-> IF OfTest THEN "testing" ELSE "between", told |-> told]
    /\ pc \in BetweenTests =>
          PlaceOf = [phase |-> IF pc \in {"boot", "done", "dead"} THEN pc ELSE "between", told |-> told]

LEMMA PlaceIsByPc == WorkerTypes /\ Owing => PlaceByPc
<1> SUFFICES ASSUME WorkerTypes, Owing PROVE PlaceByPc
    OBVIOUS
<1>1. told \in Nat
    BY DEF WorkerTypes
<1>2. ~(told > told) /\ told + 1 > told
    BY <1>1
<1>3. pc \in InTest => PlaceOf = [phase |-> "testing", told |-> told]
    BY <1>2 DEF Owing, InTest, PlaceOf
<1>4. pc \in InRequest => PlaceOf = [phase |-> IF OfTest THEN "testing" ELSE "between", told |-> told]
    BY <1>2 DEF Owing, InRequest, PlaceOf
<1>5. pc \in BetweenTests =>
          PlaceOf = [phase |-> IF pc \in {"boot", "done", "dead"} THEN pc ELSE "between", told |-> told]
    BY <1>2 DEF Owing, BetweenTests, PlaceOf
<1> QED BY <1>3, <1>4, <1>5 DEF PlaceByPc

\* Each step keeps the books, and tells what it does.
LEMMA ContractStep ==
    ASSUME WorkerInv, WorkerTypes', ProcessNext
    PROVE  /\ Owing'
           /\ PlaceOf' # PlaceOf => Sends(PlaceOf, said', PlaceOf', Len(Tests))
<1>t. WorkerTypes /\ Owing
    BY DEF WorkerInv
<1>p. told \in Nat /\ told' \in Nat /\ test \in Nat
    BY <1>t DEF WorkerTypes
<1>q. PlaceByPc
    BY <1>t, PlaceIsByPc
<1>r. Owing' => PlaceByPc'
    BY PlaceIsByPc, PTL
<1> USE DEF InTest, InRequest, BetweenTests
<1>1. ASSUME NEW v, NEW unhealthy, Throws(v, unhealthy), test' = test, pc \in InRequest,
             v \in Verdict
      PROVE  /\ Owing'
             /\ PlaceOf' # PlaceOf => Sends(PlaceOf, said', PlaceOf', Len(Tests))
  <2>1. /\ Owing' /\ pc' \in {"restart", "reset"}
        /\ IF OfTest THEN told' = told + 1 /\ said' = [type |-> "result", verdict |-> v]
           ELSE told' = told
      BY <1>1, <1>t, CallEnds
  <2>2. PlaceOf' = [phase |-> "between", told |-> told']
      BY <1>r, <2>1 DEF PlaceByPc
  <2>3. PlaceOf = [phase |-> IF OfTest THEN "testing" ELSE "between", told |-> told]
      BY <1>1, <1>q DEF PlaceByPc
  <2>4. CASE OfTest
      BY <2>1, <2>2, <2>3, <2>4 DEF Sends
  <2>5. CASE ~OfTest
      BY <2>1, <2>2, <2>3, <2>5
  <2> QED BY <2>1, <2>4, <2>5
<1>2. CASE Refuse \/ TimeOut
    BY <1>1, <1>2 DEF Refuse, TimeOut, Verdict
<1>3. CASE Receive
  <2>1. CASE \E unhealthy \in BOOLEAN : Throws("fail", unhealthy)
      BY <1>1, <1>3, <2>1 DEF Receive, Verdict
  <2>2. CASE /\ pc' = IF request.command = "tsz/reset" THEN "cleaned" ELSE "test"
             /\ Quiet
    <3>1. pc = "wait" /\ UNCHANGED <<test, told>>
        BY <1>3, <2>2 DEF Receive, Quiet
    <3>2. Owing' /\ (pc' = "cleaned" <=> ~OfTest) /\ pc' \in {"cleaned", "test"}
        BY <1>t, <2>2, <3>1 DEF Owing, OfTest
    <3>3. PlaceOf' = [phase |-> IF OfTest THEN "testing" ELSE "between", told |-> told]
        BY <1>r, <3>1, <3>2 DEF PlaceByPc
    <3> QED BY <1>q, <3>1, <3>2, <3>3 DEF PlaceByPc
  <2> QED BY <1>3, <2>1, <2>2 DEF Receive
<1>4. CASE Post \/ Notify
  <2>1. /\ pc \in {"send", "posted"} /\ pc' \in {"posted", "wait"} /\ UNCHANGED <<test, told, request>>
      BY <1>4 DEF Post, Notify, Quiet
  <2>2. Owing' /\ OfTest' = OfTest
      BY <1>t, <2>1 DEF Owing, OfTest
  <2>3. PlaceOf' = PlaceOf
      BY <1>q, <1>r, <2>1, <2>2 DEF PlaceByPc
  <2> QED BY <2>2, <2>3
<1>5. CASE Ask
  <2>1. /\ pc = "test" /\ pc' = "send" /\ UNCHANGED <<test, told>>
        /\ request'.command \in {"lsp", "tsz/text"} /\ request' \in Request /\ request'.test = test
      BY <1>t, <1>5 DEF Ask, Quiet, WorkerTypes, Request
  <2>2. Owing' /\ OfTest'
      BY <1>t, <2>1 DEF Owing, OfTest, SoundRequest
  <2>3. PlaceOf' = PlaceOf
      BY <1>q, <1>r, <2>1, <2>2 DEF PlaceByPc
  <2> QED BY <2>2, <2>3
<1>6. CASE Judge
  <2>1. PICK v \in {"pass", "slow", "fail"} : Ended(v, FALSE)
      BY <1>6 DEF Judge
  <2>2. /\ pc = "test" /\ pc' = "reset" /\ test' = test /\ told' = told + 1
        /\ said' = [type |-> "result", verdict |-> v]
      BY <1>6, <2>1 DEF Judge, Ended, Tell
  <2>3. Owing'
      BY <1>t, <2>2 DEF Owing
  <2>4. PlaceOf = [phase |-> "testing", told |-> told] /\ PlaceOf' = [phase |-> "between", told |-> told + 1]
      BY <1>q, <1>r, <2>2, <2>3 DEF PlaceByPc
  <2> QED BY <2>2, <2>3, <2>4 DEF Sends
<1>7. CASE Hang
  <2>1. pc = "test" /\ pc' = "hung" /\ UNCHANGED <<test, told>>
      BY <1>7 DEF Hang, Quiet
  <2>2. Owing'
      BY <1>t, <2>1 DEF Owing
  <2> QED BY <1>q, <1>r, <2>1, <2>2 DEF PlaceByPc
<1>8. CASE StartTest
  <2>1. /\ pc = "next" /\ pc' = "test" /\ test < Len(Tests) /\ test' = test + 1 /\ told' = told
        /\ said' = [type |-> "start"]
      BY <1>8 DEF StartTest, Tell
  <2>2. Owing' /\ told = test
      BY <1>t, <2>1 DEF Owing
  <2>3. PlaceOf = [phase |-> "between", told |-> told] /\ PlaceOf' = [phase |-> "testing", told |-> told]
      BY <1>q, <1>r, <2>1, <2>2 DEF PlaceByPc
  <2>4. PlaceOf' = [PlaceOf EXCEPT !.phase = "testing"] /\ told < Len(Tests)
      BY <2>1, <2>2, <2>3
  <2> QED BY <2>1, <2>2, <2>3, <2>4 DEF Sends
<1>9. CASE ResetSession
  <2>1. /\ pc = "reset" /\ pc' = "send" /\ UNCHANGED <<test, told>>
        /\ request' = [command |-> "tsz/reset", test |-> 0, seq |-> own_seq[bridge] + 1]
      BY <1>9 DEF ResetSession, Quiet
  <2>2. request' \in SoundRequest
      BY <1>t, <2>1, BoundsAreNaturals DEF SoundRequest, Request, WorkerTypes
  <2>3. Owing' /\ ~OfTest'
      BY <1>t, <2>1, <2>2 DEF Owing, OfTest
  <2> QED BY <1>q, <1>r, <2>1, <2>3 DEF PlaceByPc
<1>10. CASE CheckMemory \/ Restart \/ StartFails
  <2>1. /\ pc \in {"cleaned", "restart", "boot", "starting"} /\ UNCHANGED <<test, told>>
        /\ pc' \in {"next", "restart", "starting"} \/ pc' = pc
        /\ pc = "boot" => pc' = pc
      BY <1>10 DEF CheckMemory, Restart, StartFails, Quiet
  <2>2. Owing'
      BY <1>t, <2>1 DEF Owing
  <2> QED BY <1>q, <1>r, <2>1, <2>2 DEF PlaceByPc
<1>11. CASE GiveUp
  <2>1. /\ pc \in {"boot", "starting"} /\ UNCHANGED <<test, told>> /\ said' = [type |-> "error"]
        /\ pc' \in {"dead", "next"} /\ (pc' = "next" => pc = "starting")
      BY <1>11 DEF GiveUp, Tell
  <2>2. Owing'
      BY <1>t, <2>1 DEF Owing
  <2>3. /\ PlaceOf = [phase |-> IF pc = "boot" THEN pc ELSE "between", told |-> told]
        /\ PlaceOf' = [phase |-> IF pc' = "dead" THEN pc' ELSE "between", told |-> told]
      BY <1>q, <1>r, <2>1, <2>2 DEF PlaceByPc
  <2>4. PlaceOf' # PlaceOf => PlaceOf' = [PlaceOf EXCEPT !.phase = "dead"] /\ PlaceOf.phase \in {"boot", "between"}
      BY <2>1, <2>3
  <2> QED BY <2>1, <2>2, <2>4 DEF Sends
<1>12. CASE Started
  <2>1. /\ pc \in {"boot", "starting"} /\ UNCHANGED <<test, told>> /\ pc' = "next"
        /\ pc = "boot" => said' = [type |-> "ready"]
      BY <1>12 DEF Started, Tell
  <2>2. Owing'
      BY <1>t, <2>1 DEF Owing
  <2>3. /\ PlaceOf = [phase |-> IF pc = "boot" THEN pc ELSE "between", told |-> told]
        /\ PlaceOf' = [phase |-> "between", told |-> told]
      BY <1>q, <1>r, <2>1, <2>2 DEF PlaceByPc
  <2>4. CASE pc = "boot"
    <3>1. PlaceOf' = [PlaceOf EXCEPT !.phase = "between"] /\ PlaceOf.phase = "boot"
        BY <2>3, <2>4
    <3> QED BY <2>1, <2>2, <2>4, <3>1 DEF Sends
  <2>5. CASE pc # "boot"
      BY <2>2, <2>3, <2>5
  <2> QED BY <2>4, <2>5
<1>13. CASE Finish
  <2>1. /\ pc = "next" /\ test = Len(Tests) /\ UNCHANGED <<test, told>> /\ pc' = "done"
        /\ said' = [type |-> "done"]
      BY <1>13 DEF Finish, Tell
  <2>2. Owing' /\ told = Len(Tests)
      BY <1>t, <2>1 DEF Owing
  <2>3. PlaceOf = [phase |-> "between", told |-> told] /\ PlaceOf' = [phase |-> "done", told |-> told]
      BY <1>q, <1>r, <2>1, <2>2 DEF PlaceByPc
  <2>4. PlaceOf' = [PlaceOf EXCEPT !.phase = "done"]
      BY <2>3
  <2> QED BY <2>1, <2>2, <2>3, <2>4 DEF Sends
<1> QED BY <1>2, <1>3, <1>4, <1>5, <1>6, <1>7, <1>8, <1>9, <1>10, <1>11, <1>12, <1>13 DEF ProcessNext

-----------------------------------------------------------------------------
(***************************************************************************)
(* What one step of a thread or a server does to its bridge.                 *)
(***************************************************************************)
Same(b) ==
    /\ control'[b] = control[b] /\ data'[b] = data[b] /\ thread'[b] = thread[b]
    /\ exited'[b] = exited[b] /\ posted'[b] = posted[b] /\ up'[b] = up[b]
    /\ asked'[b] = asked[b] /\ answer'[b] = answer[b] /\ session'[b] = session[b]
OthersSame(b) == \A c \in Bridge \ {b} : Same(c)

LEMMA TakeStep ==
    ASSUME WorkerTypes, NEW b \in Bridge, TakeRequest(b)
    PROVE  /\ thread[b] = "idle" /\ control[b] = STATE_REQUEST_READY
           /\ control'[b] = control[b] /\ data'[b] = data[b] /\ exited'[b] = exited[b] /\ up'[b] = up[b]
           /\ answer'[b] = answer[b] /\ session'[b] = session[b]
           /\ \/ up[b] /\ asked'[b] = Framed(data[b]) /\ thread'[b] = "reading" /\ posted'[b] = posted[b]
              \/ ~up[b] /\ asked'[b] = asked[b] /\ thread'[b] \in {"deaf", "gone"}
           /\ OthersSame(b)
BY DEF TakeRequest, WorkerTypes, OthersSame, Same

LEMMA AnswerStep ==
    ASSUME WorkerTypes, NEW b \in Bridge, ServerAnswers(b)
    PROVE  /\ asked[b] \in SoundRequest /\ answer[b] = None /\ up[b]
           /\ control'[b] = control[b] /\ data'[b] = data[b] /\ exited'[b] = exited[b] /\ up'[b] = up[b]
           /\ thread'[b] = thread[b] /\ posted'[b] = posted[b]
           /\ asked'[b] = None /\ answer'[b] = [to |-> asked[b]]
           /\ session'[b] = IF asked[b].command = "tsz/reset" THEN {} ELSE session[b] \cup {asked[b].test}
           /\ OthersSame(b)
<1>1. asked[b] \in SoundRequest
    BY Kinds DEF ServerAnswers, WorkerTypes
<1> QED BY <1>1 DEF ServerAnswers, WorkerTypes, OthersSame, Same

LEMMA ConfusedStep ==
    ASSUME WorkerTypes, NEW b \in Bridge, ServerIsConfused(b)
    PROVE  /\ asked[b] \in Garbage /\ answer[b] = None /\ up[b]
           /\ control'[b] = control[b] /\ data'[b] = data[b] /\ exited'[b] = exited[b]
           /\ thread'[b] = thread[b] /\ posted'[b] = posted[b]
           /\ asked'[b] = None
           /\ \/ answer'[b] = None /\ session'[b] = session[b] /\ ~up'[b]
              \/ /\ answer'[b] \in SoundAnswer /\ up'[b]
                 /\ session'[b] = IF IsReset(answer'[b]) THEN {} ELSE session[b]
           /\ OthersSame(b)
<1>1. \/ UNCHANGED <<answer, session>> /\ up' = [up EXCEPT ![b] = FALSE]
      \/ \E a \in SoundAnswer :
             /\ answer' = [answer EXCEPT ![b] = a]
             /\ session' = [session EXCEPT ![b] = IF IsReset(a) THEN {} ELSE session[b]]
             /\ up' = up
    BY ConfusedAnswer
<1>2. /\ asked[b] \in Garbage /\ answer[b] = None /\ up[b] /\ asked' = [asked EXCEPT ![b] = None]
      /\ UNCHANGED <<control, data, thread, exited, posted>>
    BY DEF ServerIsConfused
<1>3. CASE UNCHANGED <<answer, session>> /\ up' = [up EXCEPT ![b] = FALSE]
    BY <1>2, <1>3 DEF WorkerTypes, OthersSame, Same
<1>4. ASSUME NEW a \in SoundAnswer,
             answer' = [answer EXCEPT ![b] = a],
             session' = [session EXCEPT ![b] = IF IsReset(a) THEN {} ELSE session[b]],
             up' = up
      PROVE  /\ answer'[b] \in SoundAnswer /\ up'[b]
             /\ session'[b] = IF IsReset(answer'[b]) THEN {} ELSE session[b]
             /\ asked'[b] = None
             /\ OthersSame(b)
  <2>1. answer'[b] = a /\ session'[b] = IF IsReset(a) THEN {} ELSE session[b]
      BY <1>4 DEF WorkerTypes
  <2> QED BY <1>2, <1>4, <2>1 DEF WorkerTypes, OthersSame, Same
<1> QED BY <1>1, <1>2, <1>3, <1>4

LEMMA DieStep ==
    ASSUME WorkerTypes, NEW b \in Bridge, ServerDies(b)
    PROVE  /\ up[b] /\ ~up'[b] /\ asked'[b] = None
           /\ control'[b] = control[b] /\ data'[b] = data[b] /\ exited'[b] = exited[b]
           /\ thread'[b] = thread[b] /\ posted'[b] = posted[b]
           /\ answer'[b] = answer[b] /\ session'[b] = session[b]
           /\ OthersSame(b)
BY DEF ServerDies, WorkerTypes, OthersSame, Same

LEMMA FillStep ==
    ASSUME WorkerTypes, NEW b \in Bridge, Fill(b)
    PROVE  /\ thread[b] = "reading" /\ thread'[b] = "filled" /\ answer'[b] = None
           /\ control'[b] = control[b] /\ exited'[b] = exited[b] /\ up'[b] = up[b]
           /\ asked'[b] = asked[b] /\ session'[b] = session[b]
           /\ \/ answer[b] # None /\ data'[b] = answer[b] /\ posted'[b] = posted[b]
              \/ answer[b] # None /\ data'[b] \in Failure /\ posted'[b] = posted[b]
              \/ answer[b] = None /\ ~up[b] /\ data'[b] \in Failure
           /\ OthersSame(b)
<1>1. [error |-> "large"] \in Failure /\ [error |-> "closed"] \in Failure
    BY DEF Failure
<1> QED BY <1>1 DEF Fill, WorkerTypes, OthersSame, Same

LEMMA SignalStep ==
    ASSUME WorkerTypes, NEW b \in Bridge, Signal(b)
    PROVE  /\ thread[b] = "filled" /\ thread'[b] = "idle"
           /\ control'[b] \in {STATE_RESPONSE_READY, STATE_ERROR}
           /\ data'[b] = data[b] /\ exited'[b] = exited[b] /\ posted'[b] = posted[b] /\ up'[b] = up[b]
           /\ asked'[b] = asked[b] /\ answer'[b] = answer[b] /\ session'[b] = session[b]
           /\ OthersSame(b)
BY DEF Signal, WorkerTypes, OthersSame, Same

LEMMA SameBridge ==
    ASSUME NEW b \in Bridge, Same(b), bridge' = bridge, Link(b), ResetAnswers(b)
    PROVE  Link(b)' /\ ResetAnswers(b)'
BY DEF Same, Link, ResetAnswers, Still, IsReset

\* Of a still bridge only the server can move, by dying.
LEMMA StillBridge ==
    ASSUME WorkerTypes, NEW b \in Bridge, Link(b), Still(b), ThreadNext(b)
    PROVE  ServerDies(b)
<1>1. asked[b] = None
    BY DEF Link, Still
<1> QED BY <1>1, Kinds DEF ThreadNext, TakeRequest, ServerAnswers, ServerIsConfused, Fill, Signal, Still

LEMMA ThreadBridges ==
    ASSUME WorkerInv, NEW b \in Bridge, ThreadNext(b)
    PROVE  Bridges'
<1>t. WorkerTypes /\ Bridges /\ Link(b) /\ ResetAnswers(b)
    BY DEF WorkerInv, Bridges
<1>u. UNCHANGED <<pc, bridge, candidate>>
    BY ThreadsLeaveTheProcess DEF processVars
<1>o. OthersSame(b) /\ exited'[b] = exited[b]
    BY <1>t, TakeStep, AnswerStep, ConfusedStep, DieStep, FillStep, SignalStep DEF ThreadNext
<1>1. b \notin Unstarted
    BY <1>t, Kinds DEF Bridges, Fresh, ThreadNext, TakeRequest, ServerAnswers, ServerIsConfused, ServerDies, Fill, Signal
<1>2. Link(b)' /\ ResetAnswers(b)'
  <2> USE StateNumbers, Kinds DEF Still
  <2>1. CASE TakeRequest(b)
    <3>1. /\ thread[b] = "idle" /\ control[b] = STATE_REQUEST_READY
          /\ control'[b] = control[b] /\ data'[b] = data[b] /\ exited'[b] = exited[b] /\ up'[b] = up[b]
          /\ answer'[b] = answer[b] /\ session'[b] = session[b]
          /\ \/ up[b] /\ asked'[b] = Framed(data[b]) /\ thread'[b] = "reading" /\ posted'[b] = posted[b]
             \/ ~up[b] /\ asked'[b] = asked[b] /\ thread'[b] \in {"deaf", "gone"}
        BY <1>t, <2>1, TakeStep
    <3>2. Link(b)'
        BY <1>t, <1>u, <3>1 DEF Link
    <3>3. ResetAnswers(b)'
        BY <1>t, <3>1 DEF ResetAnswers, IsReset
    <3> QED BY <3>2, <3>3
  <2>2. CASE ServerAnswers(b)
    <3>1. /\ asked[b] \in SoundRequest /\ answer[b] = None /\ up[b]
          /\ control'[b] = control[b] /\ data'[b] = data[b] /\ exited'[b] = exited[b] /\ up'[b] = up[b]
          /\ thread'[b] = thread[b] /\ posted'[b] = posted[b]
          /\ asked'[b] = None /\ answer'[b] = [to |-> asked[b]]
          /\ session'[b] = IF asked[b].command = "tsz/reset" THEN {} ELSE session[b] \cup {asked[b].test}
        BY <1>t, <2>2, AnswerStep
    <3>2. thread[b] = "reading"
        BY <1>t, <3>1 DEF Link
    <3>3. Link(b)'
        BY <1>t, <1>u, <3>1, <3>2 DEF Link
    <3>4. ResetAnswers(b)'
        BY <3>1, <3>2 DEF ResetAnswers, IsReset
    <3> QED BY <3>3, <3>4
  <2>3. CASE ServerIsConfused(b)
    <3>1. /\ asked[b] \in Garbage /\ answer[b] = None /\ up[b]
          /\ control'[b] = control[b] /\ data'[b] = data[b] /\ exited'[b] = exited[b]
          /\ thread'[b] = thread[b] /\ posted'[b] = posted[b]
          /\ asked'[b] = None
          /\ \/ answer'[b] = None /\ session'[b] = session[b] /\ ~up'[b]
             \/ /\ answer'[b] \in SoundAnswer /\ up'[b]
                /\ session'[b] = IF IsReset(answer'[b]) THEN {} ELSE session[b]
        BY <1>t, <2>3, ConfusedStep
    <3>2. thread[b] = "reading"
        BY <1>t, <3>1 DEF Link
    <3>3. Link(b)'
        BY <1>t, <1>u, <3>1, <3>2 DEF Link
    <3>4. ResetAnswers(b)'
        BY <3>1, <3>2 DEF ResetAnswers, IsReset
    <3> QED BY <3>3, <3>4
  <2>4. CASE ServerDies(b)
    <3>1. /\ up[b] /\ ~up'[b] /\ asked'[b] = None
          /\ control'[b] = control[b] /\ data'[b] = data[b] /\ exited'[b] = exited[b]
          /\ thread'[b] = thread[b] /\ posted'[b] = posted[b]
          /\ answer'[b] = answer[b] /\ session'[b] = session[b]
        BY <1>t, <2>4, DieStep
    <3> QED BY <1>t, <1>u, <3>1 DEF Link, ResetAnswers, IsReset
  <2>5. CASE Fill(b)
    <3>1. /\ thread[b] = "reading" /\ thread'[b] = "filled" /\ answer'[b] = None
          /\ control'[b] = control[b] /\ exited'[b] = exited[b] /\ up'[b] = up[b]
          /\ asked'[b] = asked[b] /\ session'[b] = session[b]
          /\ \/ answer[b] # None /\ data'[b] = answer[b] /\ posted'[b] = posted[b]
             \/ answer[b] # None /\ data'[b] \in Failure /\ posted'[b] = posted[b]
             \/ answer[b] = None /\ ~up[b] /\ data'[b] \in Failure
        BY <1>t, <2>5, FillStep
    <3>2. Link(b)'
        BY <1>t, <1>u, <3>1 DEF Link
    <3>3. ResetAnswers(b)'
        BY <1>t, <3>1 DEF ResetAnswers, IsReset
    <3> QED BY <3>2, <3>3
  <2>6. CASE Signal(b)
    <3>1. /\ thread[b] = "filled" /\ thread'[b] = "idle"
          /\ control'[b] \in {STATE_RESPONSE_READY, STATE_ERROR}
          /\ data'[b] = data[b] /\ exited'[b] = exited[b] /\ posted'[b] = posted[b] /\ up'[b] = up[b]
          /\ asked'[b] = asked[b] /\ answer'[b] = answer[b] /\ session'[b] = session[b]
        BY <1>t, <2>6, SignalStep
    <3>2. Link(b)'
        BY <1>t, <1>u, <3>1 DEF Link
    <3>3. ResetAnswers(b)'
        BY <1>t, <3>1 DEF ResetAnswers, IsReset
    <3> QED BY <3>2, <3>3
  <2> QED BY <2>1, <2>2, <2>3, <2>4, <2>5, <2>6 DEF ThreadNext
<1>3. \A c \in Bridge : Link(c)' /\ ResetAnswers(c)'
    BY <1>t, <1>u, <1>o, <1>2, SameBridge DEF Bridges, OthersSame
<1>4. \A c \in Unstarted : Fresh(c)'
    BY <1>t, <1>1, <1>o DEF Bridges, OthersSame, Same, Fresh, Unstarted
<1>5. Unstarted' = Unstarted
    BY <1>u DEF Unstarted
<1>6. pc = "posted" => ~exited'[bridge]
    BY <1>t, <1>o DEF Bridges, OthersSame, Same, WorkerTypes
<1> QED BY <1>t, <1>u, <1>3, <1>4, <1>5, <1>6 DEF Bridges

-----------------------------------------------------------------------------
(***************************************************************************)
(* What the steps of the process do to the bridges.                          *)
(***************************************************************************)
AllSame == \A b \in Bridge : Same(b)

\* The steps that touch no bridge but for the numbers of its requests.
LEMMA PlainSteps ==
    ASSUME WorkerTypes, Refuse \/ TimeOut \/ Ask \/ Judge \/ Hang \/ StartTest \/ ResetSession \/ CheckMemory
    PROVE  /\ AllSame /\ UNCHANGED <<bridge, candidate, gave_up>>
           /\ pc \notin {"boot", "starting", "posted"} /\ pc' \notin {"boot", "starting", "posted"}
<1>1. UNCHANGED <<control, data, thread, exited, posted, up, asked, answer, session, bridge, candidate, gave_up>>
    BY DEF Refuse, TimeOut, Ask, Judge, Hang, StartTest, ResetSession, CheckMemory, bridgeVars
<1>2. pc \notin {"boot", "starting", "posted"} /\ pc' \notin {"boot", "starting", "posted"}
    BY DEF Refuse, TimeOut, Ask, Judge, Hang, StartTest, ResetSession, CheckMemory, Throws, Ended
<1> QED BY <1>1, <1>2 DEF AllSame, Same

LEMMA PostStep ==
    ASSUME WorkerTypes, Post
    PROVE  /\ pc = "send" /\ pc' = "posted" /\ ~exited[bridge]
           /\ UNCHANGED <<bridge, candidate, gave_up, request, test, cleaned, taken>>
           /\ OthersSame(bridge)
           /\ data'[bridge] = request
           /\ control'[bridge] = control[bridge] /\ thread'[bridge] = thread[bridge]
           /\ exited'[bridge] = exited[bridge] /\ posted'[bridge] = posted[bridge] /\ up'[bridge] = up[bridge]
           /\ asked'[bridge] = asked[bridge] /\ answer'[bridge] = answer[bridge]
           /\ session'[bridge] = session[bridge]
BY DEF Post, WorkerTypes, OthersSame, Same

\* The steps that change the word alone.
WordSet(state) ==
    /\ OthersSame(bridge)
    /\ control'[bridge] = state
    /\ data'[bridge] = data[bridge] /\ thread'[bridge] = thread[bridge]
    /\ exited'[bridge] = exited[bridge] /\ posted'[bridge] = posted[bridge] /\ up'[bridge] = up[bridge]
    /\ asked'[bridge] = asked[bridge] /\ answer'[bridge] = answer[bridge]
    /\ session'[bridge] = session[bridge]

LEMMA NotifyStep ==
    ASSUME WorkerTypes, Notify
    PROVE  /\ pc = "posted" /\ pc' = "wait" /\ WordSet(STATE_REQUEST_READY)
           /\ UNCHANGED <<bridge, candidate, gave_up, request, test, cleaned, taken>>
BY DEF Notify, WorkerTypes, OthersSame, Same, WordSet

LEMMA ReceiveStep ==
    ASSUME WorkerTypes, Receive
    PROVE  /\ pc = "wait" /\ control[bridge] # STATE_REQUEST_READY /\ WordSet(STATE_IDLE)
           /\ UNCHANGED <<bridge, candidate, gave_up, request, test>>
           /\ \/ /\ control[bridge] = STATE_RESPONSE_READY /\ IsAnswer(request, data[bridge])
                 /\ pc' = IF OfTest THEN "test" ELSE "cleaned"
                 /\ cleaned' = IF OfTest THEN cleaned ELSE "reset"
                 /\ taken' = [request |-> request, answer |-> data[bridge]]
              \/ pc' \in {"restart", "reset"} /\ UNCHANGED <<cleaned, taken>>
<1>1. WordSet(STATE_IDLE) /\ pc = "wait" /\ control[bridge] # STATE_REQUEST_READY
      /\ UNCHANGED <<bridge, candidate, gave_up, request, test>>
    BY DEF Receive, WorkerTypes, OthersSame, Same, WordSet
<1> QED BY <1>1 DEF Receive, Throws, Ended, OfTest

\* What the process hears of at an await.
LEMMA HeardStep ==
    ASSUME WorkerTypes, StartFails \/ GiveUp
    PROVE  /\ \A b \in Bridge :
                 /\ exited'[b] => exited[b] \/ posted[b] \/ b = candidate
                 /\ control'[b] = control[b] /\ data'[b] = data[b] /\ thread'[b] = thread[b]
                 /\ posted'[b] = posted[b] /\ up'[b] = up[b]
                 /\ asked'[b] = asked[b] /\ answer'[b] = answer[b] /\ session'[b] = session[b]
           /\ UNCHANGED <<bridge, candidate, test, cleaned, taken>>
           /\ pc \in {"boot", "starting"}
           /\ \/ pc' = pc /\ UNCHANGED gave_up
              \/ pc' \in {"dead", "next"} /\ gave_up'
BY DEF StartFails, GiveUp, Heard, WorkerTypes

\* A bridge that is shut down is still, or its server is gone, or it never had any.
Stopped(b) ==
    \/ Same(b) /\ (exited[b] \/ posted[b])
    \/ /\ control'[b] = STATE_SHUTDOWN /\ thread'[b] = "gone" /\ ~up'[b]
       /\ data'[b] = None /\ answer'[b] = None /\ asked'[b] = None
       /\ posted'[b] = posted[b] /\ session'[b] = session[b]

LEMMA FinishStep ==
    ASSUME WorkerTypes, Finish
    PROVE  /\ pc = "next" /\ pc' = "done"
           /\ UNCHANGED <<bridge, candidate, gave_up, test, cleaned, taken>>
           /\ ((Same(bridge) /\ exited[bridge]) \/ Stopped(bridge))
           /\ exited' = exited
           /\ OthersSame(bridge)
<1>1. /\ ShutDown(bridge, exited) /\ Running(bridge, exited, {})
      /\ pc = "next" /\ pc' = "done"
      /\ UNCHANGED <<bridge, candidate, gave_up, test, cleaned, taken, exited, posted, session>>
    BY DEF Finish
<1>2. /\ thread' = [x \in Bridge |-> IF ~exited[bridge] /\ x = bridge THEN "gone" ELSE thread[x]]
      /\ up' = [x \in Bridge |-> up[x] /\ ~(~exited[bridge] /\ x = bridge)]
    BY <1>1 DEF Running, WorkerTypes
<1>3. CASE exited[bridge]
  <2>1. UNCHANGED <<control, data, answer, asked>>
      BY <1>1, <1>3 DEF ShutDown
  <2>2. \A b \in Bridge : thread'[b] = thread[b] /\ up'[b] = up[b]
      BY <1>2, <1>3 DEF WorkerTypes
  <2> QED BY <1>1, <1>3, <2>1, <2>2 DEF Same, OthersSame, WorkerTypes
<1>4. CASE ~exited[bridge]
    BY <1>1, <1>2, <1>4 DEF ShutDown, WorkerTypes, Stopped, Same, OthersSame
<1> QED BY <1>1, <1>3, <1>4

\* The new bridge is started and the old one is stopped.
LEMMA StartedStep ==
    ASSUME WorkerInv, Started
    PROVE  /\ pc \in {"boot", "starting"} /\ pc' = "next" /\ bridge' = candidate /\ cleaned' = "new"
           /\ UNCHANGED <<candidate, gave_up, test, taken, posted, session>>
           /\ exited' = Heard
           /\ thread'[candidate] = "idle" /\ up'[candidate]
           /\ control'[candidate] = control[candidate] /\ data'[candidate] = data[candidate]
           /\ asked'[candidate] = asked[candidate] /\ answer'[candidate] = answer[candidate]
           /\ \A b \in Bridge \ {candidate} :
                 \/ /\ b = bridge /\ ~exited[b] /\ ~posted[b] /\ Stopped(b)
                 \/ /\ b = bridge => exited[b] \/ posted[b]
                    /\ control'[b] = control[b] /\ data'[b] = data[b] /\ thread'[b] = thread[b]
                    /\ up'[b] = up[b] /\ asked'[b] = asked[b] /\ answer'[b] = answer[b]
<1>t. WorkerTypes /\ Bridges
    BY DEF WorkerInv
<1> DEFINE kept == exited[bridge] \/ posted[bridge]
<1>1. /\ Running(bridge, Heard, {candidate})
      /\ IF pc = "boot" THEN UNCHANGED <<control, data, answer, asked>> ELSE ShutDown(bridge, Heard)
      /\ pc \in {"boot", "starting"} /\ pc' = "next" /\ bridge' = candidate /\ cleaned' = "new"
      /\ exited' = Heard
      /\ UNCHANGED <<candidate, gave_up, test, taken, posted, session>>
    BY DEF Started
<1>4. candidate \in Bridge /\ bridge \in Bridge /\ (pc = "starting" => bridge # candidate)
      /\ (pc = "boot" => bridge = candidate)
    BY <1>t DEF WorkerTypes, Bridges, Bridge
<1>2. Heard[bridge] <=> kept
    BY <1>4 DEF Heard
<1>3. \A x \in Bridge :
         /\ thread'[x] = IF x = candidate THEN "idle"
                         ELSE IF x = bridge /\ ~kept THEN "gone" ELSE thread[x]
         /\ up'[x] <=> x = candidate \/ (up[x] /\ ~(x = bridge /\ ~kept))
    BY <1>1, <1>2 DEF Running
<1>5. \A x \in Bridge : up[x] \in BOOLEAN /\ up'[x] \in BOOLEAN
  <2>1. up' \in [Bridge -> BOOLEAN]
      BY <1>1, <1>t DEF Running, WorkerTypes
  <2> QED BY <2>1, <1>t DEF WorkerTypes
<1> HIDE DEF kept
<1>6. thread'[candidate] = "idle" /\ up'[candidate]
    BY <1>3, <1>4
<1>7. \A b \in Bridge \ {candidate} : b # bridge \/ kept => thread'[b] = thread[b] /\ up'[b] = up[b]
    BY <1>3, <1>5
<1>8. CASE pc = "boot" \/ kept
  <2>1. UNCHANGED <<control, data, answer, asked>>
      BY <1>1, <1>2, <1>8 DEF ShutDown
  <2>2. \A b \in Bridge \ {candidate} : thread'[b] = thread[b] /\ up'[b] = up[b]
      BY <1>4, <1>7, <1>8
  <2>3. \A b \in Bridge \ {candidate} : b = bridge => exited[b] \/ posted[b]
      BY <1>4, <1>8 DEF kept
  <2> QED BY <1>1, <1>6, <2>1, <2>2, <2>3
<1>9. CASE pc = "starting" /\ ~kept
  <2>1. /\ control' = [control EXCEPT ![bridge] = STATE_SHUTDOWN]
        /\ data' = [data EXCEPT ![bridge] = None]
        /\ answer' = [answer EXCEPT ![bridge] = None]
        /\ asked' = [asked EXCEPT ![bridge] = None]
      BY <1>1, <1>2, <1>9 DEF ShutDown
  <2>2. \A b \in Bridge : b # bridge =>
           /\ control'[b] = control[b] /\ data'[b] = data[b]
           /\ asked'[b] = asked[b] /\ answer'[b] = answer[b]
      BY <2>1, <1>t DEF WorkerTypes
  <2>3. /\ control'[bridge] = STATE_SHUTDOWN /\ data'[bridge] = None
        /\ answer'[bridge] = None /\ asked'[bridge] = None
      BY <2>1, <1>t, <1>4 DEF WorkerTypes
  <2>4. thread'[bridge] = "gone" /\ ~up'[bridge]
      BY <1>3, <1>4, <1>9
  <2>5. Stopped(bridge)
      BY <1>1, <2>3, <2>4 DEF Stopped
  <2>6. ~exited[bridge] /\ ~posted[bridge]
      BY <1>9 DEF kept
  <2>7. \A b \in Bridge \ {candidate} : b # bridge =>
           /\ control'[b] = control[b] /\ data'[b] = data[b] /\ thread'[b] = thread[b]
           /\ up'[b] = up[b] /\ asked'[b] = asked[b] /\ answer'[b] = answer[b]
      BY <1>7, <2>2
  <2>8. /\ control'[candidate] = control[candidate] /\ data'[candidate] = data[candidate]
        /\ asked'[candidate] = asked[candidate] /\ answer'[candidate] = answer[candidate]
      BY <1>4, <1>9, <2>2
  <2> QED BY <1>1, <1>6, <2>5, <2>6, <2>7, <2>8
<1> QED BY <1>1, <1>8, <1>9

LEMMA ProcessBridges ==
    ASSUME WorkerInv, ProcessNext
    PROVE  Bridges'
<1>t. WorkerTypes /\ Owing /\ Bridges
    BY DEF WorkerInv
<1>b. /\ bridge \in Bridge /\ candidate \in Bridge /\ bridge <= candidate
      /\ bridge \in Nat /\ candidate \in Nat /\ \A b \in Bridge : b \in Nat
    BY <1>t, BoundsAreNaturals DEF WorkerTypes, Bridges, Bridge
<1>l. \A b \in Bridge : Link(b) /\ ResetAnswers(b)
    BY <1>t DEF Bridges
<1>f. \A b \in Unstarted : Fresh(b)
    BY <1>t DEF Bridges
<1>1. CASE Refuse \/ TimeOut \/ Ask \/ Judge \/ Hang \/ StartTest \/ ResetSession \/ CheckMemory
  <2>1. /\ AllSame /\ UNCHANGED <<bridge, candidate, gave_up>>
        /\ pc \notin {"boot", "starting", "posted"} /\ pc' \notin {"boot", "starting", "posted"}
      BY <1>t, <1>1, PlainSteps
  <2>2. \A b \in Bridge : Link(b)' /\ ResetAnswers(b)'
      BY <1>l, <2>1, SameBridge DEF AllSame
  <2>3. Unstarted' = Unstarted
      BY <2>1 DEF Unstarted
  <2>4. \A b \in Unstarted : Fresh(b)'
      BY <1>f, <2>1 DEF AllSame, Same, Fresh, Unstarted
  <2> QED BY <1>b, <2>1, <2>2, <2>3, <2>4 DEF Bridges
<1>2. CASE Post
  <2>1. /\ pc = "send" /\ pc' = "posted" /\ ~exited[bridge]
        /\ UNCHANGED <<bridge, candidate>> /\ OthersSame(bridge)
        /\ data'[bridge] = request
        /\ control'[bridge] = control[bridge] /\ thread'[bridge] = thread[bridge]
        /\ exited'[bridge] = exited[bridge] /\ posted'[bridge] = posted[bridge] /\ up'[bridge] = up[bridge]
        /\ asked'[bridge] = asked[bridge] /\ answer'[bridge] = answer[bridge]
        /\ session'[bridge] = session[bridge]
      BY <1>t, <1>2, PostStep
  <2>2. ~IsReset(request)
      BY <1>t, <2>1, Kinds DEF Owing, InRequest, IsReset
  <2>3. Link(bridge)'
      BY <1>b, <1>l, <2>1 DEF Link, Still
  <2>4. ResetAnswers(bridge)'
      BY <1>b, <1>l, <2>1, <2>2 DEF ResetAnswers, IsReset
  <2>5. \A b \in Bridge : Link(b)' /\ ResetAnswers(b)'
      BY <1>l, <2>1, <2>3, <2>4, SameBridge DEF OthersSame
  <2>6. Unstarted' = Unstarted
      BY <2>1 DEF Unstarted
  <2>7. \A b \in Unstarted : Fresh(b)'
      BY <1>f, <2>1 DEF OthersSame, Same, Fresh, Unstarted
  <2> QED BY <1>b, <2>1, <2>5, <2>6, <2>7 DEF Bridges
<1>3. CASE Notify \/ Receive
  <2>1. PICK state \in {STATE_REQUEST_READY, STATE_IDLE} :
           /\ WordSet(state) /\ UNCHANGED <<bridge, candidate>>
           /\ state = STATE_REQUEST_READY => ~exited[bridge]
           /\ pc \in {"posted", "wait"} /\ pc' \in {"wait", "test", "cleaned", "restart", "reset"}
    <3>1. CASE Notify
        BY <1>t, <3>1, NotifyStep DEF Bridges
    <3>2. CASE Receive
      <4>1. WordSet(STATE_IDLE) /\ UNCHANGED <<bridge, candidate>> /\ pc = "wait"
          BY <1>t, <3>2, ReceiveStep
      <4>2. pc' \in {"test", "cleaned", "restart", "reset"}
          BY <1>t, <3>2, ReceiveStep
      <4> QED BY <4>1, <4>2, StateNumbers
    <3> QED BY <1>3, <3>1, <3>2
  <2>2. Link(bridge)'
      BY <1>b, <1>l, <2>1, StateNumbers DEF Link, Still, WordSet
  <2>3. ResetAnswers(bridge)'
      BY <1>b, <1>l, <2>1 DEF ResetAnswers, IsReset, WordSet
  <2>4. \A b \in Bridge : Link(b)' /\ ResetAnswers(b)'
      BY <1>l, <2>1, <2>2, <2>3, SameBridge DEF OthersSame, WordSet
  <2>5. Unstarted' = Unstarted /\ bridge \notin Unstarted
      BY <1>b, <2>1 DEF Unstarted
  <2>6. \A b \in Unstarted : Fresh(b)'
      BY <1>f, <2>1, <2>5 DEF OthersSame, Same, Fresh, Unstarted, WordSet
  <2> QED BY <1>b, <2>1, <2>4, <2>5, <2>6 DEF Bridges
<1>4. CASE Restart
  <2>1. /\ AllSame /\ bridge' = bridge /\ candidate' = candidate + 1 /\ pc' = "starting" /\ pc = "restart"
      BY <1>4 DEF Restart, bridgeVars, AllSame, Same
  <2>2. \A b \in Bridge : Link(b)' /\ ResetAnswers(b)'
      BY <1>l, <2>1, SameBridge DEF AllSame
  <2>3. Unstarted' \subseteq Unstarted
    <3>1. \A b \in Unstarted' : b \in Bridge /\ b >= candidate + 1
        BY <1>b, <2>1 DEF Unstarted
    <3>2. \A b \in Bridge : b >= candidate + 1 => b > candidate
        BY <1>b
    <3> QED BY <3>1, <3>2 DEF Unstarted
  <2>4. \A b \in Unstarted : Fresh(b)'
      BY <1>f, <2>1 DEF AllSame, Same, Fresh, Unstarted
  <2>5. bridge' < candidate' /\ bridge' <= candidate' /\ pc' \notin {"boot", "posted"}
      BY <1>b, <2>1
  <2>6. \A b \in Unstarted' : Fresh(b)'
      BY <2>3, <2>4
  <2> QED BY <2>2, <2>5, <2>6 DEF Bridges
<1>5. CASE StartFails \/ GiveUp
  <2>1. /\ \A b \in Bridge :
              /\ exited'[b] => exited[b] \/ posted[b] \/ b = candidate
              /\ control'[b] = control[b] /\ data'[b] = data[b] /\ thread'[b] = thread[b]
              /\ posted'[b] = posted[b] /\ up'[b] = up[b]
              /\ asked'[b] = asked[b] /\ answer'[b] = answer[b] /\ session'[b] = session[b]
        /\ UNCHANGED <<bridge, candidate>>
        /\ pc \in {"boot", "starting"} /\ (pc' = pc \/ pc' \in {"dead", "next"})
      BY <1>t, <1>5, HeardStep
  <2>2. ~up[candidate]
      BY <1>b, <1>f, <1>5, <2>1 DEF Unstarted, Fresh, StartFails, GiveUp
  <2>3. \A b \in Bridge : Link(b)' /\ ResetAnswers(b)'
      BY <1>l, <2>1, <2>2 DEF Link, ResetAnswers, Still, IsReset
  <2>4. Unstarted' \subseteq Unstarted
      BY <1>5, <2>1 DEF Unstarted, StartFails, GiveUp
  <2>5. \A b \in Unstarted : Fresh(b)'
      BY <1>f, <2>1 DEF Fresh, Unstarted
  <2>6. pc' # "posted" /\ (pc' \in {"boot", "starting"} => pc' = pc)
      BY <1>5 DEF StartFails, GiveUp
  <2> QED BY <1>t, <1>b, <2>1, <2>3, <2>4, <2>5, <2>6 DEF Bridges
<1>6. CASE Started
  <2>1. /\ pc \in {"boot", "starting"} /\ pc' = "next" /\ bridge' = candidate
        /\ UNCHANGED <<candidate, posted, session>>
        /\ exited' = Heard
        /\ thread'[candidate] = "idle" /\ up'[candidate]
        /\ control'[candidate] = control[candidate] /\ data'[candidate] = data[candidate]
        /\ asked'[candidate] = asked[candidate] /\ answer'[candidate] = answer[candidate]
      BY <1>6, StartedStep
  <2>2. \A b \in Bridge \ {candidate} :
           \/ /\ b = bridge /\ ~exited[b] /\ ~posted[b] /\ Stopped(b)
           \/ /\ b = bridge => exited[b] \/ posted[b]
              /\ control'[b] = control[b] /\ data'[b] = data[b] /\ thread'[b] = thread[b]
              /\ up'[b] = up[b] /\ asked'[b] = asked[b] /\ answer'[b] = answer[b]
      BY <1>6, StartedStep
  <2>3. \A b \in Bridge : exited'[b] => exited[b] \/ posted[b]
      BY <2>1 DEF Heard
  <2>4. candidate \in Unstarted
      BY <1>b, <2>1 DEF Unstarted
  <2>5. Fresh(candidate) /\ Link(candidate)
      BY <1>b, <1>f, <1>l, <2>4
  <2>6. asked[candidate] = None /\ answer[candidate] = None
      BY <2>5 DEF Fresh, Link
  <2>7. Link(candidate)' /\ ResetAnswers(candidate)'
      BY <1>b, <2>1, <2>5, <2>6, StateNumbers DEF Fresh, Link, Still, ResetAnswers
  <2>8. ASSUME NEW b \in Bridge \ {candidate} PROVE Link(b)' /\ ResetAnswers(b)'
    <3>1. CASE b = bridge /\ ~exited[b] /\ ~posted[b] /\ Stopped(b)
      <4>1. /\ control'[b] = STATE_SHUTDOWN /\ thread'[b] = "gone" /\ ~up'[b]
            /\ data'[b] = None /\ answer'[b] = None /\ asked'[b] = None /\ posted'[b] = posted[b]
          BY <3>1 DEF Stopped
      <4>2. Link(b)'
          BY <3>1, <4>1, StateNumbers DEF Link
      <4>3. ResetAnswers(b)'
          BY <4>1, Kinds DEF ResetAnswers, IsReset
      <4> QED BY <4>2, <4>3
    <3>2. CASE /\ b = bridge => exited[b] \/ posted[b]
               /\ control'[b] = control[b] /\ data'[b] = data[b] /\ thread'[b] = thread[b]
               /\ up'[b] = up[b] /\ asked'[b] = asked[b] /\ answer'[b] = answer[b]
      <4>1. Link(b)'
          BY <1>l, <2>1, <2>3, <3>2 DEF Link, Still
      <4>2. ResetAnswers(b)'
          BY <1>l, <2>1, <3>2 DEF ResetAnswers, IsReset
      <4> QED BY <4>1, <4>2
    <3> QED BY <2>2, <3>1, <3>2
  <2>9. Unstarted' = {b \in Bridge : b > candidate} /\ Unstarted' \subseteq Unstarted
      BY <2>1 DEF Unstarted
  <2>10. \A b \in Unstarted' : b \in Bridge \ {candidate} /\ b # bridge
      BY <1>b, <2>9
  <2>11. \A b \in Unstarted' : Fresh(b)'
      BY <1>f, <2>1, <2>2, <2>9, <2>10 DEF Fresh
  <2>12. \A b \in Bridge : Link(b)' /\ ResetAnswers(b)'
      BY <2>1, <2>7, <2>8
  <2> QED BY <1>b, <2>1, <2>11, <2>12 DEF Bridges
<1>7. CASE Finish
  <2>1. /\ pc = "next" /\ pc' = "done" /\ UNCHANGED <<bridge, candidate>>
        /\ ((Same(bridge) /\ exited[bridge]) \/ Stopped(bridge))
        /\ exited' = exited /\ OthersSame(bridge)
      BY <1>t, <1>7, FinishStep
  <2>2. Link(bridge)' /\ ResetAnswers(bridge)'
    <3>1. CASE Same(bridge)
        BY <1>b, <1>l, <2>1, <3>1, SameBridge
    <3>2. CASE ~Same(bridge)
      <4>1. /\ control'[bridge] = STATE_SHUTDOWN /\ thread'[bridge] = "gone" /\ ~up'[bridge]
            /\ data'[bridge] = None /\ answer'[bridge] = None /\ asked'[bridge] = None
          BY <2>1, <3>2 DEF Stopped
      <4>2. Link(bridge)'
          BY <2>1, <4>1, StateNumbers DEF Link
      <4>3. ResetAnswers(bridge)'
          BY <2>1, <4>1, Kinds DEF ResetAnswers, IsReset
      <4> QED BY <4>2, <4>3
    <3> QED BY <3>1, <3>2
  <2>3. \A b \in Bridge : Link(b)' /\ ResetAnswers(b)'
      BY <1>l, <2>1, <2>2, SameBridge DEF OthersSame
  <2>4. Unstarted' = Unstarted /\ bridge \notin Unstarted
      BY <1>b, <2>1 DEF Unstarted
  <2>5. \A b \in Unstarted : Fresh(b)'
      BY <1>f, <2>1, <2>4 DEF OthersSame, Same, Fresh, Unstarted
  <2> QED BY <1>b, <2>1, <2>3, <2>4, <2>5 DEF Bridges
<1> QED BY <1>1, <1>2, <1>3, <1>4, <1>5, <1>6, <1>7 DEF ProcessNext

-----------------------------------------------------------------------------
(***************************************************************************)
(* A session that was cleared is empty.                                     *)
(***************************************************************************)
LEMMA ThreadCleared ==
    ASSUME WorkerInv, NEW b \in Bridge, ThreadNext(b)
    PROVE  Cleared'
<1>t. WorkerTypes /\ Bridges /\ Cleared /\ Link(b)
    BY DEF WorkerInv, Bridges
<1>u. UNCHANGED <<pc, bridge, cleaned>>
    BY ThreadsLeaveTheProcess DEF processVars
<1>1. ASSUME cleaned # "no" PROVE session'[bridge] = {} /\ Still(bridge)'
  <2>1. session[bridge] = {} /\ Still(bridge)
      BY <1>t, <1>1 DEF Cleared
  <2>2. CASE b = bridge
      BY <1>t, <1>u, <2>1, <2>2, StillBridge, DieStep DEF Still
  <2>3. CASE b # bridge
    <3>1. OthersSame(b)
        BY <1>t, TakeStep, AnswerStep, ConfusedStep, DieStep, FillStep, SignalStep DEF ThreadNext
    <3> QED BY <1>t, <1>u, <2>1, <2>3, <3>1 DEF OthersSame, Same, Still, WorkerTypes
  <2> QED BY <2>2, <2>3
<1> QED BY <1>t, <1>u, <1>1 DEF Cleared

LEMMA ProcessCleared ==
    ASSUME WorkerInv, ProcessNext
    PROVE  Cleared'
<1>t. WorkerTypes /\ Owing /\ Bridges /\ Cleared
    BY DEF WorkerInv
<1>b. bridge \in Bridge /\ candidate \in Bridge
    BY <1>t DEF WorkerTypes
<1>l. Link(bridge) /\ ResetAnswers(bridge)
    BY <1>t, <1>b DEF Bridges
<1> USE DEF InTest, InRequest
<1>1. CASE Refuse \/ TimeOut \/ Ask \/ Judge \/ Hang \/ StartTest \/ ResetSession \/ CheckMemory
  <2>1. Same(bridge) /\ bridge' = bridge
      BY <1>t, <1>b, <1>1, PlainSteps DEF AllSame
  <2>2. session'[bridge] = session[bridge] /\ (Still(bridge) => Still(bridge)')
      BY <2>1 DEF Same, Still
  <2>3. CASE Refuse \/ TimeOut
    <3>1. cleaned' = cleaned /\ pc' \in {"restart", "reset"} /\ cleaned = "no"
        BY <1>t, <2>3 DEF Refuse, TimeOut, Throws, Ended, Cleared
    <3> QED BY <3>1 DEF Cleared
  <2>4. CASE Ask \/ Judge \/ Hang \/ ResetSession
    <3>1. cleaned' = cleaned /\ cleaned = "no" /\ pc' # "cleaned"
        BY <1>t, <2>4 DEF Ask, Judge, Hang, ResetSession, Ended, Cleared
    <3> QED BY <3>1 DEF Cleared
  <2>5. CASE StartTest
    <3>1. cleaned' = "no" /\ pc' = "test"
        BY <2>5 DEF StartTest
    <3> QED BY <3>1 DEF Cleared
  <2>6. CASE CheckMemory
    <3>1. cleaned' = cleaned /\ pc' \in {"next", "restart"}
        BY <2>6 DEF CheckMemory
    <3> QED BY <1>t, <2>1, <2>2, <3>1 DEF Cleared
  <2> QED BY <1>1, <2>3, <2>4, <2>5, <2>6
<1>2. CASE Post \/ Notify
  <2>1. cleaned' = cleaned /\ cleaned = "no" /\ pc' \in {"posted", "wait"}
      BY <1>t, <1>2 DEF Post, Notify, Cleared
  <2> QED BY <2>1 DEF Cleared
<1>3. CASE Receive
  <2>1. /\ pc = "wait" /\ WordSet(STATE_IDLE) /\ bridge' = bridge
        /\ \/ /\ control[bridge] = STATE_RESPONSE_READY /\ IsAnswer(request, data[bridge])
              /\ pc' = IF OfTest THEN "test" ELSE "cleaned"
              /\ cleaned' = IF OfTest THEN cleaned ELSE "reset"
           \/ pc' \in {"restart", "reset"} /\ UNCHANGED <<cleaned, taken>>
      BY <1>t, <1>3, ReceiveStep
  <2>2. cleaned = "no"
      BY <1>t, <2>1 DEF Cleared
  <2>3. CASE pc' = "cleaned"
    <3>1. control[bridge] = STATE_RESPONSE_READY /\ IsAnswer(request, data[bridge]) /\ ~OfTest
          /\ cleaned' = "reset"
        BY <2>1, <2>3
    <3>2. IsReset(data[bridge])
        BY <3>1 DEF IsAnswer, IsReset, OfTest
    <3>3. thread[bridge] \notin {"reading", "filled"}
        BY <1>l, <3>1 DEF Link
    <3>4. session[bridge] = {}
        BY <1>l, <3>2, <3>3 DEF ResetAnswers
    <3>5. session'[bridge] = {} /\ Still(bridge)'
        BY <2>1, <3>3, <3>4, StateNumbers DEF WordSet, Still
    <3> QED BY <2>1, <2>3, <3>1, <3>5 DEF Cleared
  <2>4. CASE pc' # "cleaned"
    <3>1. cleaned' = "no"
        BY <2>1, <2>2, <2>4
    <3> QED BY <2>4, <3>1 DEF Cleared
  <2> QED BY <2>3, <2>4
<1>4. CASE Restart
  <2>1. UNCHANGED <<cleaned, bridge, session, control, thread>> /\ pc' = "starting"
      BY <1>4 DEF Restart, bridgeVars
  <2> QED BY <1>t, <2>1 DEF Cleared, Still
<1>5. CASE StartFails \/ GiveUp
  <2>1. /\ UNCHANGED <<bridge, cleaned>>
        /\ control'[bridge] = control[bridge] /\ thread'[bridge] = thread[bridge]
        /\ session'[bridge] = session[bridge]
        /\ pc' \in {"boot", "starting", "dead", "next"}
      BY <1>t, <1>b, <1>5, HeardStep
  <2> QED BY <1>t, <2>1 DEF Cleared, Still
<1>6. CASE Started
  <2>1. /\ pc \in {"boot", "starting"} /\ pc' = "next" /\ bridge' = candidate /\ cleaned' = "new"
        /\ session' = session /\ thread'[candidate] = "idle" /\ control'[candidate] = control[candidate]
      BY <1>6, StartedStep
  <2>2. Fresh(candidate)
      BY <1>t, <1>b, <2>1 DEF Bridges, Unstarted
  <2> QED BY <2>1, <2>2, StateNumbers DEF Fresh, Cleared, Still
<1>7. CASE Finish
  <2>1. /\ pc' = "done" /\ UNCHANGED <<bridge, cleaned>>
        /\ Same(bridge) \/ Stopped(bridge)
      BY <1>t, <1>7, FinishStep
  <2>2. session'[bridge] = session[bridge] /\ (Still(bridge) => Still(bridge)')
      BY <2>1, StateNumbers DEF Same, Stopped, Still
  <2> QED BY <1>t, <2>1, <2>2 DEF Cleared
<1> QED BY <1>1, <1>2, <1>3, <1>4, <1>5, <1>6, <1>7 DEF ProcessNext

\* An answer that is taken is the answer to the request it is taken for.
LEMMA ProcessAnswers ==
    ASSUME WorkerInv, ProcessNext
    PROVE  AnswersAreOwn' /\ (gave_up => gave_up')
<1>t. WorkerTypes /\ Owing /\ Bridges /\ Isolated /\ AnswersAreOwn
    BY DEF WorkerInv
<1>b. bridge \in Bridge
    BY <1>t DEF WorkerTypes
<1>1. CASE Receive
  <2>1. /\ pc = "wait" /\ gave_up' = gave_up
        /\ \/ /\ IsAnswer(request, data[bridge])
              /\ taken' = [request |-> request, answer |-> data[bridge]]
           \/ UNCHANGED taken
      BY <1>t, <1>1, ReceiveStep
  <2>2. ASSUME IsAnswer(request, data[bridge]), taken' = [request |-> request, answer |-> data[bridge]]
        PROVE  AnswersAreOwn'
    <3>1. data[bridge] \in SoundAnswer /\ data[bridge] \in Answer
        BY <1>t, <1>b, <2>2, Kinds DEF IsAnswer, WorkerTypes
    <3>2. request \in SoundRequest /\ data[bridge].to \in SoundRequest
        BY <1>t, <2>1, <3>1 DEF Owing, InRequest, SoundAnswer
    <3>3. CASE OfTest /\ ~gave_up
        BY <1>t, <2>1, <2>2, <3>1, <3>3 DEF Isolated, InStep, AnswersAreOwn
    <3>4. CASE ~OfTest
      <4>1. /\ data[bridge].to.seq = request.seq /\ data[bridge].to.command = request.command
            /\ request.command = "tsz/reset"
          BY <2>2, <3>4 DEF IsAnswer, OfTest
      <4>2. data[bridge].to.test = request.test
          BY <3>2, <4>1 DEF SoundRequest
      <4>3. data[bridge].to = request
          BY <3>2, <4>1, <4>2 DEF SoundRequest, Request
      <4> QED BY <2>2, <4>3 DEF AnswersAreOwn
    <3> QED BY <2>1, <3>3, <3>4 DEF AnswersAreOwn
  <2> QED BY <1>t, <2>1, <2>2 DEF AnswersAreOwn
<1>2. CASE StartTest
    BY <1>2 DEF StartTest, AnswersAreOwn
<1>3. CASE GiveUp
    BY <1>3 DEF GiveUp, AnswersAreOwn
<1>4. CASE Refuse \/ Post \/ Notify \/ TimeOut \/ Ask \/ Judge \/ Hang
           \/ ResetSession \/ CheckMemory \/ Restart \/ StartFails \/ Started \/ Finish
  <2>1. UNCHANGED <<taken, gave_up>>
      BY <1>4 DEF Refuse, Post, Notify, TimeOut, Ask, Judge, Hang, ResetSession, CheckMemory,
                  Restart, StartFails, Started, Finish
  <2> QED BY <1>t, <2>1 DEF AnswersAreOwn
<1> QED BY <1>1, <1>2, <1>3, <1>4 DEF ProcessNext

-----------------------------------------------------------------------------
(***************************************************************************)
(* A server hears of one test at a time.                                    *)
(***************************************************************************)
\* What a step does to the sessions of the other bridges: nothing.
LEMMA OtherSessions ==
    ASSUME WorkerTypes, NEW b \in Bridge, Link(b), ThreadNext(b), ~up[b] \/ Still(b)
    PROVE  session' = session
<1>1. CASE ~up[b]
    BY <1>1 DEF ThreadNext, TakeRequest, ServerAnswers, ServerIsConfused, ServerDies, Fill, Signal
<1>2. CASE Still(b)
    BY <1>2, StillBridge DEF ServerDies
<1> QED BY <1>1, <1>2

LEMMA ThreadIsolated ==
    ASSUME WorkerInv, NEW b \in Bridge, ThreadNext(b), InStep, OneTest
    PROVE  InStep' /\ OneTest'
<1>t. WorkerTypes /\ Owing /\ Link(b)
    BY DEF WorkerInv, Bridges
<1>u. UNCHANGED <<pc, bridge, cleaned, request, test>> /\ OfTest' = OfTest
    BY ThreadsLeaveTheProcess DEF processVars, OfTest
<1>b. bridge \in Bridge
    BY <1>t DEF WorkerTypes
<1>1. CASE b # bridge
  <2>1. session' = session
      BY <1>t, <1>1, OtherSessions DEF Link
  <2>2. OthersSame(b)
      BY <1>t, TakeStep, AnswerStep, ConfusedStep, DieStep, FillStep, SignalStep DEF ThreadNext
  <2>3. Same(bridge)
      BY <1>b, <1>1, <2>2 DEF OthersSame
  <2>4. InStep'
      BY <1>u, <2>3 DEF InStep, Same, Still
  <2>5. OneTest'
      BY <1>u, <2>1, <2>3 DEF OneTest, OfThisTest, Same
  <2> QED BY <2>4, <2>5
<1>2. CASE b = bridge
  <2> USE <1>2
  <2>q. pc = "wait" /\ OfTest => request \in SoundRequest /\ request \in Request /\ request # None
      BY <1>t, Kinds DEF Owing, InRequest
  <2>w. ASSUME ~Still(bridge)
        PROVE  pc # "test" /\ ~(pc \in {"send", "posted"} /\ OfTest)
      BY <2>w DEF InStep
  <2>s. ASSUME NEW c \in Bridge, c # bridge, OthersSame(b)
        PROVE  session'[c] = session[c]
      BY <2>s DEF OthersSame, Same
  <2>1. CASE TakeRequest(b)
    <3>1. /\ thread[b] = "idle" /\ control[b] = STATE_REQUEST_READY
          /\ control'[b] = control[b] /\ data'[b] = data[b]
          /\ answer'[b] = answer[b] /\ session'[b] = session[b]
          /\ \/ asked'[b] = Framed(data[b]) /\ thread'[b] = "reading"
             \/ asked'[b] = asked[b] /\ thread'[b] \in {"deaf", "gone"}
          /\ OthersSame(b)
        BY <1>t, <2>1, TakeStep
    <3>2. pc # "test" /\ ~(pc \in {"send", "posted"} /\ OfTest)
        BY <2>w, <3>1 DEF Still
    <3>3. data[b] \in Content
        BY <1>t DEF WorkerTypes, Content
    <3>4. pc = "wait" /\ OfTest => asked'[b] \in {None, request}
        BY <2>q, <3>1, <3>3, FramedKind DEF InStep
    <3>5. InStep'
        BY <1>u, <3>1, <3>2, <3>4 DEF InStep
    <3>6. Framed(data[b]) \in Request => Framed(data[b]) = data[b]
        BY <3>3, FramedKind, Kinds
    <3>7. OfThisTest(asked[b]) /\ OfThisTest(data[b])
        BY <3>1 DEF OneTest
    <3>8. asked'[b] \in Request => asked'[b].command = "tsz/reset" \/ asked'[b].test = test
        BY <3>1, <3>6, <3>7 DEF OfThisTest
    <3>9. \A c \in Bridge : session'[c] = session[c]
        BY <2>s, <3>1
    <3>10. OneTest'
        BY <1>u, <1>b, <3>1, <3>7, <3>8, <3>9 DEF OneTest, OfThisTest
    <3> QED BY <3>5, <3>10
  <2>2. CASE ServerAnswers(b)
    <3>1. /\ asked[b] \in SoundRequest
          /\ control'[b] = control[b] /\ data'[b] = data[b] /\ thread'[b] = thread[b]
          /\ asked'[b] = None /\ answer'[b] = [to |-> asked[b]]
          /\ session'[b] = IF asked[b].command = "tsz/reset" THEN {} ELSE session[b] \cup {asked[b].test}
          /\ OthersSame(b)
        BY <1>t, <2>2, AnswerStep
    <3>2. asked[b] # None /\ asked[b] \in Request
        BY <3>1, Kinds
    <3>3. thread[b] = "reading"
        BY <1>t, <3>2 DEF Link
    <3>4. pc # "test" /\ ~(pc \in {"send", "posted"} /\ OfTest)
        BY <2>w, <3>3 DEF Still
    <3>5. pc = "wait" /\ OfTest => answer'[b] = [to |-> request]
        BY <3>1, <3>2 DEF InStep
    <3>6. InStep'
        BY <1>u, <3>1, <3>4, <3>5 DEF InStep
    <3>7. session'[b] \subseteq {test}
        BY <3>1, <3>2 DEF OneTest, OfThisTest
    <3>8. \A c \in Bridge : \A t, u \in session'[c] : t = u
        BY <2>s, <3>1, <3>7 DEF OneTest
    <3>9. OneTest'
        BY <1>u, <3>1, <3>7, <3>8, Kinds DEF OneTest, OfThisTest
    <3> QED BY <3>6, <3>9
  <2>3. CASE ServerIsConfused(b)
    <3>1. /\ asked[b] \in Garbage
          /\ control'[b] = control[b] /\ data'[b] = data[b] /\ thread'[b] = thread[b]
          /\ asked'[b] = None
          /\ session'[b] \in {{}, session[b]}
          /\ OthersSame(b)
        BY <1>t, <2>3, ConfusedStep
    <3>2. asked[b] # None /\ asked[b] \notin Request
        BY <3>1, Kinds
    <3>3. thread[b] = "reading"
        BY <1>t, <3>2 DEF Link
    <3>4. pc # "test" /\ ~(pc \in {"send", "posted"} /\ OfTest)
        BY <2>w, <3>3 DEF Still
    <3>5. ~(pc = "wait" /\ OfTest)
        BY <2>q, <3>2 DEF InStep
    <3>6. InStep'
        BY <1>u, <3>4, <3>5 DEF InStep
    <3>7. session'[b] \subseteq {test}
        BY <3>1 DEF OneTest
    <3>8. \A c \in Bridge : \A t, u \in session'[c] : t = u
        BY <2>s, <3>1, <3>7 DEF OneTest
    <3>9. OneTest'
        BY <1>u, <3>1, <3>7, <3>8, Kinds DEF OneTest, OfThisTest
    <3> QED BY <3>6, <3>9
  <2>4. CASE ServerDies(b)
    <3>1. /\ asked'[b] = None
          /\ control'[b] = control[b] /\ data'[b] = data[b] /\ thread'[b] = thread[b]
          /\ answer'[b] = answer[b] /\ session'[b] = session[b]
          /\ OthersSame(b)
        BY <1>t, <2>4, DieStep
    <3>2. InStep'
        BY <1>u, <3>1 DEF InStep, Still
    <3>3. \A c \in Bridge : session'[c] = session[c]
        BY <2>s, <3>1
    <3>4. OneTest'
        BY <1>u, <1>b, <3>1, <3>3, Kinds DEF OneTest, OfThisTest
    <3> QED BY <3>2, <3>4
  <2>5. CASE Fill(b)
    <3>1. /\ thread[b] = "reading" /\ thread'[b] = "filled" /\ answer'[b] = None
          /\ control'[b] = control[b]
          /\ asked'[b] = asked[b] /\ session'[b] = session[b]
          /\ ((answer[b] # None /\ data'[b] = answer[b]) \/ data'[b] \in Failure)
          /\ OthersSame(b)
        BY <1>t, <2>5, FillStep
    <3>2. pc # "test" /\ ~(pc \in {"send", "posted"} /\ OfTest)
        BY <2>w, <3>1 DEF Still
    <3>3. data'[b] \notin Request
        BY <1>t, <3>1, Kinds DEF WorkerTypes
    <3>4. pc = "wait" /\ OfTest /\ data'[b] \in Answer => data'[b].to = request
        BY <3>1, Kinds DEF InStep
    <3>5. InStep'
        BY <1>u, <3>1, <3>2, <3>4 DEF InStep
    <3>6. \A c \in Bridge : session'[c] = session[c]
        BY <2>s, <3>1
    <3>7. OneTest'
        BY <1>u, <1>b, <3>1, <3>3, <3>6 DEF OneTest, OfThisTest
    <3> QED BY <3>5, <3>7
  <2>6. CASE Signal(b)
    <3>1. /\ thread[b] = "filled"
          /\ control'[b] \in {STATE_RESPONSE_READY, STATE_ERROR}
          /\ data'[b] = data[b]
          /\ asked'[b] = asked[b] /\ answer'[b] = answer[b] /\ session'[b] = session[b]
          /\ OthersSame(b)
        BY <1>t, <2>6, SignalStep
    <3>2. pc # "test" /\ ~(pc \in {"send", "posted"} /\ OfTest)
        BY <2>w, <3>1 DEF Still
    <3>3. control'[b] # STATE_REQUEST_READY
        BY <3>1, StateNumbers
    <3>4. InStep'
        BY <1>u, <3>1, <3>2, <3>3 DEF InStep
    <3>5. \A c \in Bridge : session'[c] = session[c]
        BY <2>s, <3>1
    <3>6. OneTest'
        BY <1>u, <1>b, <3>1, <3>3, <3>5 DEF OneTest, OfThisTest
    <3> QED BY <3>4, <3>6
  <2> QED BY <2>1, <2>2, <2>3, <2>4, <2>5, <2>6 DEF ThreadNext
<1> QED BY <1>1, <1>2

LEMMA ProcessIsolated ==
    ASSUME WorkerInv, ProcessNext, InStep, OneTest, ~gave_up'
    PROVE  InStep' /\ OneTest'
<1>t. WorkerTypes /\ Owing /\ Bridges /\ Cleared
    BY DEF WorkerInv
<1>b. bridge \in Bridge /\ candidate \in Bridge
    BY <1>t DEF WorkerTypes
<1>l. Link(bridge)
    BY <1>t, <1>b DEF Bridges
<1>r. Still(bridge) => asked[bridge] = None /\ answer[bridge] = None
    BY <1>l DEF Link, Still
<1>1. CASE Refuse \/ TimeOut \/ Ask \/ Judge \/ Hang \/ StartTest \/ ResetSession \/ CheckMemory
  <2>1. AllSame /\ bridge' = bridge /\ pc' # "posted"
      BY <1>t, <1>1, PlainSteps
  <2>2. Same(bridge)
      BY <1>b, <2>1 DEF AllSame
  <2>3. \A b \in Bridge : session'[b] = session[b]
      BY <2>1 DEF AllSame, Same
  <2>4. ASSUME test' = test PROVE OneTest'
      BY <2>1, <2>2, <2>3, <2>4 DEF OneTest, OfThisTest, Same
  <2>5. CASE Refuse \/ TimeOut \/ Judge \/ Hang \/ CheckMemory
    <3>1. /\ test' = test /\ pc' \in {"restart", "reset", "hung", "next"}
          /\ pc' = "next" => pc = "cleaned" /\ cleaned' = cleaned
        BY <2>5 DEF Refuse, TimeOut, Judge, Hang, CheckMemory, Throws, Ended
    <3>2. InStep'
        BY <1>t, <3>1 DEF InStep, Cleared
    <3> QED BY <2>4, <3>1, <3>2
  <2>6. CASE Ask
    <3>1. test' = test /\ pc = "test" /\ pc' = "send"
        BY <2>6 DEF Ask
    <3>2. Still(bridge)'
        BY <2>1, <2>2, <3>1 DEF InStep, Same, Still
    <3>3. InStep'
        BY <3>1, <3>2 DEF InStep
    <3> QED BY <2>4, <3>1, <3>3
  <2>7. CASE ResetSession
    <3>1. test' = test /\ pc' = "send" /\ request'.command = "tsz/reset"
        BY <2>7 DEF ResetSession
    <3>2. InStep'
        BY <3>1 DEF InStep, OfTest
    <3> QED BY <2>4, <3>1, <3>2
  <2>8. CASE StartTest
    <3>1. pc = "next" /\ pc' = "test"
        BY <2>8 DEF StartTest
    <3>2. session[bridge] = {} /\ Still(bridge)
        BY <1>t, <3>1 DEF InStep, Cleared
    <3>3. Still(bridge)' /\ asked'[bridge] = None /\ control'[bridge] # STATE_REQUEST_READY
        BY <1>r, <2>1, <2>2, <3>2 DEF Still, Same
    <3>4. InStep'
        BY <3>1, <3>3 DEF InStep
    <3>5. session'[bridge'] = {}
        BY <2>1, <2>2, <3>2 DEF Same
    <3>6. OneTest'
        BY <2>1, <2>3, <3>1, <3>3, <3>5, Kinds DEF OneTest, OfThisTest
    <3> QED BY <3>4, <3>6
  <2> QED BY <1>1, <2>5, <2>6, <2>7, <2>8
<1>2. CASE Post
  <2>1. /\ pc = "send" /\ pc' = "posted" /\ UNCHANGED <<bridge, request, test>> /\ OthersSame(bridge)
        /\ data'[bridge] = request
        /\ control'[bridge] = control[bridge] /\ thread'[bridge] = thread[bridge]
        /\ asked'[bridge] = asked[bridge] /\ session'[bridge] = session[bridge]
      BY <1>t, <1>2, PostStep
  <2>2. InStep'
      BY <2>1 DEF InStep, Still, OfTest
  <2>3. OfThisTest(request)
      BY <1>t, <2>1 DEF Owing, InRequest, OfTest, OfThisTest
  <2>4. \A b \in Bridge : session'[b] = session[b]
      BY <2>1 DEF OthersSame, Same
  <2>5. OneTest'
      BY <1>b, <2>1, <2>3, <2>4 DEF OneTest, OfThisTest
  <2> QED BY <2>2, <2>5
<1>3. CASE Notify
  <2>1. /\ pc = "posted" /\ pc' = "wait" /\ UNCHANGED <<bridge, request, test>> /\ OthersSame(bridge)
        /\ data'[bridge] = data[bridge] /\ thread'[bridge] = thread[bridge]
        /\ asked'[bridge] = asked[bridge] /\ answer'[bridge] = answer[bridge]
        /\ session'[bridge] = session[bridge]
      BY <1>t, <1>3, NotifyStep DEF WordSet
  <2>2. OfTest => request \in Request
      BY <1>t, <2>1, Kinds DEF Owing, InRequest
  <2>3. OfTest => data[bridge] = request /\ asked[bridge] = None /\ answer[bridge] = None
      BY <1>r, <2>1 DEF InStep
  <2>4. InStep'
      BY <2>1, <2>2, <2>3, Kinds DEF InStep, OfTest
  <2>5. \A b \in Bridge : session'[b] = session[b]
      BY <2>1 DEF OthersSame, Same
  <2>6. OneTest'
      BY <1>b, <2>1, <2>5 DEF OneTest, OfThisTest
  <2> QED BY <2>4, <2>6
<1>4. CASE Receive
  <2>1. /\ pc = "wait" /\ UNCHANGED <<bridge, request, test>> /\ OthersSame(bridge)
        /\ control'[bridge] = STATE_IDLE
        /\ data'[bridge] = data[bridge] /\ thread'[bridge] = thread[bridge]
        /\ asked'[bridge] = asked[bridge] /\ session'[bridge] = session[bridge]
      BY <1>t, <1>4, ReceiveStep DEF WordSet
  <2>2. \/ control[bridge] = STATE_RESPONSE_READY /\ pc' \in {"test", "cleaned"}
        \/ pc' \in {"restart", "reset"}
      BY <1>t, <1>4, ReceiveStep
  <2>3. pc' = "test" => Still(bridge)'
      BY <1>l, <2>1, <2>2, StateNumbers DEF Link, Still
  <2>4. InStep'
      BY <2>2, <2>3 DEF InStep
  <2>5. \A b \in Bridge : session'[b] = session[b]
      BY <2>1 DEF OthersSame, Same
  <2>6. OneTest'
      BY <1>b, <2>1, <2>2, <2>5, StateNumbers DEF OneTest, OfThisTest
  <2> QED BY <2>4, <2>6
<1>5. CASE Restart
  <2>1. UNCHANGED <<bridge, test, session, asked, control, data>> /\ pc' = "starting"
      BY <1>5 DEF Restart, bridgeVars
  <2> QED BY <2>1 DEF InStep, OneTest, OfThisTest
<1>6. CASE StartFails
  <2>1. UNCHANGED <<bridge, test, session, asked, control, data>> /\ pc' \in {"boot", "starting"}
      BY <1>6 DEF StartFails
  <2> QED BY <2>1 DEF InStep, OneTest, OfThisTest
<1>7. CASE GiveUp
    BY <1>7 DEF GiveUp
<1>8. CASE Started
  <2>1. /\ pc \in {"boot", "starting"} /\ pc' = "next" /\ bridge' = candidate /\ cleaned' = "new"
        /\ UNCHANGED <<test, session>>
        /\ asked'[candidate] = asked[candidate] /\ control'[candidate] = control[candidate]
      BY <1>8, StartedStep
  <2>2. Fresh(candidate) /\ Link(candidate)
      BY <1>t, <1>b, <2>1 DEF Bridges, Unstarted
  <2>3. asked[candidate] = None /\ session[candidate] = {} /\ control[candidate] # STATE_REQUEST_READY
      BY <2>2, StateNumbers DEF Fresh, Link
  <2>4. InStep'
      BY <2>1 DEF InStep
  <2>5. OneTest'
      BY <2>1, <2>3, Kinds DEF OneTest, OfThisTest
  <2> QED BY <2>4, <2>5
<1>9. CASE Finish
  <2>1. /\ pc' = "done" /\ UNCHANGED <<bridge, test>>
        /\ Same(bridge) \/ Stopped(bridge)
        /\ OthersSame(bridge)
      BY <1>t, <1>9, FinishStep
  <2>2. /\ session'[bridge] = session[bridge]
        /\ asked'[bridge] \in {asked[bridge], None}
        /\ control'[bridge] = STATE_REQUEST_READY =>
              control[bridge] = STATE_REQUEST_READY /\ data'[bridge] = data[bridge]
      BY <2>1, StateNumbers DEF Same, Stopped
  <2>3. \A b \in Bridge : session'[b] = session[b]
      BY <2>1, <2>2 DEF OthersSame, Same
  <2>4. InStep'
      BY <2>1 DEF InStep
  <2>5. OneTest'
      BY <1>b, <2>1, <2>2, <2>3, Kinds DEF OneTest, OfThisTest
  <2> QED BY <2>4, <2>5
<1> QED BY <1>1, <1>2, <1>3, <1>4, <1>5, <1>6, <1>7, <1>8, <1>9 DEF ProcessNext

-----------------------------------------------------------------------------
(***************************************************************************)
(* The theorems.                                                            *)
(***************************************************************************)
LEMMA WorkerStepInv == WorkerInv /\ [WorkerNext]_workerVars => WorkerInv'
<1> SUFFICES ASSUME WorkerInv, [WorkerNext]_workerVars PROVE WorkerInv'
    OBVIOUS
<1>1. ASSUME NEW b \in Bridge, ThreadNext(b) PROVE WorkerInv'
  <2>1. UNCHANGED processVars
      BY <1>1, ThreadsLeaveTheProcess
  <2>2. WorkerTypes'
      BY <1>1, ThreadTypes
  <2>3. Owing'
      BY <2>1 DEF WorkerInv, Owing, OfTest, processVars
  <2>4. Bridges'
      BY <1>1, ThreadBridges
  <2>5. Cleared'
      BY <1>1, ThreadCleared
  <2>6. Isolated'
      BY <1>1, <2>1, ThreadIsolated DEF WorkerInv, Isolated, processVars
  <2>7. AnswersAreOwn'
      BY <2>1 DEF WorkerInv, AnswersAreOwn, processVars
  <2> QED BY <2>2, <2>3, <2>4, <2>5, <2>6, <2>7 DEF WorkerInv
<1>2. ASSUME ProcessNext PROVE WorkerInv'
  <2>1. WorkerTypes'
      BY <1>2, ProcessTypes, BridgeTypes DEF ProcessNext
  <2>2. Owing'
      BY <1>2, <2>1, ContractStep
  <2>3. Bridges'
      BY <1>2, ProcessBridges
  <2>4. Cleared'
      BY <1>2, ProcessCleared
  <2>5. AnswersAreOwn' /\ (gave_up => gave_up')
      BY <1>2, ProcessAnswers
  <2>6. Isolated'
      BY <1>2, <2>5, ProcessIsolated DEF WorkerInv, Isolated
  <2> QED BY <2>1, <2>2, <2>3, <2>4, <2>5, <2>6 DEF WorkerInv
<1>3. ASSUME UNCHANGED workerVars PROVE WorkerInv'
  <2>1. UNCHANGED <<pc, test, seq, request, bridge, candidate, told, gave_up, cleaned, taken>>
        /\ UNCHANGED <<control, data, thread, exited, posted, own_seq, up, asked, answer, session>>
      BY <1>3 DEF workerVars, processVars, bridgeVars
  <2>2. WorkerTypes' /\ Owing' /\ AnswersAreOwn'
      BY <2>1 DEF WorkerInv, WorkerTypes, Owing, OfTest, AnswersAreOwn
  <2>3. Bridges' /\ Cleared'
      BY <2>1 DEF WorkerInv, Bridges, Cleared, Link, ResetAnswers, IsReset, Unstarted, Fresh, Still
  <2>4. Isolated'
      BY <2>1 DEF WorkerInv, Isolated, InStep, OneTest, OfThisTest, OfTest, Still
  <2> QED BY <2>2, <2>3, <2>4 DEF WorkerInv
<1> QED BY <1>1, <1>2, <1>3 DEF WorkerNext

\* What is in flight between a test process and its bridges agrees in every state, for every
\* sequence of tests and every bound (sendRequest and mainLoop, tsz-adapter.cjs and tsz-worker.cjs).
THEOREM BridgesAgree == WorkerSpec => []WorkerInv
<1>1. WorkerInit => WorkerInv
    BY WorkerInitInv
<1>2. WorkerInv /\ [WorkerNext]_workerVars => WorkerInv'
    BY WorkerStepInv
<1> QED BY <1>1, <1>2, PTL DEF WorkerSpec

\* No test hears of another, however servers, threads and starts fail, until the process tells
\* the runner that it could not replace a bridge (resetSession, restartBridge, the number checks).
THEOREM TestsNeverMeet == WorkerSpec => []TestsAreIsolated
<1>1. WorkerInv => TestsAreIsolated
    BY DEF WorkerInv, TestsAreIsolated, Cleared, ResetLeavesNothing, SessionsAreIsolated, Isolated, OneTest
<1> QED BY <1>1, BridgesAgree, PTL

\* A process tells one result for each test it starts, in order, before the next and before it is
\* done: it implements the contract by which the runner counts (test-worker.cjs, runParallel).
THEOREM ProcessKeepsContract == WorkerSpec => KeepsContract
<1>1. /\ WorkerInv /\ WorkerInv'
      /\ [WorkerNext]_workerVars
      => [PlaceOf' # PlaceOf => Sends(PlaceOf, said', PlaceOf', Len(Tests))]_workerVars
  <2> SUFFICES ASSUME WorkerInv, WorkerInv', WorkerNext, PlaceOf' # PlaceOf
               PROVE  Sends(PlaceOf, said', PlaceOf', Len(Tests))
      OBVIOUS
  <2>1. ASSUME NEW b \in Bridge, ThreadNext(b) PROVE PlaceOf' = PlaceOf
      BY <2>1, ThreadsLeaveTheProcess DEF processVars, PlaceOf
  <2>2. ASSUME ProcessNext PROVE Sends(PlaceOf, said', PlaceOf', Len(Tests))
      BY <2>2, ContractStep DEF WorkerInv
  <2> QED BY <2>1, <2>2 DEF WorkerNext
<1> QED BY <1>1, BridgesAgree, PTL DEF WorkerSpec, KeepsContract

-----------------------------------------------------------------------------
(***************************************************************************)
(* The host of a test and the server.                                       *)
(***************************************************************************)
HostInv ==
    /\ script \in [Path -> Text \cup {Absent}]
    /\ disk \in [Path -> Text \cup {Absent}]
    /\ DOMAIN server = Path
    /\ ServerSeesTheHost

LEMMA HostInitInv == AdapterInit => HostInv
<1> SUFFICES ASSUME AdapterInit PROVE HostInv
    OBVIOUS
<1>1. PICK project \in Projects :
         /\ disk = project.disk
         /\ script = [p \in Path |-> IF p \in project.scripts THEN project.disk[p] ELSE Absent]
    BY DEF AdapterInit
<1>2. disk \in [Path -> Text \cup {Absent}]
    BY <1>1, AdapterAssumption
<1>3. script \in [Path -> Text \cup {Absent}]
    BY <1>1, <1>2
<1>4. server = InitiallyOpen(script)
    BY DEF AdapterInit
<1> QED BY <1>2, <1>3, <1>4 DEF HostInv, ServerSeesTheHost, InitiallyOpen, Scripts

\* A script that is sent is sent with the text it has.
LEMMA SentTexts ==
    ASSUME NEW scripts \in [Path -> Text \cup {Absent}], NEW ondisk \in [Path -> Text \cup {Absent}],
           NEW open \in SUBSET Path, NEW found, NEW f \in Path, NEW content \in Text \cup {Absent},
           content # Absent => scripts[f] = content
    PROVE  /\ DOMAIN Sent(f, content, open, scripts, ondisk, found) = Path
           /\ \A p \in Path \ Config : scripts[p] # Absent =>
                 LET sent == Sent(f, content, open, scripts, ondisk, found)[p]
                 IN /\ sent \in {scripts[p], Absent}
                    /\ p = f /\ content # Absent => sent = content
<1>1. \A p \in Path \ Config : p \notin Ancestors(f)
    BY AdapterAssumption
<1>2. \A p \in Path \ Config : scripts[p] # Absent => NotOpenYet(p, f, scripts, ondisk, found) = scripts[p]
    BY <1>1 DEF NotOpenYet
<1> QED BY <1>2 DEF Sent

LEMMA OpenFileSends ==
    ASSUME HostInv, NEW f \in Path \ Config, NEW content \in Text \cup {Absent}, NEW found,
           OpenFileWith(f, content, found)
    PROVE  HostInv'
<1> DEFINE scripts == IF content = Absent THEN script ELSE [script EXCEPT ![f] = content]
           ondisk == IF content # Absent /\ script[f] = Absent THEN [disk EXCEPT ![f] = content] ELSE disk
           closed == opened \ ({p \in Path : scripts[p] # Absent /\ p \in Root} \cup {f})
           open == (opened \ closed) \cap Path
<1>1. scripts \in [Path -> Text \cup {Absent}] /\ ondisk \in [Path -> Text \cup {Absent}]
    BY DEF HostInv
<1>2. content # Absent => scripts[f] = content
    BY DEF HostInv
<1>3. \A p \in Path : (p = f /\ content # Absent) \/ scripts[p] = script[p]
    BY DEF HostInv
<1> DEFINE texts == Sent(f, content, opened \ closed, scripts, ondisk, found)
<1>4. texts = Sent(f, content, open, scripts, ondisk, found)
    BY DEF Sent
<1>5. script' = scripts /\ disk' = ondisk /\ server' = Told(Without(server, closed), texts)
    BY DEF OpenFileWith
<1>6. \A p \in Path \ Config : scripts[p] # Absent =>
         /\ texts[p] \in {scripts[p], Absent}
         /\ p = f /\ content # Absent => texts[p] = content
    BY <1>1, <1>2, <1>4, SentTexts
<1> HIDE DEF scripts, ondisk, texts
<1>7. DOMAIN server' = Path
    BY <1>5 DEF Told
<1>8. ASSUME NEW p \in Path \ Config, scripts[p] # Absent
      PROVE  server'[p] \in {scripts[p], Absent}
  <2>1. server'[p] = IF texts[p] # Absent THEN texts[p]
                     ELSE IF p \in closed THEN Absent ELSE server[p]
      BY <1>5, <1>8 DEF Told, Without
  <2>2. CASE texts[p] # Absent
      BY <1>6, <1>8, <2>1, <2>2
  <2>3. CASE texts[p] = Absent
    <3>1. scripts[p] = script[p]
        BY <1>3, <1>6, <1>8, <2>3
    <3>2. server[p] \in {script[p], Absent}
        BY <1>8, <3>1 DEF HostInv, ServerSeesTheHost, Scripts
    <3> QED BY <2>1, <2>3, <3>1, <3>2
  <2> QED BY <2>2, <2>3
<1> QED BY <1>1, <1>5, <1>7, <1>8 DEF HostInv, ServerSeesTheHost, Scripts

LEMMA HostStepInv == HostInv /\ [AdapterNext]_adapterVars => HostInv'
<1> SUFFICES ASSUME HostInv, [AdapterNext]_adapterVars PROVE HostInv'
    OBVIOUS
<1>1. CASE OpenFile
    BY <1>1, OpenFileSends DEF OpenFile
<1>2. CASE RenameInfo
  <2>1. PICK f \in Scripts \ Config : OpenFileWith(f, script[f], known')
      BY <1>2 DEF RenameInfo
  <2>2. f \in Path \ Config /\ script[f] \in Text \cup {Absent}
      BY <2>1 DEF Scripts, HostInv
  <2> QED BY <2>1, <2>2, OpenFileSends
<1>3. CASE EditScript
  <2>1. PICK f \in Scripts \ Config, text \in Text :
           /\ script' = [script EXCEPT ![f] = text]
           /\ disk' = [disk EXCEPT ![f] = text]
           /\ server' = [server EXCEPT ![f] =
                  CASE server[f] = Absent -> Absent [] server[f] = script[f] -> text [] OTHER -> Spoilt]
      BY <1>3 DEF EditScript
  <2>2. f \in Path \ Config /\ script[f] # Absent /\ server[f] \in {script[f], Absent}
      BY <2>1 DEF Scripts, HostInv, ServerSeesTheHost
  <2>3. /\ server'[f] \in {text, Absent} /\ DOMAIN server' = Path
        /\ \A p \in Path \ {f} : server'[p] = server[p]
    <3>1. CASE server[f] = Absent
        BY <2>1, <2>2, <3>1 DEF HostInv
    <3>2. CASE server[f] = script[f]
        BY <2>1, <2>2, <3>2 DEF HostInv
    <3> QED BY <2>2, <3>1, <3>2
  <2>4. /\ script' \in [Path -> Text \cup {Absent}] /\ disk' \in [Path -> Text \cup {Absent}]
        /\ script'[f] = text /\ \A p \in Path \ {f} : script'[p] = script[p]
      BY <2>1, <2>2 DEF HostInv
  <2> QED BY <2>2, <2>3, <2>4 DEF HostInv, ServerSeesTheHost, Scripts
<1>4. CASE RenameFile
  <2>1. PICK old \in Scripts \ Config, new \in Path \ Config :
           /\ script[new] = Absent /\ disk[new] = Absent /\ server[new] = Absent
           /\ script' = [script EXCEPT ![new] = script[old], ![old] = Absent]
           /\ disk' = [disk EXCEPT ![new] = disk[old], ![old] = Absent]
           /\ server' = server
      BY <1>4 DEF RenameFile
  <2>2. /\ script' \in [Path -> Text \cup {Absent}] /\ disk' \in [Path -> Text \cup {Absent}]
        /\ \A p \in Path \ {old, new} : script'[p] = script[p]
        /\ script'[old] = Absent
      BY <2>1 DEF HostInv, Scripts
  <2> QED BY <2>1, <2>2 DEF HostInv, ServerSeesTheHost, Scripts
<1>5. CASE UNCHANGED adapterVars
    BY <1>5 DEF HostInv, ServerSeesTheHost, Scripts, adapterVars
<1> QED BY <1>1, <1>2, <1>3, <1>4, <1>5 DEF AdapterNext

\* A script that is open in the server has the text the host has, for every project and every
\* sequence of openings, edits and renames (openFile, editScript, tsz-adapter.cjs).
THEOREM ServerAgreesWithHost == AdapterSpec => []ServerSeesTheHost
<1>1. HostInv => ServerSeesTheHost
    BY DEF HostInv
<1> QED BY <1>1, HostInitInv, HostStepInv, PTL DEF AdapterSpec

-----------------------------------------------------------------------------
(***************************************************************************)
(* Numbers one by one: as a fact about a set of numbers, for no prover takes   *)
(* a property as a parameter.                                                  *)
(***************************************************************************)
\* What holds of a number when it holds of all smaller ones holds of all.
LEMMA Complete ==
    ASSUME NEW ns, \A n \in Nat : (\A m \in Nat : m < n => m \in ns) => n \in ns
    PROVE  Nat \subseteq ns
<1> DEFINE Less == OpToRel(<, Nat)
           rest == Nat \ ns
<1> SUFFICES ASSUME rest # {} PROVE FALSE
    OBVIOUS
<1>1. IsWellFoundedOn(Less, Nat)
    BY NatLessThanWellFounded
<1>2. PICK n \in rest : \A m \in rest : ~(<<m, n>> \in Less)
  <2>1. rest \in SUBSET Nat /\ rest # {}
      OBVIOUS
  <2> HIDE DEF Less, rest
  <2> QED BY <1>1, <2>1, WFMin
<1>3. \A m \in Nat : m < n => m \in ns
    BY <1>2 DEF OpToRel
<1> QED BY <1>2, <1>3

\* The same one by one.
LEMMA OneByOne ==
    ASSUME NEW ns, 0 \in ns, \A n \in Nat : n \in ns => n + 1 \in ns
    PROVE  Nat \subseteq ns
<1>1. ASSUME NEW n \in Nat, \A m \in Nat : m < n => m \in ns
      PROVE  n \in ns
  <2>1. CASE n = 0
      BY <2>1
  <2>2. CASE n # 0
    <3>1. n - 1 \in Nat /\ n - 1 < n /\ (n - 1) + 1 = n
        BY <2>2
    <3> QED BY <1>1, <3>1
  <2> QED BY <2>1, <2>2
<1> QED BY <1>1, Complete


-----------------------------------------------------------------------------
(***************************************************************************)
(* Sorting: a finite set has its members in an order, a relation R between them. *)
(***************************************************************************)
IsOrder(R, S) ==
    /\ \A x, y \in S : x # y => <<x, y>> \in R \/ <<y, x>> \in R
    /\ \A x, y, z \in S : <<x, y>> \in R /\ <<y, z>> \in R => <<x, z>> \in R
    /\ \A x \in S : <<x, x>> \notin R

\* One member comes after all others.
LEMMA HasLast ==
    ASSUME NEW S, IsFiniteSet(S), S # {}, NEW R, IsOrder(R, S)
    PROVE  \E x \in S : \A y \in S \ {x} : <<y, x>> \in R
<1> DEFINE Ends(T) == \E x \in T : \A y \in T \ {x} : <<y, x>> \in R
           ns == {n \in Nat : \A T \in SUBSET S : Cardinality(T) = n /\ T # {} => Ends(T)}
<1>1. \A T \in SUBSET S : IsFiniteSet(T) /\ Cardinality(T) \in Nat
    BY FS_Subset, FS_CardinalityType
<1>2. 0 \in ns
    BY <1>1, FS_EmptySet
<1>3. ASSUME NEW n \in Nat, n \in ns PROVE n + 1 \in ns
  <2> SUFFICES ASSUME NEW T \in SUBSET S, Cardinality(T) = n + 1, T # {} PROVE Ends(T)
      OBVIOUS
  <2>1. PICK x \in T : TRUE
      OBVIOUS
  <2>2. PICK V : V = T \ {x} /\ V \in SUBSET S
      OBVIOUS
  <2>3. Cardinality(V) = n
    <3>1. Cardinality(T \ {x}) = Cardinality(T) - 1
        BY <1>1, <2>1, FS_RemoveElement
    <3> QED BY <2>2, <3>1
  <2>4. CASE V = {}
      BY <2>1, <2>2, <2>4
  <2>5. CASE V # {}
    <3>1. PICK z \in V : \A y \in V \ {z} : <<y, z>> \in R
        BY <1>3, <2>2, <2>3, <2>5
    <3>2. x \in S /\ z \in S /\ x # z
        BY <2>1, <2>2, <3>1
    <3>3. CASE <<x, z>> \in R
        BY <2>2, <3>1, <3>3
    <3>4. CASE <<z, x>> \in R
      <4>1. \A y \in T \ {x} : <<y, x>> \in R
        <5> TAKE y \in T \ {x}
        <5>1. CASE y = z
            BY <3>4, <5>1
        <5>2. CASE y # z
          <6>1. y \in V \ {z} /\ y \in S
              BY <2>2, <5>2
          <6>2. <<y, z>> \in R
              BY <3>1, <6>1
          <6> QED BY <3>2, <3>4, <6>1, <6>2 DEF IsOrder
        <5> QED BY <5>1, <5>2
      <4> QED BY <2>1, <4>1
    <3> QED BY <3>2, <3>3, <3>4 DEF IsOrder
  <2> QED BY <2>4, <2>5
<1>4. Nat \subseteq ns
  <2>1. \A n \in Nat : n \in ns => n + 1 \in ns
      BY <1>3
  <2> HIDE DEF ns
  <2> QED BY <1>2, <2>1, OneByOne
<1> QED BY <1>1, <1>4

\* All members have their place.
LEMMA CanBeSorted ==
    ASSUME NEW S, IsFiniteSet(S), NEW R, IsOrder(R, S)
    PROVE  \E s : s \in [1..Cardinality(S) -> S] /\ \A i, j \in 1..Cardinality(S) : i < j => <<s[i], s[j]>> \in R
<1> DEFINE Rises(T, n, s) == s \in [1..n -> T] /\ \A i, j \in 1..n : i < j => <<s[i], s[j]>> \in R
           ns == {n \in Nat : \A T \in SUBSET S : Cardinality(T) = n => \E s : Rises(T, n, s)}
<1>1. \A T \in SUBSET S : IsFiniteSet(T) /\ Cardinality(T) \in Nat
    BY FS_Subset, FS_CardinalityType
<1>2. 0 \in ns
  <2> SUFFICES ASSUME NEW T \in SUBSET S, Cardinality(T) = 0 PROVE \E s : Rises(T, 0, s)
      OBVIOUS
  <2>1. [i \in {} |-> i] \in [{} -> T] /\ 1..0 = {}
      OBVIOUS
  <2>2. Rises(T, 0, [i \in {} |-> i])
      BY <2>1
  <2> HIDE DEF Rises
  <2> QED BY <2>2
<1>3. ASSUME NEW n \in Nat, n \in ns PROVE n + 1 \in ns
  <2> SUFFICES ASSUME NEW T \in SUBSET S, Cardinality(T) = n + 1 PROVE \E s : Rises(T, n + 1, s)
      OBVIOUS
  <2>1. PICK x \in T : \A y \in T \ {x} : <<y, x>> \in R
    <3>1. IsFiniteSet(T) /\ T # {} /\ IsOrder(R, T)
      <4>1. T # {}
          BY FS_EmptySet
      <4>2. IsOrder(R, T)
          BY DEF IsOrder
      <4> QED BY <1>1, <4>1, <4>2
    <3> QED BY <3>1, HasLast
  <2>2. PICK V : V = T \ {x} /\ V \in SUBSET S
      OBVIOUS
  <2>3. Cardinality(V) = n
    <3>1. Cardinality(T \ {x}) = Cardinality(T) - 1
        BY <1>1, <2>1, FS_RemoveElement
    <3> QED BY <2>2, <3>1
  <2>4. PICK s : Rises(V, n, s)
      BY <1>3, <2>2, <2>3
  <2>5. s \in [1..n -> V] /\ \A i, j \in 1..n : i < j => <<s[i], s[j]>> \in R
      BY <2>4
  <2> DEFINE r == [i \in 1..(n + 1) |-> IF i = n + 1 THEN x ELSE s[i]]
  <2>6. \A i \in 1..(n + 1) : i # n + 1 => i \in 1..n /\ s[i] \in V
      BY <2>5
  <2>7. r \in [1..(n + 1) -> T]
      BY <2>1, <2>2, <2>6
  <2>8. ASSUME NEW i \in 1..(n + 1), NEW j \in 1..(n + 1), i < j PROVE <<r[i], r[j]>> \in R
    <3>1. i # n + 1 /\ i \in 1..n
        BY <2>8
    <3>2. r[i] = s[i] /\ s[i] \in T \ {x}
        BY <2>2, <2>6, <3>1
    <3>3. CASE j = n + 1
        BY <2>1, <3>2, <3>3
    <3>4. CASE j # n + 1
        BY <2>5, <2>6, <2>8, <3>1, <3>2, <3>4
    <3> QED BY <3>3, <3>4
  <2> HIDE DEF r
  <2>9. Rises(T, n + 1, r)
      BY <2>7, <2>8
  <2> HIDE DEF Rises
  <2> QED BY <2>9
<1>4. Nat \subseteq ns
  <2>1. \A n \in Nat : n \in ns => n + 1 \in ns
      BY <1>3
  <2> HIDE DEF ns
  <2> QED BY <1>2, <2>1, OneByOne
<1>5. \E s : Rises(S, Cardinality(S), s)
  <2>1. Cardinality(S) \in Nat /\ S \in SUBSET S
      BY <1>1
  <2>2. Cardinality(S) \in ns
    <3> HIDE DEF ns
    <3> QED BY <1>4, <2>1
  <2> HIDE DEF Rises
  <2> QED BY <2>1, <2>2
<1> QED BY <1>5

\* Numbers by a weight, and by themselves where it is the same.
LEMMA ByWeight ==
    ASSUME NEW S, IsFiniteSet(S), S \subseteq Nat, NEW w, \A t \in S : w[t] \in Int
    PROVE  \E s \in [1..Cardinality(S) -> S] : \A i, j \in DOMAIN s : i < j =>
               w[s[i]] < w[s[j]] \/ (w[s[i]] = w[s[j]] /\ s[i] < s[j])
<1> DEFINE R == {p \in S \X S : w[p[1]] < w[p[2]] \/ (w[p[1]] = w[p[2]] /\ p[1] < p[2])}
<1>1. \A x, y \in S : <<x, y>> \in R <=> w[x] < w[y] \/ (w[x] = w[y] /\ x < y)
    OBVIOUS
<1> HIDE DEF R
<1>2. IsOrder(R, S)
  <2>1. \A x \in S : x \in Int /\ w[x] \in Int
      OBVIOUS
  <2>2. \A x, y \in S : x # y => <<x, y>> \in R \/ <<y, x>> \in R
      BY <1>1, <2>1
  <2>3. \A x, y, z \in S : <<x, y>> \in R /\ <<y, z>> \in R => <<x, z>> \in R
    <3> TAKE x \in S, y \in S, z \in S
    <3>1. PICK p, q, r : p = w[x] /\ q = w[y] /\ r = w[z] /\ p \in Int /\ q \in Int /\ r \in Int
        BY <2>1
    <3>2. /\ <<x, y>> \in R <=> p < q \/ (p = q /\ x < y)
          /\ <<y, z>> \in R <=> q < r \/ (q = r /\ y < z)
          /\ <<x, z>> \in R <=> p < r \/ (p = r /\ x < z)
        BY <1>1, <3>1
    <3>3. x \in Int /\ y \in Int /\ z \in Int
        BY <2>1
    <3> QED BY ONLY <3>1, <3>2, <3>3
  <2>4. \A x \in S : <<x, x>> \notin R
      BY <1>1, <2>1
  <2> QED BY <2>2, <2>3, <2>4 DEF IsOrder
<1>3. PICK c : c = Cardinality(S)
    OBVIOUS
<1>4. PICK s : s \in [1..c -> S] /\ \A i, j \in 1..c : i < j => <<s[i], s[j]>> \in R
    BY <1>2, <1>3, CanBeSorted
<1>5. \A i, j \in 1..c : i < j => w[s[i]] < w[s[j]] \/ (w[s[i]] = w[s[j]] /\ s[i] < s[j])
    BY <1>1, <1>4
<1> QED BY <1>3, <1>4, <1>5

\* What is sorted has every member once.
LEMMA SortedOnce ==
    ASSUME NEW S, IsFiniteSet(S), NEW s \in [1..Cardinality(S) -> S],
           \A i, j \in DOMAIN s : i < j => s[i] # s[j]
    PROVE  /\ Cardinality(S) \in Nat /\ s \in Seq(S) /\ Len(s) = Cardinality(S) /\ DOMAIN s = 1..Len(s)
           /\ \A x \in S : \E i \in 1..Len(s) : s[i] = x
           /\ \A i, j \in 1..Len(s) : s[i] = s[j] => i = j
<1>1. PICK c : c = Cardinality(S) /\ c \in Nat
    BY FS_CardinalityType
<1>2. DOMAIN s = 1..c /\ s \in Seq(S) /\ Len(s) = c
    BY <1>1
<1>3. \A i, j \in 1..c : s[i] = s[j] => i = j
  <2> TAKE i \in 1..c, j \in 1..c
  <2>1. i < j \/ j < i \/ i = j
      BY <1>1
  <2> QED BY <1>2, <2>1
<1>4. s \in Injection(1..c, S)
    BY <1>1, <1>3 DEF Injection, IsInjective
<1>5. Cardinality(1..c) = c
    BY <1>1, FS_Interval
<1>6. s \in Surjection(1..c, S)
    BY <1>1, <1>4, <1>5, FS_Injection
<1> QED BY <1>1, <1>2, <1>3, <1>6 DEF Surjection

\* The largest of a set of numbers.
LEMMA Largest ==
    ASSUME NEW n \in Nat, NEW S \in SUBSET (1..n), S # {}
    PROVE  Max(S) \in S /\ \A i \in S : i <= Max(S)
<1> DEFINE ns == {k \in Nat : k <= n => (S \cap 1..k = {} \/ \E m \in S \cap 1..k : \A i \in S \cap 1..k : i <= m)}
<1>1. 0 \in ns
    OBVIOUS
<1>2. ASSUME NEW k \in Nat, k \in ns, k + 1 <= n
      PROVE  S \cap 1..(k + 1) = {} \/ \E m \in S \cap 1..(k + 1) : \A i \in S \cap 1..(k + 1) : i <= m
  <2>1. \A i \in 1..(k + 1) : i \in 1..k \/ i = k + 1
      OBVIOUS
  <2>2. 1..k \subseteq 1..(k + 1) /\ k + 1 \in 1..(k + 1) /\ k <= n
      BY <1>2
  <2>3. CASE k + 1 \in S
    <3>1. \A i \in 1..(k + 1) : i <= k + 1
        OBVIOUS
    <3> QED BY <2>2, <2>3, <3>1
  <2>4. CASE k + 1 \notin S
    <3>1. S \cap 1..(k + 1) = S \cap 1..k
        BY <2>1, <2>2, <2>4
    <3>2. S \cap 1..k = {} \/ \E m \in S \cap 1..k : \A i \in S \cap 1..k : i <= m
        BY <1>2, <2>2
    <3> QED BY <3>1, <3>2
  <2> QED BY <2>3, <2>4
<1>3. Nat \subseteq ns
  <2>1. \A k \in Nat : k \in ns => k + 1 \in ns
      BY <1>2
  <2> HIDE DEF ns
  <2> QED BY <1>1, <2>1, OneByOne
<1>4. n \in ns /\ S \cap 1..n = S
    BY <1>3
<1>5. \E m \in S : \A i \in S : i <= m
    BY <1>4
<1>6. \A i \in S : i \in Int
    OBVIOUS
<1>7. \E x \in S : \A y \in S : x >= y
    BY <1>5, <1>6
<1>8. Max(S) \in S /\ \A y \in S : Max(S) >= y
    BY <1>7 DEF Max
<1> QED BY <1>6, <1>8

-----------------------------------------------------------------------------
(***************************************************************************)
(* Folds.  A fold is a function on the sets of places, given by an equation: it *)
(* has to be shown that there is one.  What a fold does with a place is a       *)
(* function g here.                                                             *)
(***************************************************************************)
Body(g, base, f, T) == IF T = {} THEN base ELSE g[<<f[T \ {Max(T)}], Max(T)>>]

\* Such a fold over n places, its values in A.
IsFold(A, n, g, base, f) ==
    f \in [SUBSET (1..n) -> A] /\ \A T \in SUBSET (1..n) : f[T] = Body(g, base, f, T)

\* What is computed one place at a time, the last place first, is a function.
LEMMA FoldExists ==
    ASSUME NEW A, NEW base \in A, NEW n \in Nat, NEW g \in [A \X (1..n) -> A]
    PROVE  \E f : IsFold(A, n, g, base, f)
<1> DEFINE F == [SUBSET (1..n) -> A]
           Good(k, f) == \A T \in SUBSET (1..n) : T \subseteq 1..k => f[T] = Body(g, base, f, T)
           ns == {k \in Nat : \E f \in F : Good(k, f)}
<1>1. 0 \in ns
  <2> DEFINE f == [T \in SUBSET (1..n) |-> base]
  <2>1. f \in F
      OBVIOUS
  <2>2. \A T : T \subseteq 1..0 => T = {}
      OBVIOUS
  <2>3. Good(0, f)
      BY <2>2 DEF Body
  <2> HIDE DEF f, F, Good
  <2> QED BY <2>1, <2>3
<1>2. ASSUME NEW k \in Nat, k \in ns PROVE k + 1 \in ns
  <2>1. PICK f \in F : Good(k, f)
      BY <1>2
  <2> DEFINE h == [T \in SUBSET (1..n) |-> Body(g, base, f, T)]
  <2>2. ASSUME NEW T \in SUBSET (1..n), T # {}
        PROVE  Max(T) \in T /\ Max(T) \in 1..n /\ T \ {Max(T)} \in SUBSET (1..n) /\ \A i \in T : i <= Max(T)
    <3>1. Max(T) \in T /\ \A i \in T : i <= Max(T)
        BY <2>2, Largest
    <3> QED BY <3>1
  <2>3. h \in F
    <3>1. \A T \in SUBSET (1..n) : Body(g, base, f, T) \in A
      <4> TAKE T \in SUBSET (1..n)
      <4>1. CASE T = {}
          BY <4>1 DEF Body
      <4>2. CASE T # {}
        <5>1. f[T \ {Max(T)}] \in A /\ Max(T) \in 1..n
            BY <2>1, <2>2, <4>2
        <5> QED BY <4>2, <5>1 DEF Body
      <4> QED BY <4>1, <4>2
    <3> QED BY <3>1
  <2>4. \A T \in SUBSET (1..n) : h[T] = Body(g, base, f, T)
      OBVIOUS
  <2> HIDE DEF h
  <2>5. ASSUME NEW T \in SUBSET (1..n), T \subseteq 1..(k + 1)
        PROVE  h[T] = Body(g, base, h, T)
    <3>1. CASE T = {}
        BY <2>4, <3>1 DEF Body
    <3>2. CASE T # {}
      <4>1. PICK m, V : m = Max(T) /\ V = T \ {Max(T)}
          OBVIOUS
      <4>2. m \in T /\ V = T \ {m} /\ V \in SUBSET (1..n) /\ \A i \in T : i <= m
          BY <2>2, <3>2, <4>1
      <4>3. V \subseteq 1..k
        <5> SUFFICES ASSUME NEW i \in V PROVE i \in 1..k
            OBVIOUS
        <5>1. i \in 1..(k + 1) /\ m \in 1..(k + 1) /\ i # m /\ i <= m
            BY <2>5, <4>2
        <5> QED BY <5>1
      <4>4. f[V] = Body(g, base, f, V)
          BY <2>1, <4>2, <4>3
      <4>5. h[V] = f[V]
          BY <2>4, <4>2, <4>4
      <4> QED BY <2>4, <3>2, <4>1, <4>5 DEF Body
    <3> QED BY <3>1, <3>2
  <2>6. Good(k + 1, h)
      BY <2>5
  <2> HIDE DEF F, Good
  <2> QED BY <2>3, <2>6
<1>3. n \in ns
  <2>1. \A k \in Nat : k \in ns => k + 1 \in ns
      BY <1>2
  <2> HIDE DEF ns
  <2> QED BY <1>1, <2>1, OneByOne
<1>4. PICK f \in F : Good(n, f)
    BY <1>3
<1>5. IsFold(A, n, g, base, f)
    BY <1>4 DEF IsFold
<1> QED BY <1>5

\* The places up to one.
LEMMA MaxUpTo ==
    ASSUME NEW n \in Nat, NEW k \in 0..(n - 1)
    PROVE  /\ 1..(k + 1) \in SUBSET (1..n) /\ 1..(k + 1) # {}
           /\ Max(1..(k + 1)) = k + 1 /\ 1..(k + 1) \ {k + 1} = 1..k
<1>1. k \in Nat /\ k < n
    OBVIOUS
<1>2. PICK T : T = 1..(k + 1)
    OBVIOUS
<1>3. T \in SUBSET (1..n) /\ k + 1 \in T /\ \A i \in T : i <= k + 1 /\ i \in Nat
    BY <1>1, <1>2
<1>4. Max(T) \in T /\ k + 1 <= Max(T)
    BY <1>3, Largest
<1>5. Max(T) = k + 1
  <2>1. PICK m : m = Max(T)
      OBVIOUS
  <2>2. m \in Nat /\ m <= k + 1 /\ k + 1 <= m
      BY <1>3, <1>4, <2>1
  <2> QED BY <1>1, <2>1, <2>2
<1>6. T \ {k + 1} = 1..k
    BY <1>1, <1>2
<1> QED BY <1>2, <1>3, <1>5, <1>6

-----------------------------------------------------------------------------
(***************************************************************************)
(* The weight of a list of tests.                                              *)
(***************************************************************************)
Sums(w, q) ==
    CHOOSE f : f = [T \in SUBSET DOMAIN q |->
                       IF T = {} THEN 0 ELSE f[T \ {Max(T)}] + WeightOf(w, q[Max(T)])]

\* The sums of weights are so computed.
LEMMA SumsAre ==
    ASSUME NEW w, NEW S, \A t \in S : WeightOf(w, t) \in Nat, NEW q \in Seq(S)
    PROVE  /\ Sums(w, q)[1..0] = 0 /\ Total(w, q) = Sums(w, q)[1..Len(q)]
           /\ \A k \in 0..(Len(q) - 1) : Sums(w, q)[1..(k + 1)] = Sums(w, q)[1..k] + WeightOf(w, q[k + 1])
           /\ \A k \in 0..Len(q) : Sums(w, q)[1..k] \in Nat
<1>1. PICK n : n = Len(q) /\ n \in Nat /\ DOMAIN q = 1..n /\ \A i \in 1..n : q[i] \in S
    OBVIOUS
<1>2. PICK g : g = [p \in Nat \X (1..n) |-> p[1] + WeightOf(w, q[p[2]])]
    OBVIOUS
<1>3. g \in [Nat \X (1..n) -> Nat]
  <2>1. \A p \in Nat \X (1..n) : p[1] \in Nat /\ q[p[2]] \in S
      BY <1>1
  <2>2. \A p \in Nat \X (1..n) : p[1] + WeightOf(w, q[p[2]]) \in Nat
      BY <2>1
  <2> QED BY <1>2, <2>2
<1>4. PICK h \in [SUBSET (1..n) -> Nat] : \A T \in SUBSET (1..n) : h[T] = Body(g, 0, h, T)
  <2>1. PICK A, z : A = Nat /\ z = 0
      OBVIOUS
  <2>2. z \in A /\ n \in Nat /\ g \in [A \X (1..n) -> A]
      BY <1>1, <1>3, <2>1
  <2>3. \E h : IsFold(A, n, g, z, h)
      BY <2>2, FoldExists
  <2>4. PICK h : IsFold(A, n, g, z, h)
      BY <2>3
  <2>5. h \in [SUBSET (1..n) -> A] /\ \A T \in SUBSET (1..n) : h[T] = Body(g, z, h, T)
      BY <2>4 DEF IsFold
  <2> QED BY <2>1, <2>5
<1>5. \A T \in SUBSET (1..n) : T # {} => Max(T) \in 1..n /\ T \ {Max(T)} \in SUBSET (1..n)
    BY <1>1, Largest
<1>6. \A x \in Nat, i \in 1..n : g[<<x, i>>] = x + WeightOf(w, q[i])
    BY <1>2
<1>7. \A T \in SUBSET (1..n) :
          h[T] = IF T = {} THEN 0 ELSE h[T \ {Max(T)}] + WeightOf(w, q[Max(T)])
    BY <1>4, <1>5, <1>6 DEF Body
<1>8. h = [T \in SUBSET (1..n) |-> IF T = {} THEN 0 ELSE h[T \ {Max(T)}] + WeightOf(w, q[Max(T)])]
    BY <1>4, <1>7
<1>9. PICK f : f = Sums(w, q)
    OBVIOUS
<1>10. f = [T \in SUBSET (1..n) |-> IF T = {} THEN 0 ELSE f[T \ {Max(T)}] + WeightOf(w, q[Max(T)])]
    BY <1>1, <1>8, <1>9 DEF Sums
<1>11. f[1..0] = 0
  <2>1. 1..0 = {} /\ {} \in SUBSET (1..n)
      OBVIOUS
  <2> QED BY <1>10, <2>1
<1>12. ASSUME NEW k \in 0..(n - 1) PROVE f[1..(k + 1)] = f[1..k] + WeightOf(w, q[k + 1])
  <2>1. PICK T : T = 1..(k + 1)
      OBVIOUS
  <2>2. T \in SUBSET (1..n) /\ T # {} /\ Max(T) = k + 1 /\ T \ {k + 1} = 1..k
      BY <1>1, <2>1, MaxUpTo
  <2> QED BY <1>10, <2>1, <2>2
<1>13. \A k \in 0..n : f[1..k] \in Nat
  <2> DEFINE ns == {k \in Nat : k <= n => f[1..k] \in Nat}
  <2>1. 0 \in ns
      BY <1>11
  <2>2. ASSUME NEW k \in Nat, k \in ns PROVE k + 1 \in ns
    <3> SUFFICES ASSUME k + 1 <= n PROVE f[1..(k + 1)] \in Nat
        OBVIOUS
    <3>1. k \in 0..(n - 1) /\ k <= n /\ k + 1 \in 1..n
        BY <1>1
    <3>2. f[1..k] \in Nat /\ WeightOf(w, q[k + 1]) \in Nat
        BY <1>1, <2>2, <3>1
    <3> QED BY <1>12, <3>1, <3>2
  <2>3. Nat \subseteq ns
    <3>1. \A k \in Nat : k \in ns => k + 1 \in ns
        BY <2>2
    <3> HIDE DEF ns
    <3> QED BY <2>1, <3>1, OneByOne
  <2> QED BY <1>1, <2>3
<1>14. Total(w, q) = f[1..n]
  <2>1. Total(w, q) = Sums(w, q)[DOMAIN q]
      BY DEF Total, FoldLeft, MapThenFoldSet, Sums
  <2> QED BY <1>1, <1>9, <2>1
<1> QED BY <1>1, <1>9, <1>11, <1>12, <1>13, <1>14

\* Nothing weighs nothing, and one test more adds its weight.
LEMMA TotalIs ==
    ASSUME NEW w, NEW S, \A t \in S : WeightOf(w, t) \in Nat, NEW q \in Seq(S)
    PROVE  /\ Total(w, q) \in Nat
           /\ q = <<>> => Total(w, q) = 0
           /\ \A t \in S : Total(w, Append(q, t)) = Total(w, q) + WeightOf(w, t)
<1>1. PICK n, f : n = Len(q) /\ n \in Nat /\ f = Sums(w, q)
    OBVIOUS
<1>2. /\ f[1..0] = 0 /\ Total(w, q) = f[1..n]
      /\ \A k \in 0..(n - 1) : f[1..(k + 1)] = f[1..k] + WeightOf(w, q[k + 1])
      /\ \A k \in 0..n : f[1..k] \in Nat
    BY <1>1, SumsAre
<1>3. Total(w, q) \in Nat
    BY <1>1, <1>2
<1>4. q = <<>> => Total(w, q) = 0
    BY <1>1, <1>2
<1>5. ASSUME NEW t \in S PROVE Total(w, Append(q, t)) = Total(w, q) + WeightOf(w, t)
  <2>1. PICK r, h : r = Append(q, t) /\ h = Sums(w, r)
      OBVIOUS
  <2>2. r \in Seq(S) /\ Len(r) = n + 1 /\ r[n + 1] = t /\ \A i \in 1..n : r[i] = q[i]
      BY <1>1, <2>1
  <2>3. /\ h[1..0] = 0 /\ Total(w, r) = h[1..(n + 1)]
        /\ \A k \in 0..n : h[1..(k + 1)] = h[1..k] + WeightOf(w, r[k + 1])
    <3>1. /\ Sums(w, r)[1..0] = 0 /\ Total(w, r) = Sums(w, r)[1..Len(r)]
          /\ \A k \in 0..(Len(r) - 1) : Sums(w, r)[1..(k + 1)] = Sums(w, r)[1..k] + WeightOf(w, r[k + 1])
      <4>1. r \in Seq(S) /\ \A x \in S : WeightOf(w, x) \in Nat
          BY <2>2
      <4> QED BY ONLY <4>1, SumsAre
    <3>2. (n + 1) - 1 = n
        BY <1>1
    <3> QED BY <2>1, <2>2, <3>1, <3>2
  <2> DEFINE ns == {k \in Nat : k <= n => h[1..k] = f[1..k]}
  <2>4. 0 \in ns
      BY <1>2, <2>3
  <2>5. ASSUME NEW k \in Nat, k \in ns PROVE k + 1 \in ns
    <3> SUFFICES ASSUME k + 1 <= n PROVE h[1..(k + 1)] = f[1..(k + 1)]
        OBVIOUS
    <3>1. k \in 0..(n - 1) /\ k \in 0..n /\ k <= n /\ k + 1 \in 1..n
        BY <1>1
    <3>2. h[1..k] = f[1..k] /\ r[k + 1] = q[k + 1]
        BY <2>2, <2>5, <3>1
    <3> QED BY <1>2, <2>3, <3>1, <3>2
  <2>6. n \in ns
    <3>1. \A k \in Nat : k \in ns => k + 1 \in ns
        BY <2>5
    <3> HIDE DEF ns
    <3> QED BY <1>1, <2>4, <3>1, OneByOne
  <2>7. h[1..n] = f[1..n] /\ n \in 0..n
      BY <1>1, <2>6
  <2>8. h[1..(n + 1)] = h[1..n] + WeightOf(w, r[n + 1])
      BY <2>3, <2>7
  <2> QED BY <1>2, <2>1, <2>2, <2>3, <2>7, <2>8
<1> QED BY <1>3, <1>4, <1>5

\* Every test has a weight, known or not.
IsWeights(w) ==
    /\ IsFiniteSet(DOMAIN w) /\ DOMAIN w \subseteq Nat
    /\ \A t \in DOMAIN w : w[t] \in Nat

\* A test has a weight whatever is known.
LEMMA WeightsAre ==
    ASSUME NEW w, IsWeights(w)
    PROVE  \A t : WeightOf(w, t) \in Nat
<1>1. defaultUnknownWeight(w) \in Nat
  <2>1. CASE DOMAIN w = {}
      BY <2>1, SelectionAssumption DEF defaultUnknownWeight
  <2>2. CASE DOMAIN w # {}
    <3>1. PICK D : D = DOMAIN w
        OBVIOUS
    <3>2. PICK sorted : sorted = CHOOSE s \in [1..Cardinality(D) -> D] : \A i, j \in DOMAIN s : i < j =>
                                     (w[s[i]] < w[s[j]] \/ (w[s[i]] = w[s[j]] /\ s[i] < s[j]))
        OBVIOUS
    <3>3. sorted \in [1..Cardinality(D) -> D]
      <4>1. IsFiniteSet(D) /\ D \subseteq Nat /\ \A t \in D : w[t] \in Int
          BY <3>1 DEF IsWeights
      <4>2. \E s \in [1..Cardinality(D) -> D] : \A i, j \in DOMAIN s : i < j =>
                w[s[i]] < w[s[j]] \/ (w[s[i]] = w[s[j]] /\ s[i] < s[j])
          BY <4>1, ByWeight
      <4> QED BY <3>2, <4>2
    <3>4. Cardinality(D) \in Nat /\ Cardinality(D) # 0
        BY <2>2, <3>1, FS_CardinalityType, FS_EmptySet DEF IsWeights
    <3>5. PICK c : c = Cardinality(D) /\ c \in Nat /\ c # 0
        BY <3>4
    <3>6. Len(sorted) = c
        BY <3>3, <3>5
    <3>7. (c \div 2) + 1 \in 1..c
        BY <3>5
    <3>8. sorted[(Len(sorted) \div 2) + 1] \in D
        BY <3>3, <3>5, <3>6, <3>7
    <3>9. defaultUnknownWeight(w) = w[sorted[(Len(sorted) \div 2) + 1]]
        BY <2>2, <3>1, <3>2 DEF defaultUnknownWeight, Sorted
    <3> QED BY <3>1, <3>8, <3>9 DEF IsWeights
  <2> QED BY <2>1, <2>2
<1> QED BY <1>1 DEF WeightOf, IsWeights

\* What is known of a snapshot is weights.
LEMMA HistoricalWeightsAre ==
    ASSUME NEW s, IsSnapshot(s)
    PROVE  IsWeights(loadHistoricalWeights(s))
<1>1. PICK timed : timed = {t \in DOMAIN s : s[t].elapsed > 0}
    OBVIOUS
<1>2. IsFiniteSet(timed) /\ timed \subseteq Nat
  <2>1. timed \subseteq DOMAIN s
      BY <1>1
  <2> QED BY <2>1, FS_Subset DEF IsSnapshot
<1>3. \A t \in timed : s[t].elapsed \in Nat
    BY <1>1 DEF IsSnapshot, Row
<1> QED BY <1>1, <1>2, <1>3, SelectionAssumption DEF IsWeights, loadHistoricalWeights

-----------------------------------------------------------------------------
(***************************************************************************)
(* Dealing by weight.                                                          *)
(***************************************************************************)
\* There is a lightest shard.
LEMMA LightestIs ==
    ASSUME NEW w, \A t : WeightOf(w, t) \in Nat, NEW n \in Nat \ {0}, NEW S, NEW shards \in [1..n -> Seq(S)]
    PROVE  /\ Lightest(w, shards) \in 1..n
           /\ \A j \in 1..n : Total(w, shards[Lightest(w, shards)]) <= Total(w, shards[j])
<1>1. PICK L, C : L = [i \in 1..n |-> Total(w, shards[i])] /\ C = [i \in 1..n |-> Len(shards[i])]
    OBVIOUS
<1>2. \A i \in 1..n : Total(w, shards[i]) \in Nat
  <2> TAKE i \in 1..n
  <2>1. PICK q : q = shards[i] /\ q \in Seq(S)
      OBVIOUS
  <2>2. q \in Seq(S) /\ \A t \in S : WeightOf(w, t) \in Nat
      BY <2>1
  <2>3. Total(w, q) \in Nat
      BY ONLY <2>2, TotalIs
  <2> QED BY <2>1, <2>3
<1>3. \A i \in 1..n : L[i] \in Int /\ C[i] \in Int /\ L[i] = Total(w, shards[i]) /\ C[i] = Len(shards[i]) /\ i \in Int
    BY <1>1, <1>2
<1> DEFINE Before2(i, j) == \/ L[i] < L[j]
                            \/ L[i] = L[j] /\ C[i] < C[j]
                            \/ L[i] = L[j] /\ C[i] = C[j] /\ i < j
           R == {p \in (1..n) \X (1..n) : Before2(p[2], p[1])}
<1>4. \A i, j \in 1..n : <<j, i>> \in R <=> Before2(i, j)
    OBVIOUS
<1>5. IsOrder(R, 1..n)
  <2> HIDE DEF R
  <2>1. \A i, j \in 1..n : i # j => Before2(i, j) \/ Before2(j, i)
      BY <1>3
  <2>2. \A i, j, k \in 1..n : Before2(i, j) /\ Before2(j, k) => Before2(i, k)
    <3> TAKE i \in 1..n, j \in 1..n, k \in 1..n
    <3>1. /\ L[i] \in Int /\ C[i] \in Int /\ i \in Int
          /\ L[j] \in Int /\ C[j] \in Int /\ j \in Int
          /\ L[k] \in Int /\ C[k] \in Int /\ k \in Int
        BY <1>3
    <3> QED BY ONLY <3>1
  <2>3. \A i \in 1..n : ~Before2(i, i)
      BY <1>3
  <2> HIDE DEF Before2
  <2> QED BY <1>4, <2>1, <2>2, <2>3 DEF IsOrder
<1>6. \E i \in 1..n : \A j \in 1..n \ {i} : Before2(i, j)
  <2>1. IsFiniteSet(1..n) /\ 1..n # {}
    <3>1. 1 \in Int /\ n \in Int /\ 1 \in 1..n
        OBVIOUS
    <3> QED BY <3>1, FS_Interval
  <2> HIDE DEF R, Before2
  <2>2. \E i \in 1..n : \A j \in 1..n \ {i} : <<j, i>> \in R
      BY <1>5, <2>1, HasLast
  <2> QED BY <1>4, <2>2
<1>7. Lightest(w, shards) = CHOOSE i \in 1..n : \A j \in 1..n \ {i} : Before2(i, j)
  <2>1. DOMAIN shards = 1..n
      OBVIOUS
  <2>2. \A i, j \in 1..n : Before2(i, j) <=>
            \/ Total(w, shards[i]) < Total(w, shards[j])
            \/ Total(w, shards[i]) = Total(w, shards[j]) /\ Len(shards[i]) < Len(shards[j])
            \/ Total(w, shards[i]) = Total(w, shards[j]) /\ Len(shards[i]) = Len(shards[j]) /\ i < j
      BY <1>3
  <2> HIDE DEF Before2
  <2> QED BY <2>1, <2>2 DEF Lightest
<1>8. PICK e : e = Lightest(w, shards)
    OBVIOUS
<1>9. e \in 1..n /\ \A j \in 1..n \ {e} : Before2(e, j)
  <2> HIDE DEF Before2
  <2> QED BY <1>6, <1>7, <1>8
<1>10. \A j \in 1..n : Total(w, shards[e]) <= Total(w, shards[j])
  <2> TAKE j \in 1..n
  <2>1. CASE j = e
      BY <1>2, <2>1
  <2>2. CASE j # e
    <3>1. Before2(e, j)
      <4> HIDE DEF Before2
      <4> QED BY <1>9, <2>2
    <3>2. L[e] <= L[j]
        BY <1>3, <1>9, <3>1
    <3> QED BY <1>3, <1>9, <3>2
  <2> QED BY <2>1, <2>2
<1> QED BY <1>8, <1>9, <1>10

\* The first k tests of q are dealt: each is at one place, nothing else is anywhere, and
\* without the test it was dealt last a shard is no heavier than another.
IsDealt(w, n, S, q, k, shards) ==
    /\ shards \in [1..n -> Seq(S)]
    /\ \A i \in 1..n : \A p \in 1..Len(shards[i]) : \E m \in 1..k : shards[i][p] = q[m]
    /\ \A m \in 1..k : \E i \in 1..n : \E p \in 1..Len(shards[i]) :
           \A j \in 1..n : \A l \in 1..Len(shards[j]) : shards[j][l] = q[m] <=> j = i /\ l = p
    /\ \A i, j \in 1..n :
           shards[i] # <<>> => Total(w, shards[i]) - WeightOf(w, Last(shards[i])) <= Total(w, shards[j])

\* Dealing one test more keeps what has been dealt, and goes to the lightest shard.
LEMMA DealStep ==
    ASSUME NEW w, \A t : WeightOf(w, t) \in Nat, NEW n \in Nat \ {0}, NEW S, NEW q \in Seq(S),
           \A i, j \in 1..Len(q) : q[i] = q[j] => i = j,
           NEW k \in 0..(Len(q) - 1), NEW shards, IsDealt(w, n, S, q, k, shards)
    PROVE  IsDealt(w, n, S, q, k + 1, Deal(w, shards, q[k + 1]))
<1>1. PICK e, t, new : e = Lightest(w, shards) /\ t = q[k + 1] /\ new = [shards EXCEPT ![e] = Append(shards[e], t)]
    OBVIOUS
<1>2. Deal(w, shards, q[k + 1]) = new
    BY <1>1 DEF Deal
<1>3. k \in Nat /\ k + 1 \in 1..Len(q) /\ t \in S
    BY <1>1
<1>4. /\ shards \in [1..n -> Seq(S)]
      /\ \A i \in 1..n : \A p \in 1..Len(shards[i]) : \E m \in 1..k : shards[i][p] = q[m]
      /\ \A m \in 1..k : \E i \in 1..n : \E p \in 1..Len(shards[i]) :
             \A j \in 1..n : \A l \in 1..Len(shards[j]) : shards[j][l] = q[m] <=> j = i /\ l = p
      /\ \A i, j \in 1..n :
             shards[i] # <<>> => Total(w, shards[i]) - WeightOf(w, Last(shards[i])) <= Total(w, shards[j])
    BY DEF IsDealt
<1>5. e \in 1..n /\ \A j \in 1..n : Total(w, shards[e]) <= Total(w, shards[j])
    BY <1>1, <1>4, LightestIs
<1>6. PICK old, z : old = shards[e] /\ z = Len(old) /\ old \in Seq(S) /\ z \in Nat
  <2>1. PICK old : old = shards[e] /\ old \in Seq(S)
      BY <1>4, <1>5
  <2>2. Len(old) \in Nat
      BY <2>1
  <2> QED BY <2>1, <2>2
<1>7. /\ new \in [1..n -> Seq(S)]
      /\ \A j \in 1..n \ {e} : new[j] = shards[j]
      /\ new[e] = Append(old, t)
    BY <1>1, <1>3, <1>4, <1>5, <1>6
<1>8. /\ Len(new[e]) = z + 1 /\ new[e][z + 1] = t
      /\ \A l \in 1..z : new[e][l] = old[l]
    BY <1>3, <1>6, <1>7
<1>9. ASSUME NEW j \in 1..n, NEW l \in 1..Len(new[j])
      PROVE  \/ l \in 1..Len(shards[j]) /\ new[j][l] = shards[j][l] /\ ~(j = e /\ l = z + 1)
             \/ j = e /\ l = z + 1 /\ new[j][l] = t
  <2>1. CASE j # e
      BY <1>7, <2>1
  <2>2. CASE j = e /\ l = z + 1
      BY <1>8, <2>2
  <2>3. CASE j = e /\ l # z + 1
      BY <1>6, <1>8, <2>3
  <2> QED BY <2>1, <2>2, <2>3
<1>10. ASSUME NEW j \in 1..n, NEW l \in 1..Len(shards[j]) PROVE l \in 1..Len(new[j])
    BY <1>6, <1>7, <1>8
<1>11. \A m \in 1..k : m \in 1..(k + 1) /\ q[m] # t
  <2> TAKE m \in 1..k
  <2>1. m \in 1..Len(q) /\ m # k + 1 /\ m \in 1..(k + 1)
      BY <1>3
  <2> QED BY <1>1, <1>3, <2>1
<1>12. \A i \in 1..n : \A p \in 1..Len(new[i]) : \E m \in 1..(k + 1) : new[i][p] = q[m]
  <2> TAKE i \in 1..n
  <2> TAKE p \in 1..Len(new[i])
  <2>1. CASE p \in 1..Len(shards[i]) /\ new[i][p] = shards[i][p]
    <3>1. PICK m \in 1..k : shards[i][p] = q[m]
        BY <1>4, <2>1
    <3> QED BY <1>11, <2>1, <3>1
  <2>2. CASE new[i][p] = t
    <3>1. k + 1 \in 1..(k + 1)
        BY <1>3
    <3> QED BY <1>1, <2>2, <3>1
  <2> QED BY <1>9, <2>1, <2>2
<1>13. ASSUME NEW m \in 1..(k + 1)
       PROVE  \E i \in 1..n : \E p \in 1..Len(new[i]) :
                  \A j \in 1..n : \A l \in 1..Len(new[j]) : new[j][l] = q[m] <=> j = i /\ l = p
  <2>1. CASE m = k + 1
    <3>1. z + 1 \in 1..Len(new[e])
        BY <1>6, <1>8
    <3>2. \A j \in 1..n : \A l \in 1..Len(new[j]) : new[j][l] = t <=> j = e /\ l = z + 1
      <4> TAKE j \in 1..n
      <4> TAKE l \in 1..Len(new[j])
      <4>1. CASE l \in 1..Len(shards[j]) /\ new[j][l] = shards[j][l] /\ ~(j = e /\ l = z + 1)
        <5>1. PICK x \in 1..k : shards[j][l] = q[x]
          <6>1. \A p \in 1..Len(shards[j]) : \E y \in 1..k : shards[j][p] = q[y]
              BY <1>4
          <6> QED BY <4>1, <6>1
        <5>2. new[j][l] # t
            BY <1>11, <4>1, <5>1
        <5> QED BY <4>1, <5>2
      <4>2. CASE j = e /\ l = z + 1 /\ new[j][l] = t
          BY <4>2
      <4>3. \/ l \in 1..Len(shards[j]) /\ new[j][l] = shards[j][l] /\ ~(j = e /\ l = z + 1)
            \/ j = e /\ l = z + 1 /\ new[j][l] = t
          BY <1>9
      <4> QED BY <4>1, <4>2, <4>3
    <3>3. e \in 1..n /\ t = q[m]
        BY <1>1, <1>5, <2>1
    <3>4. PICK p : p = z + 1 /\ p \in 1..Len(new[e])
        BY <3>1
    <3>5. \A j \in 1..n : \A l \in 1..Len(new[j]) : new[j][l] = q[m] <=> j = e /\ l = p
        BY <3>2, <3>3, <3>4
    <3> QED BY <3>3, <3>4, <3>5
  <2>2. CASE m # k + 1
    <3>1. m \in 1..k
        BY <1>3, <2>2
    <3>5. PICK i \in 1..n : \E p \in 1..Len(shards[i]) :
              \A j \in 1..n : \A l \in 1..Len(shards[j]) : shards[j][l] = q[m] <=> j = i /\ l = p
        BY <1>4, <3>1
    <3>2. PICK p \in 1..Len(shards[i]) :
              \A j \in 1..n : \A l \in 1..Len(shards[j]) : shards[j][l] = q[m] <=> j = i /\ l = p
        BY <3>5
    <3>3. p \in 1..Len(new[i])
        BY <1>10
    <3>4. \A j \in 1..n : \A l \in 1..Len(new[j]) : new[j][l] = q[m] <=> j = i /\ l = p
      <4> TAKE j \in 1..n
      <4> TAKE l \in 1..Len(new[j])
      <4>1. CASE l \in 1..Len(shards[j]) /\ new[j][l] = shards[j][l]
          BY <3>2, <4>1
      <4>2. CASE j = e /\ l = z + 1 /\ new[j][l] = t
        <5>1. new[j][l] # q[m]
            BY <1>11, <3>1, <4>2
        <5>2. ~(j = i /\ l = p)
            BY <1>6, <4>2
        <5> QED BY <5>1, <5>2
      <4> QED BY <1>9, <4>1, <4>2
    <3> QED BY <3>3, <3>4
  <2> QED BY <2>1, <2>2
<1>14. /\ \A j \in 1..n : Total(w, shards[j]) \in Nat /\ Total(w, new[j]) \in Nat /\ Total(w, shards[j]) <= Total(w, new[j])
       /\ Total(w, new[e]) - WeightOf(w, t) = Total(w, shards[e])
  <2>1. ASSUME NEW j \in 1..n PROVE Total(w, shards[j]) \in Nat
    <3>1. PICK r : r = shards[j] /\ r \in Seq(S)
        BY <1>4
    <3>2. r \in Seq(S) /\ \A x \in S : WeightOf(w, x) \in Nat
        BY <3>1
    <3>3. Total(w, r) \in Nat
        BY ONLY <3>2, TotalIs
    <3> QED BY <3>1, <3>3
  <2>2. Total(w, Append(old, t)) = Total(w, old) + WeightOf(w, t)
      BY <1>3, <1>6, TotalIs
  <2>3. Total(w, old) \in Nat /\ WeightOf(w, t) \in Nat
      BY <1>5, <1>6, <2>1
  <2>4. /\ Total(w, new[e]) \in Nat /\ Total(w, shards[e]) <= Total(w, new[e])
        /\ Total(w, new[e]) - WeightOf(w, t) = Total(w, shards[e])
      BY <1>6, <1>7, <2>2, <2>3
  <2>5. \A j \in 1..n \ {e} : Total(w, new[j]) = Total(w, shards[j])
      BY <1>7
  <2>6. ASSUME NEW j \in 1..n
        PROVE  Total(w, shards[j]) \in Nat /\ Total(w, new[j]) \in Nat /\ Total(w, shards[j]) <= Total(w, new[j])
    <3>1. CASE j = e
        BY <2>1, <2>4, <3>1
    <3>2. CASE j # e
        BY <2>1, <2>5, <3>2
    <3> QED BY <3>1, <3>2
  <2> QED BY <2>4, <2>6
<1>15. ASSUME NEW i \in 1..n, NEW j \in 1..n, new[i] # <<>>
       PROVE  Total(w, new[i]) - WeightOf(w, Last(new[i])) <= Total(w, new[j])
  <2>1. CASE i = e
    <3>1. Last(new[i]) = t
        BY <1>8, <2>1 DEF Last
    <3>2. Total(w, shards[e]) <= Total(w, shards[j]) /\ Total(w, shards[j]) <= Total(w, new[j])
        BY <1>5, <1>14
    <3> QED BY <1>5, <1>14, <2>1, <3>1, <3>2
  <2>2. CASE i # e
    <3>1. new[i] = shards[i]
        BY <1>7, <2>2
    <3>2. Total(w, shards[i]) - WeightOf(w, Last(shards[i])) <= Total(w, shards[j])
        BY <1>4, <1>15, <3>1
    <3>3. Total(w, shards[j]) <= Total(w, new[j]) /\ Total(w, shards[i]) \in Nat /\ WeightOf(w, Last(shards[i])) \in Nat
        BY <1>14
    <3> QED BY <1>14, <3>1, <3>2, <3>3
  <2> QED BY <2>1, <2>2
<1> QED BY <1>2, <1>7, <1>12, <1>13, <1>15 DEF IsDealt

\* The shards stay lists of tests.
LEMMA DealType ==
    ASSUME NEW w, \A t : WeightOf(w, t) \in Nat, NEW n \in Nat \ {0}, NEW S,
           NEW shards \in [1..n -> Seq(S)], NEW t \in S
    PROVE  Deal(w, shards, t) \in [1..n -> Seq(S)]
<1>1. PICK e : e = Lightest(w, shards)
    OBVIOUS
<1>2. e \in 1..n
    BY <1>1, LightestIs
<1>3. PICK old : old = shards[e] /\ old \in Seq(S)
    BY <1>2
<1>4. Append(old, t) \in Seq(S)
    BY <1>3
<1>5. [shards EXCEPT ![e] = Append(shards[e], t)] \in [1..n -> Seq(S)]
    BY <1>2, <1>3, <1>4
<1> QED BY <1>1, <1>5 DEF Deal

Dealing(w, none, q) ==
    CHOOSE f : f = [T \in SUBSET DOMAIN q |->
                       IF T = {} THEN none ELSE Deal(w, f[T \ {Max(T)}], q[Max(T)])]

\* In the end all are dealt.
LEMMA AllDealt ==
    ASSUME NEW w, \A t : WeightOf(w, t) \in Nat, NEW n \in Nat \ {0}, NEW S, NEW q \in Seq(S),
           \A i, j \in 1..Len(q) : q[i] = q[j] => i = j,
           NEW none, none = [i \in 1..n |-> <<>>]
    PROVE  IsDealt(w, n, S, q, Len(q), Dealing(w, none, q)[DOMAIN q])
<1>1. PICK c, A : c = Len(q) /\ c \in Nat /\ DOMAIN q = 1..c /\ (\A i \in 1..c : q[i] \in S) /\ A = [1..n -> Seq(S)]
  <2>1. PICK c : c = Len(q) /\ c \in Nat /\ DOMAIN q = 1..c /\ \A i \in 1..c : q[i] \in S
      OBVIOUS
  <2>2. \E A : A = [1..n -> Seq(S)]
      OBVIOUS
  <2> QED BY <2>1, <2>2
<1>2. PICK g : g = [p \in A \X (1..c) |-> Deal(w, p[1], q[p[2]])]
    OBVIOUS
<1>3. g \in [A \X (1..c) -> A]
  <2>1. \A p \in A \X (1..c) : Deal(w, p[1], q[p[2]]) \in A
    <3> TAKE p \in A \X (1..c)
    <3>1. PICK shards, t : shards = p[1] /\ t = q[p[2]]
        OBVIOUS
    <3>2. shards \in [1..n -> Seq(S)] /\ t \in S
        BY <1>1, <3>1
    <3>3. Deal(w, shards, t) \in [1..n -> Seq(S)]
        BY <3>2, DealType
    <3> QED BY <1>1, <3>1, <3>3
  <2> QED BY <1>2, <2>1
<1>4. none \in A
  <2>1. <<>> \in Seq(S)
      OBVIOUS
  <2> QED BY <1>1, <2>1
<1>5. \E h : IsFold(A, c, g, none, h)
    BY <1>1, <1>3, <1>4, FoldExists
<1>6. PICK h : h \in [SUBSET (1..c) -> A] /\ \A T \in SUBSET (1..c) : h[T] = Body(g, none, h, T)
    BY <1>5 DEF IsFold
<1>7. \A T \in SUBSET (1..c) : T # {} => Max(T) \in 1..c /\ T \ {Max(T)} \in SUBSET (1..c)
    BY <1>1, Largest
<1>8. \A x \in A, i \in 1..c : g[<<x, i>>] = Deal(w, x, q[i])
    BY <1>2
<1>9. \A T \in SUBSET (1..c) : h[T] = IF T = {} THEN none ELSE Deal(w, h[T \ {Max(T)}], q[Max(T)])
    BY <1>6, <1>7, <1>8 DEF Body
<1>10. h = [T \in SUBSET (1..c) |-> IF T = {} THEN none ELSE Deal(w, h[T \ {Max(T)}], q[Max(T)])]
    BY <1>6, <1>9
<1>11. PICK f : f = Dealing(w, none, q)
    OBVIOUS
<1>12. f = [T \in SUBSET (1..c) |-> IF T = {} THEN none ELSE Deal(w, f[T \ {Max(T)}], q[Max(T)])]
    BY <1>1, <1>10, <1>11 DEF Dealing
<1>13. Dealing(w, none, q)[DOMAIN q] = f[1..c]
    BY <1>1, <1>11
<1>14. f[1..0] = none
  <2>1. 1..0 = {} /\ {} \in SUBSET (1..c)
      OBVIOUS
  <2> QED BY <1>12, <2>1
<1>15. ASSUME NEW k \in 0..(c - 1) PROVE f[1..(k + 1)] = Deal(w, f[1..k], q[k + 1])
  <2>1. PICK T : T = 1..(k + 1)
      OBVIOUS
  <2>2. T \in SUBSET (1..c) /\ T # {} /\ Max(T) = k + 1 /\ T \ {k + 1} = 1..k
      BY <1>1, <2>1, MaxUpTo
  <2> QED BY <1>12, <2>1, <2>2
<1> DEFINE ns == {k \in Nat : k <= c => IsDealt(w, n, S, q, k, f[1..k])}
<1>16. 0 \in ns
  <2>1. IsDealt(w, n, S, q, 0, none)
    <3>1. none \in [1..n -> Seq(S)] /\ \A i \in 1..n : none[i] = <<>> /\ Len(none[i]) = 0
        BY <1>1, <1>4
    <3> QED BY <3>1 DEF IsDealt
  <2> QED BY <1>14, <2>1
<1>17. ASSUME NEW k \in Nat, k \in ns PROVE k + 1 \in ns
  <2> SUFFICES ASSUME k + 1 <= c PROVE IsDealt(w, n, S, q, k + 1, f[1..(k + 1)])
      OBVIOUS
  <2>1. k \in 0..(c - 1) /\ k <= c
      BY <1>1
  <2>2. PICK shards : shards = f[1..k] /\ IsDealt(w, n, S, q, k, shards)
      BY <1>17, <2>1
  <2>3. k \in 0..(Len(q) - 1)
      BY <1>1, <2>1
  <2>4. IsDealt(w, n, S, q, k + 1, Deal(w, shards, q[k + 1]))
      BY <2>2, <2>3, DealStep
  <2> QED BY <1>15, <2>1, <2>2, <2>4
<1>18. c \in ns
  <2>1. \A k \in Nat : k \in ns => k + 1 \in ns
      BY <1>17
  <2> HIDE DEF ns
  <2> QED BY <1>1, <1>16, <2>1, OneByOne
<1>19. IsDealt(w, n, S, q, Len(q), f[1..c])
    BY <1>1, <1>18
<1> QED BY <1>13, <1>19

-----------------------------------------------------------------------------
(***************************************************************************)
(* The shards of a snapshot.                                                   *)
(***************************************************************************)
\* s is S in the order of w, and for the same w in their own order.
IsSorting(S, w, s) ==
    /\ s \in [1..Cardinality(S) -> S]
    /\ \A i, j \in DOMAIN s : i < j => w[s[i]] < w[s[j]] \/ (w[s[i]] = w[s[j]] /\ s[i] < s[j])

\* s has the members of S, each of them once.
IsListOf(S, s) ==
    /\ s \in Seq(S) /\ DOMAIN s = 1..Len(s) /\ Len(s) \in Nat
    /\ \A x \in S : \E i \in 1..Len(s) : s[i] = x
    /\ \A i, j \in 1..Len(s) : s[i] = s[j] => i = j

\* A sorted set is a list of its members, each of them once.
LEMMA SortedIs ==
    ASSUME NEW S, IsFiniteSet(S), S \subseteq Nat, NEW w, \A t \in S : w[t] \in Int,
           NEW s, IsSorting(S, w, s)
    PROVE  IsListOf(S, s)
<1>1. s \in [1..Cardinality(S) -> S]
    BY DEF IsSorting
<1>2. ASSUME NEW i \in DOMAIN s, NEW j \in DOMAIN s, i < j PROVE s[i] # s[j]
  <2>1. s[i] \in S /\ s[j] \in S
      BY <1>1
  <2>2. PICK x, y : x = s[i] /\ y = s[j] /\ x \in Nat /\ y \in Nat /\ w[x] \in Int /\ w[y] \in Int
      BY <2>1
  <2>3. w[x] < w[y] \/ (w[x] = w[y] /\ x < y)
      BY <1>2, <2>2 DEF IsSorting
  <2> QED BY <2>2, <2>3
<1>3. \A i, j \in DOMAIN s : i < j => s[i] # s[j]
    BY <1>2
<1>4. IsFiniteSet(S)
    OBVIOUS
<1>5. /\ Cardinality(S) \in Nat /\ s \in Seq(S) /\ Len(s) = Cardinality(S) /\ DOMAIN s = 1..Len(s)
      /\ \A x \in S : \E i \in 1..Len(s) : s[i] = x
      /\ \A i, j \in 1..Len(s) : s[i] = s[j] => i = j
    BY ONLY <1>1, <1>3, <1>4, SortedOnce
<1> QED BY <1>5 DEF IsListOf

\* Every test is at one place of one shard.
IsPartition(shards) ==
    /\ shards \in [1..ShardTotal -> Seq(Discovered)]
    /\ \A x \in Discovered :
          \E i \in 1..ShardTotal : \E k \in DOMAIN shards[i] :
              \A j \in 1..ShardTotal : \A l \in DOMAIN shards[j] :
                  shards[j][l] = x <=> <<j, l>> = <<i, k>>

\* The tests from the heaviest down.
Heavier(w, t, u) == \/ WeightOf(w, t) > WeightOf(w, u)
                    \/ WeightOf(w, t) = WeightOf(w, u) /\ t < u
Descends(w, s) == \A i, j \in DOMAIN s : i < j => Heavier(w, s[i], s[j])
HeaviestFirst(w, S) == CHOOSE s \in [1..Cardinality(S) -> S] : Descends(w, s)

\* With weights, the shards are what dealing them comes to.
LEMMA ShardsAreDealt ==
    ASSUME NEW s, NEW S, NEW n, DOMAIN loadHistoricalWeights(s) # {}
    PROVE  weightedShardTests(s, S, n) =
               Dealing(loadHistoricalWeights(s), [i \in 1..n |-> <<>>], HeaviestFirst(loadHistoricalWeights(s), S))
                   [DOMAIN HeaviestFirst(loadHistoricalWeights(s), S)]
    BY DEF weightedShardTests, FoldLeft, MapThenFoldSet, Dealing, Sorted, HeaviestFirst, Descends, Heavier

\* With weights, the tests are dealt from the heaviest down.
LEMMA WeighedShards ==
    ASSUME IsSnapshot(snapshot), NEW w, w = loadHistoricalWeights(snapshot), DOMAIN w # {}
    PROVE  /\ IsPartition(Shards)
           /\ \A i, j \in 1..ShardTotal :
                 Shards[i] # <<>> => Total(w, Shards[i]) - WeightOf(w, Last(Shards[i])) <= Total(w, Shards[j])
<1>1. PICK D, n : D = Discovered /\ n = ShardTotal
    OBVIOUS
<1>2. D \subseteq Nat /\ IsFiniteSet(D) /\ n \in Nat \ {0}
    BY <1>1, SelectionAssumption
<1>3. \A t : WeightOf(w, t) \in Nat
    BY HistoricalWeightsAre, WeightsAre
<1>4. PICK v : v = [t \in D |-> -WeightOf(w, t)]
    OBVIOUS
<1>5. \A t \in D : v[t] \in Int
    BY <1>3, <1>4
<1>6. \A t, u \in D : v[t] < v[u] \/ (v[t] = v[u] /\ t < u) <=> Heavier(w, t, u)
    BY <1>3, <1>4 DEF Heavier
<1>7. PICK q : q = HeaviestFirst(w, D)
    OBVIOUS
<1>8. IsSorting(D, v, q)
  <2>1. PICK r \in [1..Cardinality(D) -> D] : \A i, j \in DOMAIN r : i < j =>
            v[r[i]] < v[r[j]] \/ (v[r[i]] = v[r[j]] /\ r[i] < r[j])
      BY <1>2, <1>5, ByWeight
  <2>2. Descends(w, r)
    <3>1. ASSUME NEW i \in DOMAIN r, NEW j \in DOMAIN r, i < j PROVE Heavier(w, r[i], r[j])
      <4>1. r[i] \in D /\ r[j] \in D
          OBVIOUS
      <4> QED BY <1>6, <2>1, <3>1, <4>1
    <3> QED BY <3>1 DEF Descends
  <2>3. q \in [1..Cardinality(D) -> D] /\ Descends(w, q)
      BY <1>7, <2>1, <2>2 DEF HeaviestFirst
  <2>4. ASSUME NEW i \in DOMAIN q, NEW j \in DOMAIN q, i < j
        PROVE  v[q[i]] < v[q[j]] \/ (v[q[i]] = v[q[j]] /\ q[i] < q[j])
    <3>1. q[i] \in D /\ q[j] \in D
        BY <2>3
    <3>2. Heavier(w, q[i], q[j])
        BY <2>3, <2>4 DEF Descends
    <3> QED BY <1>6, <3>1, <3>2
  <2> QED BY <2>3, <2>4 DEF IsSorting
<1>9. IsListOf(D, q)
    BY ONLY <1>2, <1>5, <1>8, SortedIs
<1>10. PICK none : none = [i \in 1..n |-> <<>>]
    OBVIOUS
<1>11. PICK shards : shards = Dealing(w, none, q)[DOMAIN q]
    OBVIOUS
<1>12. IsDealt(w, n, D, q, Len(q), shards)
  <2>1. q \in Seq(D) /\ \A i, j \in 1..Len(q) : q[i] = q[j] => i = j
      BY <1>9 DEF IsListOf
  <2>2. n \in Nat \ {0}
      BY <1>2
  <2>3. IsDealt(w, n, D, q, Len(q), Dealing(w, none, q)[DOMAIN q])
      BY ONLY <1>3, <1>10, <2>1, <2>2, AllDealt
  <2> QED BY <1>11, <2>3
<1>13. Shards = shards
  <2>1. weightedShardTests(snapshot, D, n) = Dealing(w, none, q)[DOMAIN q]
      BY <1>7, <1>10, ShardsAreDealt
  <2> QED BY <1>1, <1>11, <2>1 DEF Shards
<1>14. shards \in [1..n -> Seq(D)]
    BY <1>12 DEF IsDealt
<1>15. \A j \in 1..n : DOMAIN shards[j] = 1..Len(shards[j])
    BY <1>14
<1>16. ASSUME NEW x \in D
       PROVE  \E i \in 1..n : \E k \in DOMAIN shards[i] :
                  \A j \in 1..n : \A l \in DOMAIN shards[j] : shards[j][l] = x <=> <<j, l>> = <<i, k>>
  <2>1. PICK m \in 1..Len(q) : q[m] = x
      BY <1>9 DEF IsListOf
  <2>2. PICK i \in 1..n : \E k \in 1..Len(shards[i]) :
            \A j \in 1..n : \A l \in 1..Len(shards[j]) : shards[j][l] = x <=> j = i /\ l = k
    <3>1. \A y \in 1..Len(q) : \E i \in 1..n : \E k \in 1..Len(shards[i]) :
              \A j \in 1..n : \A l \in 1..Len(shards[j]) : shards[j][l] = q[y] <=> j = i /\ l = k
        BY <1>12 DEF IsDealt
    <3>2. \E i \in 1..n : \E k \in 1..Len(shards[i]) :
              \A j \in 1..n : \A l \in 1..Len(shards[j]) : shards[j][l] = q[m] <=> j = i /\ l = k
        BY ONLY <3>1, m \in 1..Len(q)
    <3> QED BY ONLY <2>1, <3>2
  <2>3. PICK k \in 1..Len(shards[i]) :
            \A j \in 1..n : \A l \in 1..Len(shards[j]) : shards[j][l] = x <=> j = i /\ l = k
      BY <2>2
  <2>4. \A j \in 1..n : \A l \in DOMAIN shards[j] : shards[j][l] = x <=> <<j, l>> = <<i, k>>
      BY <1>15, <2>3
  <2> QED BY <1>15, <2>4
<1>17. IsPartition(shards)
    BY <1>1, <1>14, <1>16 DEF IsPartition
<1> QED BY <1>1, <1>12, <1>13, <1>17 DEF IsDealt

\* Without, each shard has the tests that are hashed to it, in their order.
Ascends(s) == \A k, l \in DOMAIN s : k < l => s[k] < s[l]

\* They are a partition as well.
LEMMA HashedShards ==
    ASSUME DOMAIN loadHistoricalWeights(snapshot) = {}
    PROVE  IsPartition(Shards)
<1>1. PICK D, n : D = Discovered /\ n = ShardTotal
    OBVIOUS
<1>2. D \subseteq Nat /\ IsFiniteSet(D) /\ n \in Nat \ {0} /\ \A t \in D : Hash(t, n) \in 1..n
    BY <1>1, SelectionAssumption
<1>3. PICK B : B = [i \in 1..n |-> {t \in D : Hash(t, n) = i}]
    OBVIOUS
<1>4. PICK shards : shards = [i \in 1..n |-> CHOOSE s \in [1..Cardinality(B[i]) -> B[i]] : Ascends(s)]
    OBVIOUS
<1>5. Shards = shards
  <2>1. \A i \in 1..n : shards[i] = Sorted({t \in D : Hash(t, n) = i}, <)
      BY <1>3, <1>4 DEF Sorted, Ascends
  <2>2. shards = [i \in 1..n |-> Sorted({t \in D : Hash(t, n) = i}, <)]
      BY <1>4, <2>1
  <2> QED BY <1>1, <2>2 DEF Shards, weightedShardTests
<1>6. ASSUME NEW i \in 1..n PROVE IsListOf(B[i], shards[i])
  <2>1. PICK H : H = B[i] /\ H \subseteq D
      BY <1>3
  <2>2. H \subseteq Nat /\ IsFiniteSet(H)
      BY <1>2, <2>1, FS_Subset
  <2>3. PICK v : v = [t \in H |-> 0]
      OBVIOUS
  <2>4. \A t \in H : v[t] \in Int /\ v[t] = 0
      BY <2>3
  <2>5. PICK r \in [1..Cardinality(H) -> H] : \A k, l \in DOMAIN r : k < l =>
            v[r[k]] < v[r[l]] \/ (v[r[k]] = v[r[l]] /\ r[k] < r[l])
      BY <2>2, <2>4, ByWeight
  <2>6. ASSUME NEW s \in [1..Cardinality(H) -> H]
        PROVE  \A k, l \in DOMAIN s : (v[s[k]] < v[s[l]] \/ (v[s[k]] = v[s[l]] /\ s[k] < s[l])) <=> s[k] < s[l]
    <3> TAKE k, l \in DOMAIN s
    <3>1. s[k] \in H /\ s[l] \in H
        OBVIOUS
    <3> QED BY <2>4, <3>1
  <2>7. Ascends(r)
      BY <2>5, <2>6 DEF Ascends
  <2>8. PICK s : s = shards[i]
      OBVIOUS
  <2>9. s \in [1..Cardinality(H) -> H] /\ Ascends(s)
    <3>1. s = CHOOSE a \in [1..Cardinality(H) -> H] : Ascends(a)
        BY <1>4, <2>1, <2>8
    <3>2. \E a \in [1..Cardinality(H) -> H] : Ascends(a)
        BY <2>5, <2>7
    <3> QED BY ONLY <3>1, <3>2
  <2>10. ASSUME NEW k \in DOMAIN s, NEW l \in DOMAIN s, k < l
         PROVE  v[s[k]] < v[s[l]] \/ (v[s[k]] = v[s[l]] /\ s[k] < s[l])
    <3>1. s[k] \in H /\ s[l] \in H
        BY <2>9
    <3>2. s[k] < s[l]
        BY <2>9, <2>10 DEF Ascends
    <3> QED BY <2>4, <3>1, <3>2
  <2>11. IsSorting(H, v, s)
      BY <2>9, <2>10 DEF IsSorting
  <2>12. \A t \in H : v[t] \in Int
      BY <2>4
  <2>13. IsListOf(H, s)
      BY ONLY <2>2, <2>11, <2>12, SortedIs
  <2> QED BY <2>1, <2>8, <2>13
<1>7. shards \in [1..n -> Seq(D)]
  <2>1. ASSUME NEW i \in 1..n PROVE shards[i] \in Seq(D)
    <3>1. PICK s, H : s = shards[i] /\ H = B[i] /\ s \in Seq(H)
        BY <1>6 DEF IsListOf
    <3>2. H \subseteq D
        BY <1>3, <3>1
    <3> QED BY <3>1, <3>2
  <2> QED BY <1>4, <2>1
<1>8. ASSUME NEW x \in D
      PROVE  \E i \in 1..n : \E k \in DOMAIN shards[i] :
                 \A j \in 1..n : \A l \in DOMAIN shards[j] : shards[j][l] = x <=> <<j, l>> = <<i, k>>
  <2>1. PICK i \in 1..n : x \in B[i]
      BY <1>2, <1>3
  <2>2. PICK k \in 1..Len(shards[i]) : shards[i][k] = x
      BY <1>6, <2>1 DEF IsListOf
  <2>3. ASSUME NEW j \in 1..n, NEW l \in DOMAIN shards[j], shards[j][l] = x PROVE j = i /\ l = k
    <3>1. l \in 1..Len(shards[j])
        BY <1>6 DEF IsListOf
    <3>2. shards[j][l] \in B[j]
      <4>1. PICK s, H : s = shards[j] /\ H = B[j] /\ s \in Seq(H) /\ l \in 1..Len(s)
          BY <1>6, <3>1 DEF IsListOf
      <4> QED BY <4>1
    <3>3. j = i
        BY <1>3, <2>1, <2>3, <3>2
    <3> QED BY <1>6, <2>2, <2>3, <3>1, <3>3 DEF IsListOf
  <2>4. \A j \in 1..n : \A l \in DOMAIN shards[j] : shards[j][l] = x <=> <<j, l>> = <<i, k>>
      BY <2>2, <2>3
  <2> QED BY <1>6, <2>2, <2>4 DEF IsListOf
<1> QED BY <1>1, <1>5, <1>7, <1>8 DEF IsPartition

\* In no case does a shard outweigh another by more than the last test it was dealt.
Balanced ==
    DOMAIN loadHistoricalWeights(snapshot) # {} =>
        \A i, j \in 1..ShardTotal :
            Shards[i] # <<>> =>
                Total(loadHistoricalWeights(snapshot), Shards[i])
                    - WeightOf(loadHistoricalWeights(snapshot), Last(Shards[i]))
                <= Total(loadHistoricalWeights(snapshot), Shards[j])

\* The shards of every snapshot are a partition, and balanced.
LEMMA ShardsAre == IsSnapshot(snapshot) => IsPartition(Shards) /\ Balanced
<1> SUFFICES ASSUME IsSnapshot(snapshot) PROVE IsPartition(Shards) /\ Balanced
    OBVIOUS
<1>1. PICK w : w = loadHistoricalWeights(snapshot)
    OBVIOUS
<1>2. CASE DOMAIN w = {}
    BY <1>1, <1>2, HashedShards DEF Balanced
<1>3. CASE DOMAIN w # {}
  <2>1. /\ IsPartition(Shards)
        /\ \A i, j \in 1..ShardTotal :
              Shards[i] # <<>> => Total(w, Shards[i]) - WeightOf(w, Last(Shards[i])) <= Total(w, Shards[j])
      BY <1>1, <1>3, WeighedShards
  <2> QED BY <1>1, <2>1 DEF Balanced
<1> QED BY <1>2, <1>3

\* A part of a list of tests is one.
LEMMA SliceIs ==
    ASSUME NEW S, NEW s \in Seq(S), NEW offset \in Nat, NEW max \in Nat
    PROVE  Slice(s, offset, max) \in Seq(S)
<1>1. PICK rest : rest = SubSeq(s, offset + 1, Len(s))
    OBVIOUS
<1>2. rest \in Seq(S)
    BY <1>1
<1>3. max > 0 /\ max < Len(rest) => SubSeq(rest, 1, max) \in Seq(S)
    BY <1>2
<1> QED BY <1>1, <1>2, <1>3 DEF Slice

\* What is selected is a list of tests.
LEMMA SelectsAList == IsSnapshot(snapshot) /\ Select => SelectionIsAList'
<1> SUFFICES ASSUME IsSnapshot(snapshot), Select PROVE SelectionIsAList'
    OBVIOUS
<1>1. PICK i \in 1..ShardTotal : \E offset \in Offsets, max \in Maxes : selected' = Slice(Shards[i], offset, max)
    BY DEF Select
<1>2. PICK offset \in Offsets : \E max \in Maxes : selected' = Slice(Shards[i], offset, max)
    BY <1>1
<1>3. PICK max \in Maxes : selected' = Slice(Shards[i], offset, max)
    BY <1>2
<1>4. PICK shards : shards = Shards
    OBVIOUS
<1>5. shards \in [1..ShardTotal -> Seq(Discovered)]
    BY <1>4, ShardsAre DEF IsPartition
<1>6. PICK s : s = shards[i] /\ s \in Seq(Discovered)
    BY <1>5
<1>7. offset \in Nat /\ max \in Nat
    BY SelectionAssumption
<1>8. Slice(s, offset, max) \in Seq(Discovered)
    BY <1>6, <1>7, SliceIs
<1> QED BY <1>3, <1>4, <1>6, <1>8 DEF SelectionIsAList

\* So the shards of a snapshot are what the harness promises of them.
LEMMA AreBalanced == SelectionIsAList /\ IsSnapshot(snapshot) => ShardsAreBalanced
<1> SUFFICES ASSUME SelectionIsAList, IsSnapshot(snapshot) PROVE ShardsAreBalanced
    OBVIOUS
<1>1. IsPartition(Shards) /\ Balanced
    BY ShardsAre
<1>2. \A x \in Discovered :
          \E i \in 1..ShardTotal : \E k \in DOMAIN Shards[i] :
              \A j \in 1..ShardTotal : \A l \in DOMAIN Shards[j] :
                  Shards[j][l] = x <=> <<j, l>> = <<i, k>>
    BY <1>1 DEF IsPartition
<1> DEFINE weights == loadHistoricalWeights(snapshot)
           load == [i \in 1..ShardTotal |-> Total(weights, Shards[i])]
<1>3. ASSUME DOMAIN weights # {}, NEW i \in 1..ShardTotal, NEW j \in 1..ShardTotal, Shards[i] # <<>>
      PROVE  load[i] - WeightOf(weights, Last(Shards[i])) <= load[j]
  <2>1. load[i] = Total(weights, Shards[i]) /\ load[j] = Total(weights, Shards[j])
      OBVIOUS
  <2> QED BY <1>1, <1>3, <2>1 DEF Balanced
<1> QED BY <1>2, <1>3 DEF ShardsAreBalanced

-----------------------------------------------------------------------------
(***************************************************************************)
(* How the selected tests are dealt: each to one process, at one place.       *)
(***************************************************************************)
LEMMA ProcessesType ==
    ASSUME SelectionIsAList
    PROVE  /\ count \in Nat /\ Processes \in Nat
           /\ count > 0 => Processes > 0
<1>1. count \in Nat
    BY DEF SelectionIsAList, count
<1> QED BY <1>1, WorkersAssumption DEF Processes, Least

LEMMA ProductIsNat ==
    ASSUME NEW a \in Nat, NEW b \in Nat
    PROVE  a * b \in Nat
    OBVIOUS

LEMMA PlacesApart ==
    ASSUME NEW P \in Nat, NEW w \in 1..P, NEW v \in 1..P, NEW j \in Nat, NEW k \in Nat, j < k
    PROVE  j * P + w < k * P + v
<1>1. k - j \in Nat /\ k - j >= 1
    OBVIOUS
<1>2. (k - j) * P >= P
    BY <1>1
<1>3. k * P = j * P + (k - j) * P
    BY <1>1
<1>4. j * P \in Nat /\ k * P \in Nat /\ (k - j) * P \in Nat
    BY <1>1
<1> QED BY <1>2, <1>3, <1>4

\* A later place of a process is a later test, and no test has two places.
LEMMA TestsInOrder ==
    ASSUME SelectionIsAList, NEW w \in 1..Processes, NEW v \in 1..Processes,
           NEW j \in Nat \ {0}, NEW k \in Nat \ {0}
    PROVE  /\ TestAt(w, j) \in Nat \ {0}
           /\ j < k => TestAt(w, j) < TestAt(v, k)
           /\ TestAt(w, j) = TestAt(v, k) => w = v /\ j = k
<1> DEFINE P == Processes
<1>1. P \in Nat
    BY ProcessesType
<1> HIDE DEF P
<1>2. w \in 1..P /\ v \in 1..P /\ j - 1 \in Nat /\ k - 1 \in Nat
    BY DEF P
<1>3. TestAt(w, j) = (j - 1) * P + w /\ TestAt(v, k) = (k - 1) * P + v
    BY DEF TestAt, P
<1>4. (j - 1) * P \in Nat /\ (k - 1) * P \in Nat
    BY <1>1, <1>2
<1>5. j < k => TestAt(w, j) < TestAt(v, k)
  <2>1. j < k => j - 1 < k - 1
      OBVIOUS
  <2> QED BY <2>1, <1>1, <1>2, <1>3, PlacesApart
<1>6. k < j => TestAt(v, k) < TestAt(w, j)
  <2>1. k < j => k - 1 < j - 1
      OBVIOUS
  <2> QED BY <2>1, <1>1, <1>2, <1>3, PlacesApart
<1>7. TestAt(w, j) \in Nat \ {0} /\ TestAt(v, k) \in Nat \ {0}
    BY <1>1, <1>2, <1>3, <1>4
<1>8. TestAt(w, j) = TestAt(v, k) => j = k
    BY <1>5, <1>6, <1>7
<1>9. TestAt(w, j) = TestAt(v, k) => w = v
    BY <1>8, <1>3, <1>4, <1>2
<1> QED BY <1>5, <1>7, <1>8, <1>9

\* Every test has a place in some process.
LEMMA TestsAreDealt ==
    ASSUME SelectionIsAList, NEW t \in 1..count
    PROVE  \E w \in 1..Processes, j \in Nat \ {0} : t = TestAt(w, j)
<1> DEFINE P == Processes
<1>1. count \in Nat /\ P \in Nat /\ P > 0
    BY ProcessesType
<1> HIDE DEF P
<1> DEFINE q == (t - 1) \div P
           r == (t - 1) % P
<1>2. t - 1 \in Nat
    BY <1>1
<1>3. q \in Nat /\ r \in 0..(P - 1) /\ t - 1 = P * q + r
    BY <1>1, <1>2
<1> HIDE DEF q, r
<1>4. r + 1 \in 1..P /\ q + 1 \in Nat \ {0} /\ q * P = P * q /\ P * q \in Nat
    BY <1>1, <1>3
<1>5. t = ((q + 1) - 1) * P + (r + 1)
    BY <1>1, <1>3, <1>4
<1>6. t = TestAt(r + 1, q + 1)
    BY <1>5 DEF TestAt, P
<1> QED BY <1>4, <1>6 DEF P

\* The tests of a process are those at its places.
LEMMA ChunkIsDealt ==
    ASSUME SelectionIsAList, NEW w \in 1..Processes, NEW t \in Chunk(w)
    PROVE  \E j \in Nat \ {0} : t = TestAt(w, j)
<1> DEFINE P == Processes
<1>1. t \in 1..count /\ count \in Nat /\ P \in Nat /\ P > 0 /\ (t - 1) % P = w - 1
    BY ProcessesType DEF Chunk
<1> HIDE DEF P
<1> DEFINE q == (t - 1) \div P
<1>2. t - 1 \in Nat
    BY <1>1
<1>3. q \in Nat /\ t - 1 = P * q + (w - 1)
    BY <1>1, <1>2
<1> HIDE DEF q
<1>4. w \in 1..P
    BY DEF P
<1>5. q + 1 \in Nat \ {0} /\ q * P = P * q /\ P * q \in Nat
    BY <1>1, <1>3
<1>6. t = ((q + 1) - 1) * P + w
    BY <1>1, <1>3, <1>4, <1>5
<1>7. t = TestAt(w, q + 1)
    BY <1>6 DEF TestAt, P
<1> QED BY <1>5, <1>7

LEMMA TestInRange ==
    ASSUME SelectionIsAList, NEW w \in 1..Processes, NEW j \in Nat \ {0}, TestAt(w, j) <= count
    PROVE  TestAt(w, j) \in 1..count
    BY ProcessesType, TestsInOrder

-----------------------------------------------------------------------------
(***************************************************************************)
(* The parent, the processes and what is between them.                        *)
(***************************************************************************)
\* What is recorded of a test.
Recorded == [status : Verdict \cup {"unrun"}, elapsed : {Elapsed(v) : v \in Verdict} \cup {0}]

RunTypes ==
    /\ child \in [1..Processes -> Place]
    /\ pipe \in [1..Processes -> Seq(Message)]
    /\ ended \in [1..Processes -> {"no", "died", "code", "killed"}]
    /\ completed \in [1..Processes -> Nat]
    /\ truth \in [1..count -> Verdict \cup {"none", "started"}]
    /\ rows \in [1..count -> Seq(Recorded)]

\* Of the tests of a process, those behind the one it is at have not started, and the
\* parent has recorded none that it has not been told of while the process lives.
PlaceIsTrue(w, j) ==
    /\ j > child[w].told + 1 => truth[TestAt(w, j)] = "none"
    /\ j = child[w].told + 1 => truth[TestAt(w, j)] \in {"none", "started"}
    /\ rows[TestAt(w, j)] # <<>> => j <= completed[w] \/ ended[w] # "no"
PlacesAreTrue ==
    \A w \in 1..Processes, j \in Nat \ {0} : TestAt(w, j) <= count => PlaceIsTrue(w, j)

\* f tells which of its tests each result in the pipe of a process is of: they are all
\* those the parent has not counted, in their order, and each is what happened.
Numbers(w, f) ==
    /\ \A i \in DOMAIN pipe[w] : pipe[w][i].type = "result" =>
           /\ completed[w] < f[i] /\ f[i] <= child[w].told
           /\ TestAt(w, f[i]) <= count => truth[TestAt(w, f[i])] = pipe[w][i].verdict
    /\ \A n \in Nat : completed[w] < n /\ n <= child[w].told =>
           \E i \in DOMAIN pipe[w] : pipe[w][i].type = "result" /\ f[i] = n
    /\ \A i, k \in DOMAIN pipe[w] :
           i < k /\ pipe[w][i].type = "result" /\ pipe[w][k].type = "result" => f[i] < f[k]
PipeIsTrue(w) ==
    /\ completed[w] <= child[w].told
    /\ \E f \in [DOMAIN pipe[w] -> Nat] : Numbers(w, f)
PipesAreTrue == \A w \in 1..Processes : PipeIsTrue(w)

\* A row and how its test went.
RowIsTrue(status, how) ==
    /\ status \in Verdict \ {"timeout"} => how = status
    /\ status = "timeout" /\ ~overtaken => how \in {"timeout", "started", "none"}
    /\ status = "unrun" /\ ~overtaken => how = "none"
RowsAreTrue == \A t \in 1..count : \A k \in DOMAIN rows[t] : RowIsTrue(rows[t][k].status, truth[t])

ExitIsTrue == exit \in {0, 1} => phase = "over" /\ exit = Outcome(rows)
SelectIsFirst == phase = "select" => exit = NoExit
RunInv == RunTypes /\ PlacesAreTrue /\ PipesAreTrue /\ RowsAreTrue
ReportInv ==
    /\ SelectIsFirst /\ ExitIsTrue
    /\ phase # "select" => RunInv

LEMMA MessageType ==
    ASSUME NEW message \in Message
    PROVE  /\ message.type \in {"ready", "start", "done", "error", "note", "result"}
           /\ message.type = "result" => message.verdict \in Verdict
    BY DEF Message

\* Every promise of the report is one of the invariant's.
LEMMA ReportFollows ==
    ASSUME SelectionIsAList, ReportInv
    PROVE  ReportIsTrue
<1> SUFFICES ASSUME exit \in {0, 1}, NEW t \in 1..count
             PROVE  /\ rows[t][1].status \in Verdict \ {"timeout"} => truth[t] = rows[t][1].status
                    /\ rows[t][1].status = "timeout" /\ ~overtaken => truth[t] \in {"timeout", "started", "none"}
                    /\ rows[t][1].status = "unrun" /\ ~overtaken => truth[t] = "none"
                    /\ exit = 0 => truth[t] \in {"pass", "slow"}
    BY DEF ReportIsTrue
<1>1. RunInv /\ exit = Outcome(rows)
    BY DEF ReportInv, ExitIsTrue
<1>2. Covered(rows)
    BY <1>1 DEF Outcome
<1>3. rows[t] \in Seq(Recorded) /\ Len(rows[t]) = 1
    BY <1>1, <1>2 DEF RunInv, RunTypes, Covered
<1>4. 1 \in DOMAIN rows[t] /\ rows[t][1] \in Recorded
    BY <1>3
<1>5. RowIsTrue(rows[t][1].status, truth[t])
    BY <1>1, <1>4 DEF RunInv, RowsAreTrue
<1>6. exit = 0 => rows[t][1].status \notin {"fail", "timeout", "unrun"}
    BY <1>1, <1>2 DEF Outcome
<1>7. rows[t][1].status \in Verdict \cup {"unrun"}
    BY <1>4 DEF Recorded
<1>8. exit = 0 => rows[t][1].status \in {"pass", "slow"}
    BY <1>6, <1>7 DEF Verdict
<1>9. {"pass", "slow"} \subseteq Verdict \ {"timeout"}
    BY DEF Verdict
<1> QED BY <1>5, <1>8, <1>9 DEF RowIsTrue

\* A run starts with nothing told, nothing between and nothing recorded.
LEMMA SelectStarts ==
    ASSUME SelectionIsAList', SelectIsFirst, Select
    PROVE  ReportInv'
<1>1. count' \in Nat /\ count' = Len(selected') /\ Processes' = Least(Workers, Len(selected'))
    BY DEF SelectionIsAList, count, Processes
<1>2. /\ child' = [w \in 1..Processes' |-> Booting]
      /\ pipe' = [w \in 1..Processes' |-> <<>>]
      /\ ended' = [w \in 1..Processes' |-> "no"]
      /\ completed' = [w \in 1..Processes' |-> 0]
      /\ truth' = [t \in 1..count' |-> "none"]
      /\ rows' = [t \in 1..count' |-> <<>>]
    BY <1>1 DEF Select
<1>3. RunTypes'
    BY <1>2 DEF RunTypes, Booting, Place, Phase
<1>4. PlacesAreTrue'
  <2> SUFFICES ASSUME NEW w \in 1..Processes', NEW j \in Nat \ {0}, TestAt(w, j)' <= count'
               PROVE  PlaceIsTrue(w, j)'
      BY DEF PlacesAreTrue
  <2>1. TestAt(w, j)' \in 1..count'
    <3>1. Processes' \in Nat /\ j - 1 \in Nat /\ w \in Nat \ {0}
        BY <1>1, WorkersAssumption DEF Least
    <3>2. TestAt(w, j)' = (j - 1) * Processes' + w
        BY DEF TestAt
    <3>3. (j - 1) * Processes' \in Nat
        BY <3>1, ProductIsNat
    <3> QED BY <1>1, <3>1, <3>2, <3>3
  <2> QED BY <2>1, <1>2 DEF PlaceIsTrue
<1>5. PipesAreTrue'
  <2> SUFFICES ASSUME NEW w \in 1..Processes'
               PROVE  PipeIsTrue(w)'
      BY DEF PipesAreTrue
  <2>1. pipe'[w] = <<>> /\ completed'[w] = 0 /\ child'[w].told = 0
      BY <1>2 DEF Booting
  <2>2. DOMAIN pipe'[w] = {}
      BY <2>1
  <2>3. PICK f \in [DOMAIN pipe'[w] -> Nat] : f = [i \in {} |-> 0]
      BY <2>2
  <2>4. Numbers(w, f)'
      BY <2>1, <2>2 DEF Numbers
  <2>5. \E g \in [DOMAIN pipe'[w] -> Nat] : Numbers(w, g)'
      BY <2>3, <2>4
  <2>6. (\E g \in [DOMAIN pipe[w] -> Nat] : Numbers(w, g))'
      BY <2>3, <2>4
  <2>7. completed'[w] <= child'[w].told
      BY <2>1
  <2> QED BY <2>5, <2>6, <2>7 DEF PipeIsTrue
<1>6. RowsAreTrue'
    BY <1>2 DEF RowsAreTrue
<1>7. exit' \in {2, NoExit} /\ phase' # "select"
    BY DEF Select
<1> QED BY <1>3, <1>4, <1>5, <1>6, <1>7 DEF ReportInv, RunInv, SelectIsFirst, ExitIsTrue, NoExit

LEMMA SameTests ==
    ASSUME UNCHANGED selected, NEW w, NEW j
    PROVE  count' = count /\ Processes' = Processes /\ TestAt(w, j)' = TestAt(w, j)
    BY DEF count, Processes, TestAt

\* What a process sends is of the test it is at, of which nothing is recorded.
LEMMA SendsKeeps ==
    ASSUME SelectionIsAList, ReportInv, NEW w \in DOMAIN child, ProcessSends(w)
    PROVE  ReportInv'
<1> DEFINE sofar == child[w].told
           now == TestAt(w, sofar + 1)
<1>1. /\ RunTypes /\ PlacesAreTrue /\ PipesAreTrue /\ RowsAreTrue
      /\ phase = "running" /\ phase' = "running" /\ exit' = exit /\ rows' = rows
      /\ completed' = completed /\ overtaken' = overtaken /\ ended[w] = "no"
      /\ UNCHANGED selected
    BY DEF ReportInv, RunInv, ProcessSends
<1>2. w \in 1..Processes /\ child[w] \in Place /\ sofar \in Nat /\ sofar + 1 \in Nat \ {0}
    BY <1>1 DEF RunTypes, Place
<1>3. PICK message \in Message, p \in [phase : Phase, told : {sofar, sofar + 1}] :
           /\ Sends(child[w], message, p, Cardinality(Chunk(w)))
           /\ child' = [child EXCEPT ![w] = p]
           /\ pipe' = [pipe EXCEPT ![w] = Append(@, message)]
           /\ ended' = IF p.phase = "dead" THEN [ended EXCEPT ![w] = "code"] ELSE ended
           /\ truth' = CASE message.type = "start" -> [truth EXCEPT ![TestAt(w, p.told + 1)] = "started"]
                         [] message.type = "result" -> [truth EXCEPT ![TestAt(w, p.told)] = message.verdict]
                         [] OTHER -> truth
    BY DEF ProcessSends
<1>4. /\ p \in Place
      /\ message.type = "result" => p.told = sofar + 1
      /\ message.type # "result" => p.told = sofar
  <2>1. p.phase \in Phase /\ p.told \in {sofar, sofar + 1} /\ p \in Place
      BY <1>2 DEF Place
  <2> QED BY <2>1, <1>2, <1>3 DEF Sends, Place
<1>5. /\ message.type \in {"ready", "start", "done", "error", "note", "result"}
      /\ message.type = "result" => message.verdict \in Verdict
    BY MessageType
<1>6. \/ message.type = "result" /\ truth' = [truth EXCEPT ![now] = message.verdict]
      \/ message.type # "result" /\ (truth' = truth \/ truth' = [truth EXCEPT ![now] = "started"])
    BY <1>3, <1>4
<1> HIDE DEF now
<1>7. /\ child'[w] = p /\ pipe'[w] = Append(pipe[w], message)
      /\ \A v \in 1..Processes : v # w =>
             child'[v] = child[v] /\ pipe'[v] = pipe[v] /\ ended'[v] = ended[v]
    BY <1>1, <1>2, <1>3 DEF RunTypes
<1>8. RunTypes'
  <2>1. child' \in [1..Processes -> Place]
      BY <1>1, <1>3, <1>4 DEF RunTypes
  <2>2. pipe' \in [1..Processes -> Seq(Message)]
      BY <1>1, <1>3 DEF RunTypes
  <2>3. ended' \in [1..Processes -> {"no", "died", "code", "killed"}]
      BY <1>1, <1>3 DEF RunTypes
  <2>4. truth' \in [1..count -> Verdict \cup {"none", "started"}]
      BY <1>1, <1>5, <1>6 DEF RunTypes
  <2> QED BY <2>1, <2>2, <2>3, <2>4, <1>1, SameTests DEF RunTypes
\* Only the test it is at is sofar of.
<1>9. ASSUME NEW v \in 1..Processes, NEW j \in Nat \ {0}, TestAt(v, j) <= count, ~(v = w /\ j = sofar + 1)
      PROVE  truth'[TestAt(v, j)] = truth[TestAt(v, j)]
  <2>1. TestAt(v, j) # now
      BY <1>2, <1>9, TestsInOrder DEF now
  <2>2. TestAt(v, j) \in 1..count
      BY <1>9, TestInRange
  <2> QED BY <2>1, <2>2, <1>1, <1>6 DEF RunTypes
<1>10. ASSUME now <= count
       PROVE  /\ message.type = "result" => truth'[now] = message.verdict
              /\ message.type # "result" => truth'[now] \in {truth[now], "started"}
  <2>1. now \in 1..count
      BY <1>2, <1>10, TestInRange DEF now
  <2> QED BY <2>1, <1>1, <1>6 DEF RunTypes
<1>11. ASSUME NEW v \in 1..Processes, NEW j \in Nat \ {0}, TestAt(v, j) <= count
       PROVE  PlaceIsTrue(v, j)
    BY <1>1, <1>11 DEF PlacesAreTrue
<1>12. ended'[w] # "no" \/ ended'[w] = "no"
    OBVIOUS
<1>13. PlacesAreTrue'
  <2> SUFFICES ASSUME NEW v \in 1..Processes, NEW j \in Nat \ {0}, TestAt(v, j) <= count
               PROVE  PlaceIsTrue(v, j)'
      BY <1>1, SameTests DEF PlacesAreTrue
  <2>1. PlaceIsTrue(v, j)
      BY <1>11
  <2>2. TestAt(v, j)' = TestAt(v, j)
      BY <1>1, SameTests
  <2>3. child[v].told \in Nat /\ completed[v] \in Nat /\ completed[v] <= child[v].told
      BY <1>1 DEF RunTypes, Place, PipesAreTrue, PipeIsTrue
  <2>4. CASE v # w
    <3>1. truth'[TestAt(v, j)] = truth[TestAt(v, j)]
        BY <2>4, <1>9
    <3> QED BY <2>1, <2>2, <2>4, <3>1, <1>1, <1>7 DEF PlaceIsTrue
  <2>5. CASE v = w /\ j = sofar + 1
    <3>1. TestAt(v, j) = now /\ now <= count
        BY <2>5 DEF now
    <3>2. rows[now] = <<>>
        BY <2>1, <2>3, <2>5, <3>1, <1>1 DEF PlaceIsTrue
    <3>3. truth[now] \in {"none", "started"}
        BY <2>1, <2>5, <3>1 DEF PlaceIsTrue
    <3>4. message.type # "result" => truth'[now] \in {"none", "started"}
        BY <3>1, <3>3, <1>10
    <3> QED BY <2>2, <2>5, <3>1, <3>2, <3>4, <1>1, <1>2, <1>4, <1>7 DEF PlaceIsTrue
  <2>6. CASE v = w /\ j # sofar + 1
    <3>1. truth'[TestAt(v, j)] = truth[TestAt(v, j)]
        BY <2>6, <1>9
    <3>2. ended[w] = "no"
        BY <1>1
    <3>3. rows[TestAt(v, j)] # <<>> => j <= completed[w]
        BY <2>1, <2>6, <3>2 DEF PlaceIsTrue
    <3>4. p.told \in {sofar, sofar + 1}
        BY <1>4, <1>5
    <3>5. j > p.told + 1 => truth[TestAt(v, j)] = "none"
        BY <2>1, <2>6, <3>4, <1>2 DEF PlaceIsTrue
    <3>6. j = p.told + 1 => truth[TestAt(v, j)] = "none"
        BY <2>1, <2>6, <3>4, <1>2 DEF PlaceIsTrue
    <3> QED BY <2>2, <2>6, <3>1, <3>3, <3>5, <3>6, <1>1, <1>7 DEF PlaceIsTrue
  <2> QED BY <2>4, <2>5, <2>6
<1>14. RowsAreTrue'
  <2> SUFFICES ASSUME NEW t \in 1..count, NEW k \in DOMAIN rows[t]
               PROVE  RowIsTrue(rows[t][k].status, truth[t])'
      BY <1>1, SameTests DEF RowsAreTrue
  <2>1. PICK v \in 1..Processes, j \in Nat \ {0} : t = TestAt(v, j)
      BY TestsAreDealt
  <2>2. rows[t] # <<>> /\ t <= count
      BY <1>1, ProcessesType DEF RunTypes
  <2>3. j <= completed[v] \/ ended[v] # "no"
      BY <2>1, <2>2, <1>11 DEF PlaceIsTrue
  <2>a. completed[w] <= sofar /\ completed[w] \in Nat
      BY <1>1, <1>2 DEF RunTypes, PipesAreTrue, PipeIsTrue
  <2>4. ~(v = w /\ j = sofar + 1)
      BY <2>3, <2>a, <1>1, <1>2
  <2>5. truth'[t] = truth[t]
      BY <2>1, <2>2, <2>4, <1>9
  <2>6. RowIsTrue(rows[t][k].status, truth[t])
      BY <1>1 DEF RowsAreTrue
  <2> QED BY <2>5, <2>6, <1>1 DEF RowIsTrue
<1>15. PipesAreTrue'
  <2> SUFFICES ASSUME NEW v \in 1..Processes
               PROVE  PipeIsTrue(v)'
      BY <1>1, SameTests DEF PipesAreTrue
  <2>1. completed[v] <= child[v].told /\ completed[v] \in Nat /\ child[v].told \in Nat
        /\ pipe[v] \in Seq(Message)
      BY <1>1 DEF PipesAreTrue, PipeIsTrue, RunTypes, Place
  <2>2. PICK f \in [DOMAIN pipe[v] -> Nat] : Numbers(v, f)
      BY <1>1 DEF PipesAreTrue, PipeIsTrue
  <2>3. ASSUME NEW n \in Nat, completed[v] < n, n <= child[v].told, TestAt(v, n) <= count
        PROVE  truth'[TestAt(v, n)] = truth[TestAt(v, n)]
    <3>1. n \in Nat \ {0} /\ ~(v = w /\ n = sofar + 1)
        BY <2>1, <2>3, <1>2
    <3> QED BY <3>1, <2>3, <1>9
  <2>4. CASE v # w
    <3>1. pipe'[v] = pipe[v] /\ child'[v] = child[v] /\ completed'[v] = completed[v]
        BY <2>4, <1>1, <1>7
    <3>2. ASSUME NEW i \in DOMAIN pipe[v], pipe[v][i].type = "result"
          PROVE  /\ completed[v] < f[i] /\ f[i] <= child[v].told
                 /\ TestAt(v, f[i])' <= count' => truth'[TestAt(v, f[i])'] = pipe[v][i].verdict
      <4>1. /\ f[i] \in Nat /\ completed[v] < f[i] /\ f[i] <= child[v].told
            /\ TestAt(v, f[i]) <= count => truth[TestAt(v, f[i])] = pipe[v][i].verdict
          BY <2>2, <3>2 DEF Numbers
      <4>2. TestAt(v, f[i])' = TestAt(v, f[i]) /\ count' = count
          BY <1>1, SameTests
      <4> QED BY <4>1, <4>2, <2>3
    <3>3. Numbers(v, f)'
        BY <2>2, <3>1, <3>2 DEF Numbers
    <3>4. (\E g \in [DOMAIN pipe[v] -> Nat] : Numbers(v, g))'
        BY <3>1, <3>3
    <3> QED BY <2>1, <3>1, <3>4 DEF PipeIsTrue
  <2>5. CASE v = w
    <3>b. Len(pipe[w]) \in Nat
        BY <2>1, <2>5
    <3>c. PICK last \in Nat : last = Len(pipe[w]) + 1
        BY <3>b
    <3> DEFINE next == [i \in DOMAIN pipe'[w] |-> IF i = last THEN p.told ELSE f[i]]
    <3>1. /\ pipe'[w] = Append(pipe[w], message) /\ child'[w] = p /\ completed'[w] = completed[w]
          /\ Len(pipe[w]) \in Nat /\ last \in Nat /\ DOMAIN pipe[w] = 1..Len(pipe[w])
        BY <2>1, <2>5, <3>c, <1>1, <1>7
    <3>2. /\ DOMAIN pipe'[w] = 1..last
          /\ \A i \in DOMAIN pipe[w] : pipe'[w][i] = pipe[w][i]
          /\ pipe'[w][last] = message
        BY <2>1, <2>5, <3>1, <3>c
    <3>3. p.told \in Nat /\ sofar <= p.told
        BY <1>2, <1>4, <1>5
    <3>4. PICK g \in [DOMAIN pipe'[w] -> Nat] : g = next
      <4>1. \A i \in DOMAIN pipe'[w] : i # last => i \in DOMAIN pipe[w]
          BY <3>1, <3>2, <3>c
      <4>2. next \in [DOMAIN pipe'[w] -> Nat]
          BY <4>1, <3>3, <2>2, <2>5
      <4> QED BY <4>2
    <3>5. g[last] = p.told /\ (\A i \in DOMAIN pipe[w] : g[i] = f[i] /\ i < last /\ i \in DOMAIN pipe'[w] /\ i \in Nat)
        BY <3>1, <3>2, <3>4, <3>c
    <3>6. \A i \in DOMAIN pipe'[w] : i \in DOMAIN pipe[w] \/ i = last
        BY <3>1, <3>2, <3>c
    <3>a. last \in DOMAIN pipe'[w]
        BY <3>1, <3>2
    <3> HIDE DEF next
    <3>7. ASSUME NEW i \in DOMAIN pipe[w], pipe[w][i].type = "result"
          PROVE  /\ f[i] \in Nat /\ completed[w] < f[i] /\ f[i] <= sofar
                 /\ TestAt(w, f[i])' <= count' => truth'[TestAt(w, f[i])'] = pipe[w][i].verdict
      <4>1. /\ f[i] \in Nat /\ completed[w] < f[i] /\ f[i] <= sofar
            /\ TestAt(w, f[i]) <= count => truth[TestAt(w, f[i])] = pipe[w][i].verdict
          BY <2>2, <2>5, <3>7 DEF Numbers
      <4>2. TestAt(w, f[i])' = TestAt(w, f[i]) /\ count' = count
          BY <1>1, SameTests
      <4> QED BY <4>1, <4>2, <2>3, <2>5
    <3>8. ASSUME message.type = "result"
          PROVE  /\ completed[w] < g[last] /\ g[last] = sofar + 1
                 /\ TestAt(w, g[last])' <= count' => truth'[TestAt(w, g[last])'] = message.verdict
      <4>1. g[last] = sofar + 1
          BY <3>5, <3>8, <1>4
      <4>2. TestAt(w, g[last])' = now /\ count' = count
          BY <4>1, <1>1, SameTests DEF now
      <4> QED BY <4>1, <4>2, <3>8, <1>10, <1>2, <2>1, <2>5
    <3>9. ASSUME NEW i \in DOMAIN pipe'[w], pipe'[w][i].type = "result"
          PROVE  /\ completed'[w] < g[i] /\ g[i] <= child'[w].told
                 /\ TestAt(w, g[i])' <= count' => truth'[TestAt(w, g[i])'] = pipe'[w][i].verdict
      <4>1. CASE i \in DOMAIN pipe[w]
        <5>1. g[i] = f[i] /\ pipe'[w][i] = pipe[w][i]
            BY <4>1, <3>2, <3>5
        <5>2. TestAt(w, g[i])' = TestAt(w, f[i])'
            BY <5>1, <1>1, SameTests
        <5> QED BY <4>1, <5>1, <5>2, <3>1, <3>3, <3>7, <3>9, <1>2
      <4>2. CASE i = last
          BY <4>2, <3>1, <3>2, <3>5, <3>8, <3>9, <3>3
      <4> QED BY <4>1, <4>2, <3>6
    <3>10. ASSUME NEW n \in Nat, completed'[w] < n, n <= child'[w].told
           PROVE  \E i \in DOMAIN pipe'[w] : pipe'[w][i].type = "result" /\ g[i] = n
      <4>1. CASE n <= sofar
        <5>1. PICK i \in DOMAIN pipe[w] : pipe[w][i].type = "result" /\ f[i] = n
            BY <4>1, <3>1, <3>10, <2>2, <2>5 DEF Numbers
        <5> QED BY <5>1, <3>2, <3>5
      <4>2. CASE ~(n <= sofar)
        <5>1. message.type = "result" /\ n = sofar + 1
            BY <4>2, <3>1, <3>10, <1>2, <1>4
        <5> QED BY <5>1, <3>2, <3>8, <3>a
      <4> QED BY <4>1, <4>2
    <3>11. ASSUME NEW i \in DOMAIN pipe'[w], NEW k \in DOMAIN pipe'[w], i < k,
                  pipe'[w][i].type = "result", pipe'[w][k].type = "result"
           PROVE  g[i] < g[k]
      <4>1. i \in DOMAIN pipe[w]
          BY <3>5, <3>6, <3>11, <3>1
      <4>2. CASE k \in DOMAIN pipe[w]
          BY <4>1, <4>2, <3>2, <3>5, <3>11, <2>2, <2>5 DEF Numbers
      <4>3. CASE k = last
        <5>1. f[i] <= sofar /\ f[i] \in Nat /\ g[i] = f[i]
            BY <4>1, <3>2, <3>5, <3>7, <3>11
        <5> QED BY <5>1, <4>3, <3>2, <3>8, <3>11, <1>2
      <4> QED BY <4>2, <4>3, <3>6
    <3>12. Numbers(w, g)'
        BY <3>9, <3>10, <3>11 DEF Numbers
    <3>13. (\E h \in [DOMAIN pipe[w] -> Nat] : Numbers(w, h))'
        BY <3>12
    <3>14. completed'[w] <= child'[w].told
        BY <3>1, <3>3, <2>1, <2>5, <1>2
    <3> QED BY <2>5, <3>13, <3>14 DEF PipeIsTrue
  <2> QED BY <2>4, <2>5
<1>16. ExitIsTrue'
    BY <1>1 DEF ReportInv, ExitIsTrue
<1> QED BY <1>1, <1>8, <1>13, <1>14, <1>15, <1>16 DEF ReportInv, RunInv, SelectIsFirst

\* The run is over when it reports, with the rows it has then.
LEMMA ReportsItsRows ==
    ASSUME ExitIsTrue, phase = "running", UNCHANGED selected,
           \/ OnWorkerDone(rows')
           \/ UNCHANGED <<phase, exit>>
    PROVE  ExitIsTrue' /\ phase' \in {"running", "over"}
<1>1. exit \notin {0, 1}
    BY DEF ExitIsTrue
<1>2. CASE UNCHANGED <<phase, exit>>
    BY <1>1, <1>2 DEF ExitIsTrue
<1>3. CASE OnWorkerDone(rows')
  <2>1. count' = count
      BY DEF count
  <2>2. Outcome(rows') = Outcome(rows)'
      BY <2>1 DEF Outcome, Covered
  <2>3. CASE active = 1
      BY <1>3, <2>2, <2>3 DEF OnWorkerDone, ExitIsTrue
  <2>4. CASE active # 1
      BY <1>1, <1>3, <2>4 DEF OnWorkerDone, ExitIsTrue
  <2> QED BY <2>3, <2>4
<1> QED BY <1>2, <1>3

\* A result that is handled is recorded for the test it is of, and the next one is of
\* the next test.
LEMMA HandleKeeps ==
    ASSUME SelectionIsAList, ReportInv, NEW w \in DOMAIN child, Handle(w)
    PROVE  ReportInv'
<1> DEFINE done == completed[w]
           now == TestAt(w, done + 1)
<1>1. /\ RunTypes /\ PlacesAreTrue /\ PipesAreTrue /\ RowsAreTrue /\ ExitIsTrue
      /\ phase = "running" /\ pipe[w] # <<>>
      /\ pipe' = [pipe EXCEPT ![w] = Tail(@)]
      /\ UNCHANGED <<selected, child, ended, truth, children, overtaken>>
    BY DEF ReportInv, RunInv, Handle
<1>2. /\ w \in 1..Processes /\ done \in Nat /\ done + 1 \in Nat \ {0}
      /\ pipe[w] \in Seq(Message) /\ child[w].told \in Nat
    BY <1>1 DEF RunTypes, Place
<1>3. PICK message \in Message : message = Head(pipe[w]) /\ message = pipe[w][1] /\ 1 \in DOMAIN pipe[w]
    BY <1>1, <1>2
<1>4. /\ message.type \in {"ready", "start", "done", "error", "note", "result"}
      /\ message.type = "result" => message.verdict \in Verdict
    BY MessageType
<1>5. \/ /\ message.type = "result"
         /\ rows' = [rows EXCEPT ![now] = Append(@, Timed(message.verdict))]
         /\ completed' = [completed EXCEPT ![w] = @ + 1]
         /\ UNCHANGED <<phase, exit>>
      \/ /\ message.type # "result"
         /\ UNCHANGED <<rows, completed>>
         /\ OnWorkerDone(rows') \/ UNCHANGED <<phase, exit>>
    BY <1>3 DEF Handle
<1> HIDE DEF now
<1>6. ExitIsTrue' /\ phase' \in {"running", "over"}
    BY <1>1, <1>5, ReportsItsRows
<1>7. RunTypes'
  <2>1. pipe' \in [1..Processes -> Seq(Message)]
      BY <1>1, <1>2 DEF RunTypes
  <2>2. completed' \in [1..Processes -> Nat]
      BY <1>1, <1>2, <1>5 DEF RunTypes
  <2>3. message.type = "result" => Timed(message.verdict) \in Recorded
      BY <1>4 DEF Timed, Recorded
  <2>4. rows \in [1..count -> Seq(Recorded)]
      BY <1>1 DEF RunTypes
  <2>5. now \in 1..count => rows[now] \in Seq(Recorded)
      BY <2>4
  <2>6. message.type = "result" /\ now \in 1..count => Append(rows[now], Timed(message.verdict)) \in Seq(Recorded)
      BY <2>3, <2>5
  <2>7. rows' \in [1..count -> Seq(Recorded)]
      BY <2>4, <2>6, <1>5
  <2> QED BY <2>1, <2>2, <2>7, <1>1, SameTests DEF RunTypes
<1>8. PICK f \in [DOMAIN pipe[w] -> Nat] : Numbers(w, f)
    BY <1>1, <1>2 DEF PipesAreTrue, PipeIsTrue
<1>9. done <= child[w].told
    BY <1>1, <1>2 DEF PipesAreTrue, PipeIsTrue
\* What comes first is of the test that comes next.
<1>10. message.type = "result" =>
           /\ f[1] = done + 1 /\ done + 1 <= child[w].told
           /\ now <= count => truth[now] = message.verdict
  <2> SUFFICES ASSUME message.type = "result"
               PROVE  /\ f[1] = done + 1 /\ done + 1 <= child[w].told
                      /\ now <= count => truth[now] = message.verdict
      OBVIOUS
  <2>1. /\ f[1] \in Nat /\ done < f[1] /\ f[1] <= child[w].told
        /\ TestAt(w, f[1]) <= count => truth[TestAt(w, f[1])] = message.verdict
      BY <1>3, <1>8 DEF Numbers
  <2>2. done + 1 <= child[w].told
      BY <2>1, <1>2
  <2>3. PICK i \in DOMAIN pipe[w] : pipe[w][i].type = "result" /\ f[i] = done + 1
      BY <2>2, <1>2, <1>8 DEF Numbers
  <2>4. i = 1 \/ 1 < i
      BY <1>2
  <2>5. 1 < i => f[1] < f[i]
      BY <2>3, <1>3, <1>8 DEF Numbers
  <2>6. f[1] = done + 1
      BY <2>1, <2>3, <2>4, <2>5, <1>2
  <2> QED BY <2>1, <2>2, <2>6 DEF now
<1>11. /\ completed'[w] \in {done, done + 1} /\ completed'[w] <= child[w].told
       /\ message.type = "result" <=> completed'[w] = done + 1
       /\ \A v \in 1..Processes : v # w => completed'[v] = completed[v] /\ pipe'[v] = pipe[v]
  <2>1. completed \in [1..Processes -> Nat] /\ pipe \in [1..Processes -> Seq(Message)]
      BY <1>1 DEF RunTypes
  <2>2. \A v \in 1..Processes : v # w => completed'[v] = completed[v] /\ pipe'[v] = pipe[v]
      BY <2>1, <1>1, <1>5
  <2>3. CASE message.type = "result"
    <3>1. completed'[w] = done + 1
        BY <2>1, <2>3, <1>2, <1>5
    <3> QED BY <2>2, <2>3, <3>1, <1>10
  <2>4. CASE message.type # "result"
    <3>1. completed'[w] = done
        BY <2>4, <1>5
    <3> QED BY <2>2, <2>4, <3>1, <1>2, <1>9
  <2> QED BY <2>3, <2>4
<1>12. ASSUME NEW t \in 1..count
       PROVE  rows'[t] = IF message.type = "result" /\ t = now
                         THEN Append(rows[t], Timed(message.verdict)) ELSE rows[t]
  <2> DEFINE row == Append(rows[now], Timed(message.verdict))
  <2>1. t \in DOMAIN rows
      BY <1>1 DEF RunTypes
  <2>2. CASE message.type = "result"
    <3>1. rows' = [rows EXCEPT ![now] = row]
        BY <2>2, <1>5
    <3> HIDE DEF row
    <3>2. rows'[t] = IF t = now THEN row ELSE rows[t]
        BY <2>1, <3>1
    <3> QED BY <2>2, <3>2 DEF row
  <2>3. CASE message.type # "result"
    <3>1. rows' = rows
        BY <2>3, <1>5
    <3> QED BY <2>3, <3>1
  <2> QED BY <2>2, <2>3
<1>13. PlacesAreTrue'
  <2> SUFFICES ASSUME NEW v \in 1..Processes, NEW j \in Nat \ {0}, TestAt(v, j) <= count
               PROVE  PlaceIsTrue(v, j)'
      BY <1>1, SameTests DEF PlacesAreTrue
  <2>1. PlaceIsTrue(v, j)
      BY <1>1 DEF PlacesAreTrue
  <2>2. TestAt(v, j)' = TestAt(v, j) /\ TestAt(v, j) \in 1..count
      BY <1>1, SameTests, TestInRange
  <2>3. rows'[TestAt(v, j)] # <<>> => j <= completed'[v] \/ ended[v] # "no"
    <3>1. CASE message.type = "result" /\ TestAt(v, j) = now
      <4>1. v = w /\ j = done + 1
          BY <3>1, <1>2, TestsInOrder DEF now
      <4> QED BY <4>1, <3>1, <1>11, <1>2
    <3>2. CASE ~(message.type = "result" /\ TestAt(v, j) = now)
      <4>1. rows'[TestAt(v, j)] = rows[TestAt(v, j)]
          BY <3>2, <2>2, <1>12
      <4>2. completed[v] \in Nat /\ (v # w => completed'[v] = completed[v]) /\ (v = w => completed[v] = done)
          BY <1>11, <1>1 DEF RunTypes
      <4>3. completed[v] <= completed'[v] /\ completed'[v] \in Nat
          BY <4>2, <1>11, <1>2
      <4> QED BY <4>1, <4>2, <4>3, <2>1 DEF PlaceIsTrue
    <3> QED BY <3>1, <3>2
  <2> QED BY <2>1, <2>2, <2>3, <1>1 DEF PlaceIsTrue
<1>14. RowsAreTrue'
  <2> SUFFICES ASSUME NEW t \in 1..count, NEW k \in DOMAIN rows'[t]
               PROVE  RowIsTrue(rows[t][k].status, truth[t])'
      BY <1>1, SameTests DEF RowsAreTrue
  <2>0. rows[t] \in Seq(Recorded)
      BY <1>1 DEF RunTypes
  <2>1. CASE k \in DOMAIN rows[t] /\ rows'[t][k] = rows[t][k]
    <3>1. RowIsTrue(rows[t][k].status, truth[t])
        BY <2>1, <1>1 DEF RowsAreTrue
    <3> QED BY <3>1, <2>1, <1>1 DEF RowIsTrue
  <2>2. CASE message.type = "result" /\ t = now /\ rows'[t][k] = Timed(message.verdict)
    <3>1. truth[t] = message.verdict /\ message.verdict \in Verdict
        BY <2>2, <1>4, <1>10, ProcessesType
    <3>2. rows'[t][k].status = message.verdict
        BY <2>2 DEF Timed
    <3>3. "unrun" \notin Verdict
        BY DEF Verdict
    <3> QED BY <3>1, <3>2, <3>3, <1>1 DEF RowIsTrue
  <2>3. CASE message.type = "result" /\ t = now
    <3>1. rows'[t] = Append(rows[t], Timed(message.verdict))
        BY <2>3, <1>12
    <3>2. (k \in DOMAIN rows[t] /\ rows'[t][k] = rows[t][k]) \/ rows'[t][k] = Timed(message.verdict)
        BY <2>0, <3>1
    <3> QED BY <2>1, <2>2, <2>3, <3>2
  <2>4. CASE ~(message.type = "result" /\ t = now)
    <3>1. rows'[t] = rows[t]
        BY <2>4, <1>12
    <3> QED BY <2>1, <3>1
  <2> QED BY <2>3, <2>4
<1>15. PipesAreTrue'
  <2> SUFFICES ASSUME NEW v \in 1..Processes
               PROVE  PipeIsTrue(v)'
      BY <1>1, SameTests DEF PipesAreTrue
  <2>1. CASE v # w
    <3>1. pipe'[v] = pipe[v] /\ child'[v] = child[v] /\ completed'[v] = completed[v] /\ truth' = truth
        BY <2>1, <1>1, <1>11
    <3>2. PICK g \in [DOMAIN pipe[v] -> Nat] : Numbers(v, g)
        BY <1>1 DEF PipesAreTrue, PipeIsTrue
    <3>3. \A i \in DOMAIN pipe[v] : TestAt(v, g[i])' = TestAt(v, g[i]) /\ count' = count
        BY <1>1, SameTests
    <3>4. Numbers(v, g)'
        BY <3>1, <3>2, <3>3 DEF Numbers
    <3>5. (\E h \in [DOMAIN pipe[v] -> Nat] : Numbers(v, h))'
        BY <3>1, <3>4
    <3>6. completed'[v] <= child'[v].told
        BY <3>1, <1>1 DEF PipesAreTrue, PipeIsTrue
    <3> QED BY <3>5, <3>6 DEF PipeIsTrue
  <2>2. CASE v = w
    <3>1. /\ pipe'[w] = Tail(pipe[w]) /\ child' = child /\ truth' = truth
          /\ Len(pipe[w]) \in Nat /\ DOMAIN pipe[w] = 1..Len(pipe[w])
        BY <1>1, <1>2 DEF RunTypes
    <3>2. \A i \in DOMAIN pipe'[w] :
              i \in Nat \ {0} /\ i + 1 \in DOMAIN pipe[w] /\ pipe'[w][i] = pipe[w][i + 1]
        BY <3>1, <1>1, <1>2
    <3>3. \A i \in DOMAIN pipe[w] : i = 1 \/ (1 < i /\ i - 1 \in DOMAIN pipe'[w] /\ (i - 1) + 1 = i)
        BY <3>1, <1>1, <1>2
    <3>4. PICK g \in [DOMAIN pipe'[w] -> Nat] : \A i \in DOMAIN pipe'[w] : g[i] = f[i + 1]
      <4> DEFINE next == [i \in DOMAIN pipe'[w] |-> f[i + 1]]
      <4>1. next \in [DOMAIN pipe'[w] -> Nat]
          BY <3>2, <1>8
      <4>2. \A i \in DOMAIN pipe'[w] : next[i] = f[i + 1]
          OBVIOUS
      <4> QED BY <4>1, <4>2
    <3>5. ASSUME NEW i \in DOMAIN pipe'[w], pipe'[w][i].type = "result"
          PROVE  /\ completed'[w] < g[i] /\ g[i] <= child'[w].told
                 /\ TestAt(w, g[i])' <= count' => truth'[TestAt(w, g[i])'] = pipe'[w][i].verdict
      <4>1. /\ i + 1 \in DOMAIN pipe[w] /\ pipe'[w][i] = pipe[w][i + 1] /\ g[i] = f[i + 1]
            /\ 1 < i + 1
          BY <3>2, <3>4, <3>5
      <4>2. /\ f[i + 1] \in Nat /\ done < f[i + 1] /\ f[i + 1] <= child[w].told
            /\ TestAt(w, f[i + 1]) <= count => truth[TestAt(w, f[i + 1])] = pipe[w][i + 1].verdict
          BY <4>1, <1>8, <3>5 DEF Numbers
      <4>3. message.type = "result" => done + 1 < f[i + 1]
        <5>1. message.type = "result" => f[1] < f[i + 1]
            BY <4>1, <1>3, <1>8, <3>5 DEF Numbers
        <5> QED BY <5>1, <1>10
      <4>4. TestAt(w, g[i])' = TestAt(w, f[i + 1]) /\ count' = count
          BY <4>1, <1>1, SameTests
      <4> QED BY <4>1, <4>2, <4>3, <4>4, <3>1, <1>11
    <3>6. ASSUME NEW n \in Nat, completed'[w] < n, n <= child'[w].told
          PROVE  \E i \in DOMAIN pipe'[w] : pipe'[w][i].type = "result" /\ g[i] = n
      <4>1. done < n /\ n <= child[w].told
          BY <3>1, <3>6, <1>2, <1>11
      <4>2. PICK i \in DOMAIN pipe[w] : pipe[w][i].type = "result" /\ f[i] = n
          BY <4>1, <1>8 DEF Numbers
      <4>3. i # 1
          BY <4>2, <3>6, <1>2, <1>3, <1>10, <1>11
      <4>4. i - 1 \in DOMAIN pipe'[w] /\ (i - 1) + 1 = i
          BY <4>3, <3>3
      <4>5. pipe'[w][i - 1] = pipe[w][i] /\ g[i - 1] = f[i]
          BY <4>4, <3>2, <3>4
      <4> QED BY <4>2, <4>4, <4>5
    <3>7. ASSUME NEW i \in DOMAIN pipe'[w], NEW k \in DOMAIN pipe'[w], i < k,
                 pipe'[w][i].type = "result", pipe'[w][k].type = "result"
          PROVE  g[i] < g[k]
      <4>1. i + 1 \in DOMAIN pipe[w] /\ k + 1 \in DOMAIN pipe[w] /\ i + 1 < k + 1
          BY <3>2, <3>7
      <4>2. f[i + 1] < f[k + 1]
          BY <4>1, <3>2, <3>7, <1>8 DEF Numbers
      <4> QED BY <4>2, <3>4
    <3>8. Numbers(w, g)'
        BY <3>5, <3>6, <3>7 DEF Numbers
    <3>9. (\E h \in [DOMAIN pipe[w] -> Nat] : Numbers(w, h))'
        BY <3>8
    <3>10. completed'[w] <= child'[w].told
        BY <3>1, <1>11
    <3> QED BY <2>2, <3>9, <3>10 DEF PipeIsTrue
  <2> QED BY <2>1, <2>2
<1> QED BY <1>6, <1>7, <1>13, <1>14, <1>15 DEF ReportInv, RunInv, SelectIsFirst

LEMMA PipeStays ==
    ASSUME UNCHANGED <<selected, child, pipe, truth, completed>>, NEW v, PipeIsTrue(v)
    PROVE  PipeIsTrue(v)'
<1>1. PICK g \in [DOMAIN pipe[v] -> Nat] : Numbers(v, g)
    BY DEF PipeIsTrue
<1>2. \A i \in DOMAIN pipe[v] : TestAt(v, g[i])' = TestAt(v, g[i]) /\ count' = count
    BY SameTests
<1>3. Numbers(v, g)'
    BY <1>1, <1>2 DEF Numbers
<1>4. (\E h \in [DOMAIN pipe[v] -> Nat] : Numbers(v, h))'
    BY <1>3
<1>5. completed'[v] <= child'[v].told
    BY DEF PipeIsTrue
<1> QED BY <1>4, <1>5 DEF PipeIsTrue

\* The rows a dead process leaves say of the test it was at that it did not come back,
\* and of those behind it that they never ran: unless a result is still on its way.
LEMMA HandleExitKeeps ==
    ASSUME SelectionIsAList, ReportInv, NEW w \in DOMAIN child, HandleExit(w)
    PROVE  ReportInv'
<1> DEFINE done == completed[w]
           now == TestAt(w, done + 1)
           onItsWay == \E k \in DOMAIN pipe[w] : pipe[w][k].type = "result"
<1>1. /\ RunTypes /\ PlacesAreTrue /\ PipesAreTrue /\ RowsAreTrue /\ ExitIsTrue
      /\ phase = "running" /\ ended[w] # "no"
      /\ rows' = Accounted(w) /\ OnWorkerDone(Accounted(w))
      /\ UNCHANGED <<selected, child, pipe, ended, truth, completed>>
    BY DEF ReportInv, RunInv, HandleExit
<1>2. overtaken' <=> (overtaken \/ onItsWay)
    BY DEF HandleExit
<1>3. /\ w \in 1..Processes /\ done \in Nat /\ done + 1 \in Nat \ {0}
      /\ child[w].told \in Nat /\ done <= child[w].told
    BY <1>1 DEF RunTypes, Place, PipesAreTrue, PipeIsTrue
<1>4. ~onItsWay => child[w].told = done
  <2>1. PICK f \in [DOMAIN pipe[w] -> Nat] : Numbers(w, f)
      BY <1>1, <1>3 DEF PipesAreTrue, PipeIsTrue
  <2>2. done < child[w].told => \E i \in DOMAIN pipe[w] : pipe[w][i].type = "result" /\ f[i] = child[w].told
      BY <2>1, <1>3 DEF Numbers
  <2> QED BY <2>2, <1>3
<1> HIDE DEF now, onItsWay
<1>5. ExitIsTrue' /\ phase' \in {"running", "over"}
    BY <1>1, ReportsItsRows
\* A row that is added.
<1>6. ASSUME NEW t \in 1..count, rows'[t] # rows[t]
      PROVE  \E j \in Nat \ {0}, status \in {"timeout", "unrun"} :
                 /\ t = TestAt(w, j) /\ j >= done + 1
                 /\ rows'[t] = Append(rows[t], [status |-> status, elapsed |-> 0])
                 /\ status = "timeout" => j = done + 1
                 /\ status = "unrun" => j > done + 1
  <2>1. /\ t \in Chunk(w)
        /\ \/ t = now /\ rows'[t] = Append(rows[t], [status |-> "timeout", elapsed |-> 0])
           \/ t > now /\ rows'[t] = Append(rows[t], [status |-> "unrun", elapsed |-> 0])
      BY <1>1, <1>6 DEF Accounted, now
  <2>2. PICK j \in Nat \ {0} : t = TestAt(w, j)
      BY <2>1, <1>3, ChunkIsDealt
  <2>3. /\ j < done + 1 => t < now
        /\ t = now => j = done + 1
        /\ j = done + 1 => t = now
        /\ t \in Nat /\ now \in Nat
      BY <2>2, <1>3, TestsInOrder DEF now
  <2>4. t > now => j > done + 1
      BY <2>3, <1>3
  <2> QED BY <2>1, <2>2, <2>3, <2>4, <1>3
<1>7. RunTypes'
  <2>1. rows \in [1..count -> Seq(Recorded)]
      BY <1>1 DEF RunTypes
  <2>2. ASSUME NEW t \in 1..count
        PROVE  rows'[t] \in Seq(Recorded)
    <3>1. \A status \in {"timeout", "unrun"} : [status |-> status, elapsed |-> 0] \in Recorded
        BY DEF Recorded, Verdict
    <3>2. rows[t] \in Seq(Recorded)
        BY <2>1
    <3>3. CASE rows'[t] # rows[t]
      <4>1. PICK status \in {"timeout", "unrun"} : rows'[t] = Append(rows[t], [status |-> status, elapsed |-> 0])
          BY <3>3, <1>6
      <4> QED BY <4>1, <3>1, <3>2
    <3> QED BY <3>2, <3>3
  <2>3. rows' = [t \in 1..count |-> rows'[t]]
      BY <1>1 DEF Accounted
  <2>4. rows' \in [1..count -> Seq(Recorded)]
      BY <2>2, <2>3
  <2> QED BY <2>4, <1>1, SameTests DEF RunTypes
<1>8. PlacesAreTrue'
  <2> SUFFICES ASSUME NEW v \in 1..Processes, NEW j \in Nat \ {0}, TestAt(v, j) <= count
               PROVE  PlaceIsTrue(v, j)'
      BY <1>1, SameTests DEF PlacesAreTrue
  <2>1. PlaceIsTrue(v, j)
      BY <1>1 DEF PlacesAreTrue
  <2>2. TestAt(v, j)' = TestAt(v, j) /\ TestAt(v, j) \in 1..count
      BY <1>1, SameTests, TestInRange
  <2>3. rows'[TestAt(v, j)] # <<>> => j <= completed[v] \/ ended[v] # "no"
    <3>1. CASE rows'[TestAt(v, j)] # rows[TestAt(v, j)]
      <4>1. PICK i \in Nat \ {0} : TestAt(v, j) = TestAt(w, i)
          BY <3>1, <2>2, <1>6
      <4>2. v = w
          BY <4>1, <1>3, TestsInOrder
      <4> QED BY <4>2, <1>1
    <3>2. CASE rows'[TestAt(v, j)] = rows[TestAt(v, j)]
        BY <3>2, <2>1 DEF PlaceIsTrue
    <3> QED BY <3>1, <3>2
  <2> QED BY <2>1, <2>2, <2>3, <1>1 DEF PlaceIsTrue
<1>9. RowsAreTrue'
  <2> SUFFICES ASSUME NEW t \in 1..count, NEW k \in DOMAIN rows'[t]
               PROVE  RowIsTrue(rows[t][k].status, truth[t])'
      BY <1>1, SameTests DEF RowsAreTrue
  <2>1. rows[t] \in Seq(Recorded) /\ t <= count
      BY <1>1, ProcessesType DEF RunTypes
  <2>2. CASE k \in DOMAIN rows[t] /\ rows'[t][k] = rows[t][k]
    <3>1. RowIsTrue(rows[t][k].status, truth[t])
        BY <2>2, <1>1 DEF RowsAreTrue
    <3> QED BY <3>1, <2>2, <1>1, <1>2 DEF RowIsTrue
  <2>3. CASE rows'[t] # rows[t]
    <3>1. PICK j \in Nat \ {0}, status \in {"timeout", "unrun"} :
              /\ t = TestAt(w, j) /\ j >= done + 1
              /\ rows'[t] = Append(rows[t], [status |-> status, elapsed |-> 0])
              /\ status = "timeout" => j = done + 1
              /\ status = "unrun" => j > done + 1
        BY <2>3, <1>6
    <3>2. \/ k \in DOMAIN rows[t] /\ rows'[t][k] = rows[t][k]
          \/ rows'[t][k] = [status |-> status, elapsed |-> 0]
        BY <2>1, <3>1
    <3>3. CASE rows'[t][k] = [status |-> status, elapsed |-> 0]
      <4>1. PlaceIsTrue(w, j)
          BY <3>1, <2>1, <1>1, <1>3 DEF PlacesAreTrue
      <4>2. ~overtaken' => child[w].told = done
          BY <1>2, <1>4
      <4>3. ~overtaken' /\ status = "timeout" => truth[t] \in {"none", "started"}
          BY <4>1, <4>2, <3>1 DEF PlaceIsTrue
      <4>4. ~overtaken' /\ status = "unrun" => truth[t] = "none"
          BY <4>1, <4>2, <3>1 DEF PlaceIsTrue
      <4>5. rows'[t][k].status = status /\ status \notin Verdict \ {"timeout"}
          BY <3>3 DEF Verdict
      <4> QED BY <4>3, <4>4, <4>5, <1>1 DEF RowIsTrue
    <3> QED BY <3>2, <3>3, <2>2
  <2> QED BY <2>2, <2>3
<1>10. PipesAreTrue'
  <2> SUFFICES ASSUME NEW v \in 1..Processes
               PROVE  PipeIsTrue(v)'
      BY <1>1, SameTests DEF PipesAreTrue
  <2>1. PipeIsTrue(v)
      BY <1>1 DEF PipesAreTrue
  <2> QED BY <2>1, <1>1, PipeStays
<1> QED BY <1>5, <1>7, <1>8, <1>9, <1>10 DEF ReportInv, RunInv, SelectIsFirst

\* A process that ends leaves what it has told.
LEMMA EndKeeps ==
    ASSUME SelectionIsAList, ReportInv, NEW w \in DOMAIN child, ProcessDies(w) \/ Watchdog(w)
    PROVE  ReportInv'
<1>1. /\ RunTypes /\ PlacesAreTrue /\ PipesAreTrue /\ RowsAreTrue /\ ExitIsTrue
      /\ phase = "running" /\ phase' = "running" /\ exit' = exit /\ ended[w] = "no"
      /\ ended' = [ended EXCEPT ![w] = "died"] \/ ended' = [ended EXCEPT ![w] = "killed"]
      /\ UNCHANGED <<selected, child, pipe, truth, completed, rows, overtaken>>
    BY DEF ReportInv, RunInv, ProcessDies, Watchdog
<1>2. RunTypes'
    BY <1>1, SameTests DEF RunTypes
<1>3. PlacesAreTrue'
  <2> SUFFICES ASSUME NEW v \in 1..Processes, NEW j \in Nat \ {0}, TestAt(v, j) <= count
               PROVE  PlaceIsTrue(v, j)'
      BY <1>1, SameTests DEF PlacesAreTrue
  <2>1. PlaceIsTrue(v, j)
      BY <1>1 DEF PlacesAreTrue
  <2>2. TestAt(v, j)' = TestAt(v, j)
      BY <1>1, SameTests
  <2>3. ended[v] # "no" => ended'[v] # "no"
      BY <1>1 DEF RunTypes
  <2> QED BY <2>1, <2>2, <2>3, <1>1 DEF PlaceIsTrue
<1>4. RowsAreTrue'
  <2> SUFFICES ASSUME NEW t \in 1..count, NEW k \in DOMAIN rows[t]
               PROVE  RowIsTrue(rows[t][k].status, truth[t])'
      BY <1>1, SameTests DEF RowsAreTrue
  <2>1. RowIsTrue(rows[t][k].status, truth[t])
      BY <1>1 DEF RowsAreTrue
  <2> QED BY <2>1, <1>1 DEF RowIsTrue
<1>5. PipesAreTrue'
  <2> SUFFICES ASSUME NEW v \in 1..Processes
               PROVE  PipeIsTrue(v)'
      BY <1>1, SameTests DEF PipesAreTrue
  <2>1. PipeIsTrue(v)
      BY <1>1 DEF PipesAreTrue
  <2> QED BY <2>1, <1>1, PipeStays
<1>6. ExitIsTrue'
    BY <1>1 DEF ExitIsTrue
<1> QED BY <1>1, <1>2, <1>3, <1>4, <1>5, <1>6 DEF ReportInv, RunInv, SelectIsFirst

\* Every step keeps what the report rests on.
LEMMA ReportStepInv ==
    SelectionIsAList /\ SelectionIsAList' /\ ReportInv /\ [RunnerNext]_runnerVars => ReportInv'
<1> SUFFICES ASSUME SelectionIsAList, SelectionIsAList', ReportInv, [RunnerNext]_runnerVars
             PROVE  ReportInv'
    OBVIOUS
<1>1. CASE Select
    BY <1>1, SelectStarts DEF ReportInv
<1>2. CASE ParentNext
    BY <1>2, HandleKeeps, HandleExitKeeps, EndKeeps DEF ParentNext
<1>3. CASE \E w \in DOMAIN child : ProcessSends(w) \/ ProcessDies(w)
    BY <1>3, SendsKeeps, EndKeeps
<1>4. CASE UNCHANGED runnerVars
  <2>1. UNCHANGED <<phase, selected, child, pipe, ended, truth, completed, rows, overtaken, exit>>
      BY <1>4 DEF runnerVars
  <2>2. CASE phase = "select"
      BY <2>1, <2>2, <1>4 DEF ReportInv, SelectIsFirst, ExitIsTrue
  <2>3. CASE phase # "select"
    <3>1. RunTypes /\ PlacesAreTrue /\ PipesAreTrue /\ RowsAreTrue /\ ExitIsTrue
        BY <2>3 DEF ReportInv, RunInv
    <3>2. count' = count
        BY <2>1 DEF count
    <3>3. RunTypes' /\ Outcome(rows)' = Outcome(rows)
        BY <3>1, <3>2, <2>1, SameTests DEF RunTypes, Outcome, Covered
    <3>4. PlacesAreTrue'
      <4> SUFFICES ASSUME NEW v \in 1..Processes, NEW j \in Nat \ {0}, TestAt(v, j) <= count
                   PROVE  PlaceIsTrue(v, j)'
          BY <2>1, SameTests DEF PlacesAreTrue
      <4>1. PlaceIsTrue(v, j)
          BY <3>1 DEF PlacesAreTrue
      <4>2. TestAt(v, j)' = TestAt(v, j)
          BY <2>1, SameTests
      <4> QED BY <4>1, <4>2, <2>1 DEF PlaceIsTrue
    <3>5. RowsAreTrue'
        BY <3>1, <3>2, <2>1 DEF RowsAreTrue, RowIsTrue
    <3>6. PipesAreTrue'
      <4> SUFFICES ASSUME NEW v \in 1..Processes
                   PROVE  PipeIsTrue(v)'
          BY <2>1, SameTests DEF PipesAreTrue
      <4>1. PipeIsTrue(v)
          BY <3>1 DEF PipesAreTrue
      <4> QED BY <4>1, <2>1, PipeStays
    <3> QED BY <3>1, <3>3, <3>4, <3>5, <3>6, <2>1, <2>3 DEF ReportInv, RunInv, SelectIsFirst, ExitIsTrue
  <2> QED BY <2>2, <2>3
<1> QED BY <1>1, <1>2, <1>3, <1>4 DEF RunnerNext

\* What the last process leaves is a snapshot: a row of each test that was selected.
LEMMA WritesASnapshot ==
    ASSUME SelectionIsAList, NEW r \in [1..count -> Seq(Recorded)], Covered(r)
    PROVE  IsSnapshot(Written(r))
<1>1. Recorded \subseteq Row
    BY SelectionAssumption DEF Recorded, Row, Verdict
<1>2. PICK s : s = selected /\ s \in Seq(Discovered) /\ count = Len(s) /\ count \in Nat
    BY DEF SelectionIsAList, count
<1>3. ToSet(s) \subseteq Discovered /\ \A x \in ToSet(s) : \E t \in 1..count : s[t] = x
    BY <1>2 DEF ToSet
<1>4. DOMAIN Written(r) = ToSet(s)
    BY <1>2 DEF Written
<1>5. IsFiniteSet(ToSet(s)) /\ ToSet(s) \subseteq Nat
    BY <1>3, SelectionAssumption, FS_Subset
<1>6. ASSUME NEW x \in ToSet(s) PROVE Written(r)[x] \in Row
  <2>1. PICK t : t = CHOOSE u \in 1..count : s[u] = x
      OBVIOUS
  <2>2. t \in 1..count
      BY <1>3, <2>1
  <2>3. r[t] \in Seq(Recorded) /\ Len(r[t]) = 1
      BY <2>2 DEF Covered
  <2>4. r[t][1] \in Recorded
      BY <2>3
  <2>5. Written(r)[x] = r[t][1]
      BY <1>2, <2>1 DEF Written
  <2> QED BY <1>1, <2>4, <2>5
<1> QED BY <1>4, <1>5, <1>6 DEF IsSnapshot

\* Only the end of the last process replaces the file.
LEMMA LastReplaces ==
    ASSUME UNCHANGED selected, NEW r, OnWorkerDone(r), rows' = r
    PROVE  \/ UNCHANGED snapshot
           \/ Covered(rows') /\ snapshot' = Written(rows') /\ phase' = "over"
    BY DEF OnWorkerDone

\* The file stays a snapshot.
LEMMA SnapshotStays ==
    ASSUME SelectionIsAList, IsSnapshot(snapshot), ReportInv', [RunnerNext]_runnerVars
    PROVE  IsSnapshot(snapshot)'
<1> DEFINE Replaces == Covered(rows') /\ snapshot' = Written(rows') /\ phase' = "over" /\ UNCHANGED selected
<1>1. CASE UNCHANGED snapshot
    BY <1>1 DEF IsSnapshot
<1>2. CASE Replaces
  <2>1. count' = count
      BY <1>2 DEF count
  <2>2. rows' \in [1..count -> Seq(Recorded)]
      BY <1>2, <2>1 DEF ReportInv, RunInv, RunTypes
  <2>3. IsSnapshot(Written(rows'))
      BY <1>2, <2>2, WritesASnapshot
  <2> QED BY <1>2, <2>3 DEF IsSnapshot
<1>3. UNCHANGED snapshot \/ Replaces
  <2>1. CASE Select
      BY <2>1 DEF Select
  <2>2. ASSUME NEW w \in DOMAIN child, Handle(w) PROVE UNCHANGED snapshot \/ Replaces
    <3>1. UNCHANGED selected /\ (UNCHANGED snapshot \/ (OnWorkerDone(rows) /\ rows' = rows))
        BY <2>2 DEF Handle
    <3> QED BY <3>1, LastReplaces
  <2>3. ASSUME NEW w \in DOMAIN child, HandleExit(w) PROVE UNCHANGED snapshot \/ Replaces
    <3>1. UNCHANGED selected /\ OnWorkerDone(Accounted(w)) /\ rows' = Accounted(w)
        BY <2>3 DEF HandleExit
    <3> QED BY <3>1, LastReplaces
  <2>4. ASSUME NEW w \in DOMAIN child, Watchdog(w) \/ ProcessSends(w) \/ ProcessDies(w) PROVE UNCHANGED snapshot
      BY <2>4 DEF Watchdog, ProcessSends, ProcessDies
  <2>5. CASE UNCHANGED runnerVars
      BY <2>5 DEF runnerVars
  <2> QED BY <2>1, <2>2, <2>3, <2>4, <2>5 DEF RunnerNext, ParentNext
<1> QED BY <1>1, <1>2, <1>3

\* Only the selection selects.
LEMMA SelectionStays ==
    ASSUME SelectionIsAList, IsSnapshot(snapshot), [RunnerNext]_runnerVars
    PROVE  SelectionIsAList'
<1>1. CASE Select
    BY <1>1, SelectsAList
<1>2. CASE UNCHANGED selected
    BY <1>2 DEF SelectionIsAList
<1>3. Select \/ UNCHANGED selected
    BY DEF RunnerNext, ParentNext, Handle, HandleExit, Watchdog, ProcessSends, ProcessDies, runnerVars
<1> QED BY <1>1, <1>2, <1>3

\* What the selection, the snapshot and the report come to.
RunnerInv == SelectionIsAList /\ IsSnapshot(snapshot) /\ ReportInv

LEMMA RunnerKeeps == RunnerSpec => []RunnerInv
<1>1. RunnerInit => RunnerInv
  <2>1. RunnerInit => ReportInv
      BY DEF RunnerInit, ReportInv, SelectIsFirst, ExitIsTrue, NoExit
  <2>2. RunnerInit => SelectionIsAList /\ IsSnapshot(snapshot)
      BY SelectionAssumption DEF RunnerInit, SelectionIsAList
  <2> QED BY <2>1, <2>2 DEF RunnerInv
<1>2. RunnerInv /\ [RunnerNext]_runnerVars => RunnerInv'
  <2> SUFFICES ASSUME RunnerInv, [RunnerNext]_runnerVars PROVE RunnerInv'
      OBVIOUS
  <2>1. SelectionIsAList /\ IsSnapshot(snapshot) /\ ReportInv
      BY DEF RunnerInv
  <2>2. SelectionIsAList'
      BY <2>1, SelectionStays
  <2>3. ReportInv'
      BY <2>1, <2>2, ReportStepInv
  <2>4. IsSnapshot(snapshot)'
      BY <2>1, <2>3, SnapshotStays
  <2> QED BY <2>2, <2>3, <2>4 DEF RunnerInv
<1> QED BY <1>1, <1>2, PTL DEF RunnerSpec

\* What the fourslash parent reports is what happened in its processes (runner.cjs,
\* runParallel): a verdict is the one its test ended with, a test reported as never run
\* did not start, and an exit status of 0 is earned by every test; for any number of
\* tests and processes, whoever dies or is killed when.
THEOREM ReportIsHonest == RunnerSpec => []ReportIsTrue
<1>1. RunnerInv => ReportIsTrue
    BY ReportFollows DEF RunnerInv
<1> QED BY <1>1, RunnerKeeps, PTL

\* The shards partition the tests whatever the last snapshot holds, no shard outweighs
\* another by more than the last test it was dealt, and what is run is of one of them
\* (runner.cjs, weightedShardTests, main); for any number of tests and shards, any
\* weights, and the snapshots that runs leave for the next.
THEOREM ShardsStayBalanced == RunnerSpec => []ShardsAreBalanced
<1>1. RunnerInv => ShardsAreBalanced
    BY AreBalanced DEF RunnerInv
<1> QED BY <1>1, RunnerKeeps, PTL
=============================================================================
