---------------------------- MODULE FourslashWorker ----------------------------
(***************************************************************************)
(* The process that runs fourslash tests against tsz-server, and the bridge  *)
(* between them: the test calls sendRequest, which blocks the process on a   *)
(* word of shared memory; a worker thread takes the request from the shared  *)
(* buffer, passes it to the server and puts the answer in the same buffer    *)
(* (test-worker.cjs, tsz-adapter.cjs, tsz-worker.cjs; runSequential of       *)
(* runner.cjs is the same loop with another recovery).                       *)
(*                                                                           *)
(* The process never turns its event loop while a test runs, so what the     *)
(* thread posts about the server's death reaches it at the next await.       *)
(***************************************************************************)
EXTENDS FourslashContract, Sequences

CONSTANTS
    Tests,        \* the tests of the process, a sequence
    MaxRequests,  \* bound: the requests of one test's client, and the texts asked of a bridge
    MaxBridges,   \* bound: the bridges the process makes
    MaxAttempts,  \* attempts of startBridgeWithRetries
    MaxFaults,    \* bound: servers that die, starts that fail, messages too large,
                  \* tests that hang, memory that is short
    None

Bridge == 1..MaxBridges

\* bridge-protocol.cjs
STATE_IDLE == 0
STATE_REQUEST_READY == 1
STATE_RESPONSE_READY == 2
STATE_SHUTDOWN == 3
STATE_ERROR == 4

\* An answer carries the command and the sequence number of its request. A test
\* numbers its requests from 0, the bridge numbers its own (reset, text) from 1.
Request == [command : {"lsp", "tsz/reset", "tsz/text"}, test : 0..Len(Tests), seq : Nat]
Answer == [to : Request]
Failure == [error : {"closed", "large"}]
Garbage == [garbage : {"tsz/reset", "other"}]

ASSUME WorkerAssumption ==
    /\ Tests \in Seq(STRING) /\ Tests # <<>>
    /\ {MaxRequests, MaxBridges, MaxAttempts, MaxFaults} \subseteq Nat
    /\ MaxBridges > 0 /\ MaxAttempts > 0
    /\ None \notin Request \cup Answer \cup Failure \cup Garbage

VARIABLES
    mode,      \* "parallel": test-worker.cjs; "sequential": runSequential
    pc,        \* where the process is
    test,      \* the test it runs, or has run
    seq,       \* the next sequence number of the test's client
    request,   \* the request it waits on
    bridge,    \* the bridge in use
    candidate, \* the bridge being started
    attempt,
    told,      \* the results it has told the runner
    said,      \* its last message
    gave_up,   \* it has told the runner that a bridge could not be restarted
    cleaned,   \* how the session was cleared since the last test began: "no", "reset", "new"
    taken,     \* the last request that returned, and the answer it returned
    faults
processVars == <<mode, pc, test, seq, request, bridge, candidate, attempt, told, said, gave_up, cleaned, taken>>

VARIABLES
    control,   \* per bridge: the shared word
    data,      \* per bridge: the shared buffer
    thread,    \* per bridge: where the worker thread is
    exited,    \* per bridge: _exited
    posted,    \* per bridge: the thread has posted an exit the process has not seen
    own_seq,   \* per bridge: _requestSeq
    up,        \* per bridge: the server runs
    asked,     \* per bridge: the request the server has, or None
    answer,    \* per bridge: the answer in the server's output, or None
    session    \* per bridge: the tests the server has heard of since it was reset
bridgeVars == <<control, data, thread, exited, posted, own_seq, up, asked, answer, session>>

workerVars == <<processVars, bridgeVars, faults>>

WorkerInit ==
    /\ mode \in {"parallel", "sequential"}
    /\ pc = "boot" /\ test = 0 /\ seq = 0 /\ request = None
    /\ bridge = 1 /\ candidate = 1 /\ attempt = 1
    /\ told = 0 /\ said = [type |-> "note"]
    /\ gave_up = FALSE /\ cleaned = "new" /\ taken = None /\ faults = 0
    /\ control = [b \in Bridge |-> STATE_IDLE]
    /\ data = [b \in Bridge |-> None]
    /\ thread = [b \in Bridge |-> "absent"]
    /\ exited = [b \in Bridge |-> FALSE]
    /\ posted = [b \in Bridge |-> FALSE]
    /\ own_seq = [b \in Bridge |-> 0]
    /\ up = [b \in Bridge |-> FALSE]
    /\ asked = [b \in Bridge |-> None]
    /\ answer = [b \in Bridge |-> None]
    /\ session = [b \in Bridge |-> {}]

Fault == faults < MaxFaults /\ faults' = faults + 1

-----------------------------------------------------------------------------
(* The worker thread and the server *)

\* What the server reads: when a late answer has been put over the request, what
\* is sent as a request is that answer, whose command it repeats.
Framed(content) ==
    IF content \in Request THEN content
    ELSE [garbage |-> IF content \in Answer /\ content.to.command = "tsz/reset" THEN "tsz/reset" ELSE "other"]

\* mainLoop: the thread wakes on a request and writes it to the server. A server
\* that died while the thread slept breaks the pipe, which nothing catches; one
\* whose end the thread has seen has closed streams that say nothing more.
TakeRequest(b) ==
    /\ thread[b] = "idle" /\ control[b] = STATE_REQUEST_READY
    /\ IF up[b] THEN /\ asked' = [asked EXCEPT ![b] = Framed(data[b])]
                     /\ thread' = [thread EXCEPT ![b] = "reading"]
                     /\ UNCHANGED posted
       ELSE IF posted[b] \/ exited[b]
            THEN /\ thread' = [thread EXCEPT ![b] = "deaf"]
                 /\ UNCHANGED <<asked, posted>>
            ELSE /\ thread' = [thread EXCEPT ![b] = "gone"]
                 /\ posted' = [posted EXCEPT ![b] = TRUE]
                 /\ UNCHANGED asked
    /\ UNCHANGED <<processVars, faults, control, data, exited, own_seq, up, answer, session>>

\* The server answers what it is asked; a reset forgets what it was told.
ServerAnswers(b) ==
    /\ up[b] /\ asked[b] \in Request /\ answer[b] = None
    /\ asked' = [asked EXCEPT ![b] = None]
    /\ answer' = [answer EXCEPT ![b] = [to |-> asked[b]]]
    /\ session' = [session EXCEPT ![b] = IF asked[b].command = "tsz/reset" THEN {} ELSE @ \cup {asked[b].test}]
    /\ UNCHANGED <<processVars, faults, control, data, thread, exited, posted, own_seq, up>>

\* An answer sent to it as a request has the server's own number, which may be
\* any; an answer cut off or run together with a request is no JSON and ends it.
ServerIsConfused(b) ==
    /\ up[b] /\ asked[b] \in Garbage /\ answer[b] = None
    /\ asked' = [asked EXCEPT ![b] = None]
    /\ \/ /\ \E n \in 0..own_seq[b] :
               answer' = [answer EXCEPT ![b] =
                   [to |-> [command |-> IF asked[b].garbage = "other" THEN "lsp" ELSE "tsz/reset",
                            test |-> 0, seq |-> n]]]
          /\ session' = [session EXCEPT ![b] = IF asked[b].garbage = "tsz/reset" THEN {} ELSE @]
          /\ UNCHANGED up
       \/ /\ up' = [up EXCEPT ![b] = FALSE]
          /\ UNCHANGED <<answer, session>>
    /\ UNCHANGED <<processVars, faults, control, data, thread, exited, posted, own_seq>>

ServerDies(b) ==
    /\ up[b] /\ Fault
    /\ up' = [up EXCEPT ![b] = FALSE]
    /\ asked' = [asked EXCEPT ![b] = None]
    /\ UNCHANGED <<processVars, control, data, thread, exited, posted, own_seq, answer, session>>

\* readContentLengthMessage: the answer, or the end of the stream; an answer
\* larger than the buffer is an error. The buffer first, the word after.
Fill(b) ==
    /\ thread[b] = "reading"
    /\ \/ /\ answer[b] # None
          /\ \/ data' = [data EXCEPT ![b] = answer[b]] /\ UNCHANGED faults
             \/ data' = [data EXCEPT ![b] = [error |-> "large"]] /\ Fault
          /\ answer' = [answer EXCEPT ![b] = None]
          /\ UNCHANGED posted
       \/ /\ answer[b] = None /\ ~up[b]
          /\ data' = [data EXCEPT ![b] = [error |-> "closed"]]
          /\ posted' = [posted EXCEPT ![b] = TRUE]
          /\ UNCHANGED <<answer, faults>>
    /\ thread' = [thread EXCEPT ![b] = "filled"]
    /\ UNCHANGED <<processVars, control, exited, own_seq, up, asked, session>>

Signal(b) ==
    /\ thread[b] = "filled"
    /\ control' = [control EXCEPT ![b] = IF data[b] \in Failure THEN STATE_ERROR ELSE STATE_RESPONSE_READY]
    /\ thread' = [thread EXCEPT ![b] = "idle"]
    /\ UNCHANGED <<processVars, faults, data, exited, posted, own_seq, up, asked, answer, session>>

ThreadNext(b) == TakeRequest(b) \/ ServerAnswers(b) \/ ServerIsConfused(b) \/ ServerDies(b) \/ Fill(b) \/ Signal(b)

-----------------------------------------------------------------------------
(* sendRequest *)

Tell(message) ==
    /\ said' = message
    /\ told' = IF message.type = "result" THEN told + 1 ELSE told
Quiet == UNCHANGED <<said, told>>

\* Mutant: the bridge is replaced before the result is sent.
Ended_Unsent(v, unhealthy) ==
    IF mode = "parallel" /\ unhealthy THEN pc' = "restart" /\ Quiet
    ELSE Tell([type |-> "result", verdict |-> v]) /\ pc' = "reset"

\* The test has ended with verdict v: its result is sent, and what comes next is
\* said by the error (bridgeLikelyUnhealthy), or is a reset whatever it was.
Ended(v, unhealthy) ==
    /\ Tell([type |-> "result", verdict |-> v])
    /\ pc' = IF mode = "parallel" /\ unhealthy THEN "restart" ELSE "reset"

\* An error out of sendRequest ends the test, or is why the session was not reset.
Throws(v, unhealthy) ==
    IF request.command = "tsz/reset"
    THEN pc' = "restart" /\ Quiet
    ELSE Ended(v, unhealthy)

\* A bridge known to have exited refuses the request, and a request larger than
\* the buffer is refused by any.
Refuse ==
    /\ pc = "send"
    /\ (exited[bridge] /\ UNCHANGED faults) \/ Fault
    /\ Throws("fail", FALSE)
    /\ UNCHANGED <<mode, test, seq, request, bridge, candidate, attempt, gave_up, cleaned, taken, bridgeVars>>

\* The request goes into the buffer, then the word says so.
Post ==
    /\ pc = "send" /\ ~exited[bridge]
    /\ data' = [data EXCEPT ![bridge] = request]
    /\ pc' = "posted" /\ Quiet
    /\ UNCHANGED <<mode, test, seq, request, bridge, candidate, attempt, gave_up, cleaned, taken, faults>>
    /\ UNCHANGED <<control, thread, exited, posted, own_seq, up, asked, answer, session>>

Notify ==
    /\ pc = "posted"
    /\ control' = [control EXCEPT ![bridge] = STATE_REQUEST_READY]
    /\ pc' = "wait" /\ Quiet
    /\ UNCHANGED <<mode, test, seq, request, bridge, candidate, attempt, gave_up, cleaned, taken, faults>>
    /\ UNCHANGED <<data, thread, exited, posted, own_seq, up, asked, answer, session>>

\* Atomics.wait gave up, because nobody answers or the answer is late: the word
\* stays as it is, and the thread may yet answer.
TimeOut ==
    /\ pc = "wait" /\ control[bridge] = STATE_REQUEST_READY
    /\ Throws("timeout", TRUE)
    /\ UNCHANGED <<mode, test, seq, request, bridge, candidate, attempt, gave_up, cleaned, taken, faults, bridgeVars>>

\* Mutant: whatever arrives is taken for the answer.
IsAnswer_Any(r, content) == content \in Answer

\* The client, and the bridge for its own commands, check that an answer is to
\* the request: by its number, and by its command for the bridge's own.
IsAnswer(r, content) ==
    /\ content \in Answer
    /\ content.to.seq = r.seq
    /\ r.command # "lsp" => content.to.command = r.command

\* A server may refuse to reset; the other answers are what they are.
Receive ==
    /\ pc = "wait" /\ control[bridge] # STATE_REQUEST_READY
    /\ control' = [control EXCEPT ![bridge] = STATE_IDLE]
    /\ \/ /\ control[bridge] = STATE_RESPONSE_READY /\ IsAnswer(request, data[bridge])
          /\ pc' = IF request.command = "tsz/reset" THEN "cleaned" ELSE "test"
          /\ cleaned' = IF request.command = "tsz/reset" THEN "reset" ELSE cleaned
          /\ taken' = [request |-> request, answer |-> data[bridge]]
          /\ Quiet
       \/ /\ control[bridge] = STATE_RESPONSE_READY
          /\ ~IsAnswer(request, data[bridge]) \/ request.command = "tsz/reset"
          /\ Throws("fail", FALSE)
          /\ UNCHANGED <<cleaned, taken>>
       \/ /\ control[bridge] # STATE_RESPONSE_READY
          /\ Throws("fail", control[bridge] = STATE_ERROR /\ data[bridge] = [error |-> "closed"])
          /\ UNCHANGED <<cleaned, taken>>
    /\ UNCHANGED <<mode, test, seq, request, bridge, candidate, attempt, gave_up, faults>>
    /\ UNCHANGED <<data, thread, exited, posted, own_seq, up, asked, answer, session>>

-----------------------------------------------------------------------------
(* The loop over the tests *)

\* A test makes a request of the language service, or asks for the server's text.
Ask ==
    /\ pc = "test"
    /\ \/ /\ seq < MaxRequests
          /\ request' = [command |-> "lsp", test |-> test, seq |-> seq]
          /\ seq' = seq + 1
          /\ UNCHANGED own_seq
       \/ /\ own_seq[bridge] < MaxRequests
          /\ own_seq' = [own_seq EXCEPT ![bridge] = @ + 1]
          /\ request' = [command |-> "tsz/text", test |-> test, seq |-> own_seq[bridge] + 1]
          /\ UNCHANGED seq
    /\ pc' = "send" /\ Quiet
    /\ UNCHANGED <<mode, test, bridge, candidate, attempt, gave_up, cleaned, taken, faults>>
    /\ UNCHANGED <<control, data, thread, exited, posted, up, asked, answer, session>>

\* Its assertions hold, in time or not, or one of them fails.
Judge ==
    /\ pc = "test"
    /\ \E v \in {"pass", "slow", "fail"} : Ended(v, FALSE)
    /\ UNCHANGED <<mode, test, seq, request, bridge, candidate, attempt, gave_up, cleaned, taken, faults, bridgeVars>>

\* A test may also never return: only the runner's watchdog ends that.
Hang ==
    /\ pc = "test" /\ Fault
    /\ pc' = "hung" /\ Quiet
    /\ UNCHANGED <<mode, test, seq, request, bridge, candidate, attempt, gave_up, cleaned, taken, bridgeVars>>

StartTest ==
    /\ pc = "next" /\ test < Len(Tests)
    /\ Tell([type |-> "start"])
    /\ test' = test + 1 /\ seq' = 0
    /\ pc' = "test" /\ cleaned' = "no" /\ taken' = None
    /\ UNCHANGED <<mode, request, bridge, candidate, attempt, gave_up, faults, bridgeVars>>

\* resetSession: the bridge's own request, with its own number.
ResetSession ==
    /\ pc = "reset"
    /\ own_seq' = [own_seq EXCEPT ![bridge] = @ + 1]
    /\ request' = [command |-> "tsz/reset", test |-> 0, seq |-> own_seq[bridge] + 1]
    /\ pc' = "send" /\ Quiet
    /\ UNCHANGED <<mode, test, seq, bridge, candidate, attempt, gave_up, cleaned, taken, faults>>
    /\ UNCHANGED <<control, data, thread, exited, posted, up, asked, answer, session>>

\* Every so many tests the memory is looked at, and may be a reason to restart.
CheckMemory ==
    /\ pc = "cleaned"
    /\ \/ pc' = "next" /\ UNCHANGED faults
       \/ mode = "parallel" /\ pc' = "restart" /\ Fault
    /\ Quiet
    /\ UNCHANGED <<mode, test, seq, request, bridge, candidate, attempt, gave_up, cleaned, taken, bridgeVars>>

\* At an await the process hears what the threads have posted.
Heard == [b \in Bridge |-> exited[b] \/ posted[b]]

\* shutdown: nothing for a bridge that is known to have exited. A thread that is
\* terminated closes its server's input, which ends the server; its memory is gone.
ShutDown(b, known) ==
    IF known[b] THEN UNCHANGED <<control, data, answer, asked>>
    ELSE /\ control' = [control EXCEPT ![b] = STATE_SHUTDOWN]
         /\ data' = [data EXCEPT ![b] = None]
         /\ answer' = [answer EXCEPT ![b] = None]
         /\ asked' = [asked EXCEPT ![b] = None]

\* The threads and servers that run after b is shut down and what starts.
Running(b, known, starts) ==
    LET ended == IF known[b] THEN {} ELSE {b} \ starts
    IN /\ thread' = [x \in Bridge |-> IF x \in starts THEN "idle" ELSE IF x \in ended THEN "gone" ELSE thread[x]]
       /\ up' = [x \in Bridge |-> x \in starts \/ (up[x] /\ x \notin ended)]

\* restartBridge: a bridge of its own is started beside the one in use.
Restart ==
    /\ pc = "restart" /\ candidate < MaxBridges
    /\ candidate' = candidate + 1 /\ attempt' = 1
    /\ pc' = "starting" /\ Quiet
    /\ UNCHANGED <<mode, test, seq, request, bridge, gave_up, cleaned, taken, faults, bridgeVars>>

Attempts == IF mode = "parallel" THEN MaxAttempts ELSE 1

\* start: a thread that cannot be made, or dies before it is ready, leaves
\* _exited set, and startBridgeWithRetries tries the same bridge again.
StartFails ==
    /\ pc \in {"boot", "starting"} /\ attempt < Attempts /\ Fault
    /\ attempt' = attempt + 1
    /\ exited' = [Heard EXCEPT ![candidate] = TRUE]
    /\ Quiet
    /\ UNCHANGED <<mode, pc, test, seq, request, bridge, candidate, gave_up, cleaned, taken>>
    /\ UNCHANGED <<control, data, thread, posted, own_seq, up, asked, answer, session>>

\* The last attempt fails: a test process goes on with the bridge it has and
\* says so, a process that has none or runs sequentially ends.
GiveUp ==
    /\ pc \in {"boot", "starting"} /\ attempt = Attempts /\ Fault
    /\ exited' = [Heard EXCEPT ![candidate] = TRUE]
    /\ Tell([type |-> "error"])
    /\ pc' = IF pc = "boot" \/ mode = "sequential" THEN "dead" ELSE "next"
    /\ gave_up' = TRUE
    /\ UNCHANGED <<mode, test, seq, request, bridge, candidate, attempt, cleaned, taken>>
    /\ UNCHANGED <<control, data, thread, posted, own_seq, up, asked, answer, session>>

\* The bridge is ready: it replaces the one in use, which is shut down.
Started ==
    /\ pc \in {"boot", "starting"}
    /\ exited' = Heard
    /\ Running(bridge, Heard, {candidate})
    /\ IF pc = "boot"
       THEN Tell([type |-> "ready"]) /\ UNCHANGED <<control, data, answer, asked>>
       ELSE Tell([type |-> "note"]) /\ ShutDown(bridge, Heard)
    /\ bridge' = candidate
    /\ cleaned' = "new"
    /\ pc' = "next"
    /\ UNCHANGED <<mode, test, seq, request, candidate, attempt, gave_up, taken, faults, posted, own_seq, session>>

Finish ==
    /\ pc = "next" /\ test = Len(Tests)
    /\ Tell([type |-> "done"])
    /\ ShutDown(bridge, exited) /\ Running(bridge, exited, {})
    /\ pc' = "done"
    /\ UNCHANGED <<mode, test, seq, request, bridge, candidate, attempt, gave_up, cleaned, taken, faults>>
    /\ UNCHANGED <<exited, posted, own_seq, session>>

ProcessNext ==
    \/ Refuse \/ Post \/ Notify \/ TimeOut \/ Receive
    \/ Ask \/ Judge \/ Hang \/ StartTest \/ ResetSession \/ CheckMemory
    \/ Restart \/ StartFails \/ GiveUp \/ Started \/ Finish

WorkerNext == ProcessNext \/ \E b \in Bridge : ThreadNext(b)
WorkerSpec == WorkerInit /\ [][WorkerNext]_workerVars

-----------------------------------------------------------------------------
(* What a process and its bridge promise. *)

\* A request that returns, returned its own answer: no answer to an earlier
\* request that timed out is taken for it, unless the process has told the runner
\* that it could not replace a bridge (sendRequest, the number check of the client
\* and of resetSession and getText, restartBridge).
AnswersAreOwn ==
    taken # None /\ taken.answer.to # taken.request => gave_up

\* A session that was cleared is empty when the next test starts, whatever went
\* wrong before, and even when a bridge could not be replaced: a late answer is
\* never taken for the answer to the reset (resetSession).
ResetLeavesNothing == cleaned # "no" => session[bridge] = {}

\* A server hears of one test at a time: every test runs in a session of its own
\* until the process tells the runner that it goes on with a bridge it could
\* not replace ("Reset tsz-server session state after each test", test-worker.cjs).
SessionsAreIsolated ==
    \A b \in Bridge : \A t, u \in session[b] : t # u => gave_up

\* No test hears of another: not in an answer, not in what a reset leaves, not in
\* the session it runs in (runSequential, restartBridge, resetSession).
TestsAreIsolated == AnswersAreOwn /\ ResetLeavesNothing /\ SessionsAreIsolated

Done == pc \in {"done", "dead", "hung"}

\* Where the process is, as far as its messages tell.
PlaceOf ==
    [phase |-> CASE pc = "boot" -> "boot"
                 [] pc \in {"done", "dead"} -> pc
                 [] test > told -> "testing"
                 [] OTHER -> "between",
     told |-> told]

\* Whatever fails, the process tells the runner one result for each test it
\* started, in order, before it starts the next or is done: it implements the
\* contract by which the runner counts (FourslashContract).
KeepsContract ==
    [][PlaceOf' # PlaceOf => Sends(PlaceOf, said', PlaceOf', Len(Tests))]_workerVars

\* Every process ends its tests, or dies telling so, or hangs inside a test, if it goes on
\* by itself: every wait on the bridge is bounded, so
\* a dead server, a dead thread or a failing restart never blocks it.
WorkerEnds == <>Done
=============================================================================
