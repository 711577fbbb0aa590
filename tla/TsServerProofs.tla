---------------------------- MODULE TsServerProofs ----------------------------
(***************************************************************************)
(* A client that does not wait is answered in order, from the requests before *)
(* its own, and ends with the texts the server has: for every set of requests, *)
(* every compiler and every length of a session.                             *)
(***************************************************************************)
EXTENDS TsServerProperties, TLAPS

-----------------------------------------------------------------------------
(***************************************************************************)
(* The service: its snapshot cannot be seen in an answer, for every set of    *)
(* paths, texts, options and queries and every compiler.                      *)
(***************************************************************************)
IInv == TypeOK /\ KeysAreNormal /\ SnapshotIsCurrent

LEMMA InitInv == Init => IInv
<1> SUFFICES ASSUME Init PROVE IInv
    OBVIOUS
<1>1. TypeOK
    BY DEF Init, TypeOK, Texts, Edited
<1>2. KeysAreNormal
    BY DEF Init, KeysAreNormal
<1>3. SnapshotIsCurrent
    BY DEF Init, SnapshotIsCurrent
<1> QED BY <1>1, <1>2, <1>3 DEF IInv

\* A text kept under a normalised path, or none at all.
LEMMA Kept ==
    ASSUME IInv, NEW p \in Path, NEW t \in Text \cup {NotOpen},
           files' = [files EXCEPT ![normalize_path[p]] = t]
    PROVE  files' \in Texts /\ KeysAreNormal'
<1>1. normalize_path[p] \in Path /\ normalize_path[normalize_path[p]] = normalize_path[p]
    BY PathAssumption
<1>2. files \in Texts
    BY DEF IInv, TypeOK
<1>3. files' \in Texts
    BY <1>1, <1>2 DEF Texts
<1>4. ASSUME NEW x \in Path, files'[x] # NotOpen
      PROVE  normalize_path[x] = x
  <2>1. CASE x = normalize_path[p]
      BY <1>1, <2>1
  <2>2. CASE x # normalize_path[p]
      BY <1>2, <1>4, <2>2 DEF IInv, KeysAreNormal, Texts
  <2> QED BY <2>1, <2>2
<1> QED BY <1>3, <1>4 DEF KeysAreNormal

\* Every query finds the present output.
LEMMA SnapshotIsCompiled ==
    ASSUME IInv
    PROVE  Snapshot = compile /\ compile \in CompileOutput
<1>1. compile \in CompileOutput
    BY DEF IInv, TypeOK, compile, CompileOutput
<1>2. compiled_snapshot = NoOutput \/ compiled_snapshot = compile
    BY DEF IInv, SnapshotIsCurrent
<1> QED BY <1>1, <1>2 DEF Snapshot

LEMMA QueryStep ==
    ASSUME IInv, NEW target \in Target, NEW p \in Path, Query(target, p)
    PROVE  /\ IInv'
           /\ reply' = FreshAnswer(options, files, <<target, p>>)
<1>1. Snapshot = compile /\ compile \in CompileOutput
    BY SnapshotIsCompiled
<1>2. /\ reply' = AnswerFrom(compile, target, p)
      /\ compiled_snapshot' = compile
      /\ UNCHANGED <<options, files>>
    BY <1>1 DEF Query
<1>3. AnswerFrom(compile, target, p) \in Answered
    BY <1>1, PathAssumption DEF AnswerFrom, Answered
<1>4. IInv'
  <2>1. TypeOK'
      BY <1>1, <1>2, <1>3 DEF IInv, TypeOK
  <2>2. KeysAreNormal'
      BY <1>2 DEF IInv, KeysAreNormal
  <2>3. SnapshotIsCurrent'
      BY <1>2 DEF SnapshotIsCurrent, compile
  <2> QED BY <2>1, <2>2, <2>3 DEF IInv
<1>5. reply' = FreshAnswer(options, files, <<target, p>>)
    BY <1>2 DEF FreshAnswer, compile
<1> QED BY <1>4, <1>5

\* Every other step is an edit.
LEMMA EditStep ==
    ASSUME IInv, Next,
           ~ \E target \in Target, p \in Path : Query(target, p)
    PROVE  IInv' /\ Current!Edit
<1> SUFFICES /\ options' \in Options /\ files' \in Texts /\ reply' \in Edited
             /\ KeysAreNormal' /\ SnapshotIsCurrent'
             /\ compiled_snapshot' \in CompileOutput \cup {NoOutput}
    BY DEF IInv, TypeOK, Current!Edit
<1>t. /\ options \in Options /\ files \in Texts
      /\ compiled_snapshot \in CompileOutput \cup {NoOutput}
      /\ KeysAreNormal /\ SnapshotIsCurrent
    BY DEF IInv, TypeOK
<1>d. Nothing \in Edited /\ Done(TRUE) \in Edited /\ Done(FALSE) \in Edited
    BY DEF Edited
<1>1. CASE \E o \in Options : Configure(o)
  <2> PICK o \in Options : Configure(o)
      BY <1>1
  <2> QED BY <1>t, <1>d DEF Configure, KeysAreNormal, SnapshotIsCurrent
<1>2. CASE \E p \in Path, t \in Text : Open(p, t)
  <2> PICK p \in Path, t \in Text : Open(p, t)
      BY <1>2
  <2>1. files' \in Texts /\ KeysAreNormal'
      BY Kept DEF Open
  <2> QED BY <1>t, <1>d, <2>1 DEF Open, SnapshotIsCurrent
<1>3. CASE \E p \in Path, t \in Text : Change(p, t)
  <2> PICK p \in Path, t \in Text : Change(p, t)
      BY <1>3
  <2>1. files' \in Texts /\ KeysAreNormal'
      BY Kept DEF Change
  <2> QED BY <1>t, <1>d, <2>1 DEF Change, SnapshotIsCurrent
<1>4. CASE \E p \in Path : ChangeUnknown(p)
  <2> PICK p \in Path : ChangeUnknown(p)
      BY <1>4
  <2> QED BY <1>t, <1>d DEF ChangeUnknown, KeysAreNormal, SnapshotIsCurrent, compile
<1>5. CASE \E p \in Path : Close(p)
  <2> PICK p \in Path : Close(p)
      BY <1>5
  <2>1. files' \in Texts /\ KeysAreNormal'
      BY Kept DEF Close
  <2>2. reply' \in Edited
    <3>1. Done(IsOpen(p)) \in Edited
        BY DEF Done, Edited, IsOpen
    <3> QED BY <3>1 DEF Close
  <2>3. CASE IsOpen(p)
      BY <1>t, <2>1, <2>2, <2>3 DEF Close, SnapshotIsCurrent
  <2>4. CASE ~IsOpen(p)
    <3>1. files' = files
        BY <1>t, <2>4, PathAssumption DEF Close, IsOpen, Texts
    <3>2. options' = options /\ compiled_snapshot' = compiled_snapshot
        BY <2>4 DEF Close
    <3> QED BY <1>t, <2>1, <2>2, <3>1, <3>2 DEF SnapshotIsCurrent, compile
  <2> QED BY <2>3, <2>4
<1>6. CASE Reset
  <2>1. files' \in Texts /\ KeysAreNormal'
      BY <1>6 DEF Reset, Texts, KeysAreNormal
  <2> QED BY <1>t, <1>d, <1>6, <2>1 DEF Reset, SnapshotIsCurrent
<1> QED BY <1>1, <1>2, <1>3, <1>4, <1>5, <1>6 DEF Next

LEMMA Step ==
    ASSUME IInv, [Next]_vars
    PROVE  IInv' /\ [Current!Next]_(Current!vars)
<1>1. CASE \E target \in Target, p \in Path : Query(target, p)
  <2> PICK target \in Target, p \in Path : Query(target, p)
      BY <1>1
  <2>1. IInv' /\ reply' = FreshAnswer(options, files, <<target, p>>)
      BY QueryStep
  <2>2. <<target, p>> \in Question /\ UNCHANGED <<options, files>>
      BY DEF Question, Query
  <2>3. Current!Ask
      BY <2>1, <2>2 DEF Current!Ask
  <2> QED BY <2>1, <2>3 DEF Current!Next
<1>2. CASE Next /\ ~ \E target \in Target, p \in Path : Query(target, p)
    BY <1>2, EditStep DEF Current!Next
<1>3. CASE UNCHANGED vars
    BY <1>3 DEF vars, Current!vars, IInv, TypeOK, KeysAreNormal, SnapshotIsCurrent, compile
<1> QED BY <1>1, <1>2, <1>3

-----------------------------------------------------------------------------
LEMMA Inductive == Spec => []IInv
<1> QED BY InitInv, Step, PTL DEF Spec

\* Every variable of the service keeps its type (LanguageService).
THEOREM TypeCorrect == Spec => []TypeOK
<1>1. IInv => TypeOK
    BY DEF IInv
<1> QED BY <1>1, Inductive, PTL

\* However a path is spelled in the calls, a file is kept once (normalize_path).
THEOREM OneCopyOfEachFile == Spec => []KeysAreNormal
<1>1. IInv => KeysAreNormal
    BY DEF IInv
<1> QED BY <1>1, Inductive, PTL

\* A snapshot is never older than the options and the texts (compiled_snapshot).
THEOREM SnapshotNeverStale == Spec => []SnapshotIsCurrent
<1>1. IInv => SnapshotIsCurrent
    BY DEF IInv
<1> QED BY <1>1, Inductive, PTL

\* The service implements the one that compiles for every query: each step is
\* an edit, a query answered from the present options and texts, or a stutter.
THEOREM Refinement == Spec => AnswersAreCurrent
<1>1. Init => Current!Init
    BY InitInv DEF Init, IInv, TypeOK, Current!Init, Edited
<1>2. Spec => Current!Spec
    BY <1>1, Inductive, Step, PTL DEF Spec, Current!Spec
<1> QED BY <1>2 DEF AnswersAreCurrent

-----------------------------------------------------------------------------
(***************************************************************************)
(* What the service may become by a request that succeeds.                   *)
(***************************************************************************)
State == [options : Options, files : Texts]
Present == [options |-> options, files |-> files]

Put(s, p, t) == [options |-> s.options, files |-> [s.files EXCEPT ![normalize_path[p]] = t]]

Edits == {"compilerOptionsForInferredProjects", "tsz/reset", "open", "close", "change"}

Succeeds(r, s, t) ==
    /\ r.command \in {"open", "close", "change"} => r.file \in Path
    /\ r.command = "compilerOptionsForInferredProjects" =>
          t.options = r.options /\ t.files = s.files
    /\ r.command = "tsz/reset" =>
          t.options = s.options /\ t.files = [p \in Path |-> NotOpen]
    /\ r.command = "open" =>
          \E x \in Text : (x = r.content \/ r.content = OnDisk) /\ t = Put(s, r.file, x)
    /\ r.command = "close" => t = Put(s, r.file, NotOpen)
    /\ r.command = "change" =>
          LET x == IF r.content \in Text THEN r.content
                   ELSE Splice(s.files[normalize_path[r.file]], r.content)
          IN  x \in Text /\ s.files[normalize_path[r.file]] \in Text /\ t = Put(s, r.file, x)
    /\ r.command \notin Edits => t = s

\* What a response says of the request r, which found s and left t.
Honest(r, s, t, success, body) ==
    /\ IF success THEN Succeeds(r, s, t) ELSE t = s
    /\ body.op = "answer" => body.output = [options |-> s.options, texts |-> s.files]
    /\ body.op = "text" => body.path \in Path /\ s.files[body.path] = body.text

View == [options : Options, files : [Path -> Text \cup {NotOpen, Unknown}]]
Body == {NoBody} \cup Answered \cup [op : {"text"}, path : Path, text : Text]
Response == [seq : Nat, request_seq : Nat, success : BOOLEAN, body : Body]
Writing == [op : {"write"}, exit : BOOLEAN, response : Response]

-----------------------------------------------------------------------------
(***************************************************************************)
(* The inductive invariant.  h[n] is what the options and the texts were once  *)
(* n requests had been handled: the responses under way lead from the state    *)
(* the client's view agrees with to the present one.                         *)
(***************************************************************************)
SessionType ==
    /\ sent \in Seq(Frame)
    /\ input \in Seq(Frame \cup {Garbled})
    /\ ending \in {"open", "garbled", "clean", "body"}
    /\ output \in Seq(Response)
    /\ control \in {Running, Stopped(TRUE), Stopped(FALSE)} \cup Writing
    /\ sequence \in Nat
    /\ received \in Nat
    /\ view \in View

\* The input is what is left of the requests that were sent, and what ended them.
InputIsRest ==
    /\ \A i \in DOMAIN sent : sent[i].seq = i
    /\ sequence <= Len(sent)
    /\ Len(input) = (Len(sent) - sequence) + (IF ending = "garbled" THEN 1 ELSE 0)
    /\ \A i \in 1..(Len(sent) - sequence) : input[i] = sent[sequence + i]
    /\ \A i \in 1..Len(input) : i > Len(sent) - sequence => input[i] = Garbled

OutputIsNumbered ==
    /\ Answers <= sequence
    /\ control = Running => Answers = sequence
    /\ \A i \in DOMAIN output : output[i].seq = received + i /\ output[i].request_seq = received + i
    /\ control.op = "write" =>
          /\ sequence > 0
          /\ Answers = sequence - 1
          /\ control.response.seq = sequence
          /\ control.response.request_seq = sequence
          /\ control.exit = (sent[sequence].request.command = "exit")

EndsWell ==
    control = Stopped(TRUE) =>
        \/ Answers = Len(sent) /\ ending = "clean"
        \/ Answers > 0 /\ sent[Answers].request.command = "exit"

Explains(h, response) ==
    LET n == response.request_seq
    IN  Honest(sent[n].request, h[n - 1], h[n], response.success, response.body)

Explained(h) ==
    /\ h[sequence] = Present
    /\ AgreeOn(view, h[received].options, h[received].files)
    /\ \A i \in DOMAIN output : Explains(h, output[i])
    /\ control.op = "write" => Explains(h, control.response)

ServerInv ==
    /\ IInv
    /\ SessionType
    /\ InputIsRest
    /\ OutputIsNumbered
    /\ EndsWell
    /\ \E h \in [Nat -> State] : Explained(h)

-----------------------------------------------------------------------------
LEMMA Kinds ==
    ASSUME NEW r \in Request
    PROVE  /\ r.command = "compilerOptionsForInferredProjects" => r.options \in Options
           /\ r.command \in {"open", "close", "change", "tsz/text"} \cup Target =>
                 "file" \in DOMAIN r /\ r.file \in Path \cup {NoFile}
           /\ "file" \in DOMAIN r =>
                 r.command \in {"open", "close", "change", "tsz/text"} \cup Target
           /\ r.command \in Command \cup Target
           /\ r.command = "open" => r.content \in Text \cup {OnDisk, Malformed}
           /\ r.command = "change" => r.content \in Text \cup TextEdit
           /\ r.command = "exit" => "file" \notin DOMAIN r
<1>1. r \in AnyRequest
    BY ServerAssumption
<1>2. CASE r \in [command : {"compilerOptionsForInferredProjects"}, options : Options]
    BY <1>2, ServerAssumption DEF Command
<1>3. CASE r \in [command : {"configure", "exit", "tsz/reset", "unknown"}]
    BY <1>3, ServerAssumption DEF Command
<1>4. CASE r \in [command : {"open"}, file : Path \cup {NoFile}, content : Text \cup {OnDisk, Malformed}]
    BY <1>4, ServerAssumption DEF Command
<1>5. CASE r \in [command : {"close", "tsz/text"}, file : Path \cup {NoFile}]
    BY <1>5, ServerAssumption DEF Command
<1>6. CASE r \in [command : {"change"}, file : Path \cup {NoFile}, content : Text \cup TextEdit]
    BY <1>6, ServerAssumption DEF Command
<1>7. CASE r \in [command : Target \ Navigation, file : Path \cup {NoFile}]
    BY <1>7, ServerAssumption DEF Command
<1>8. CASE r \in [command : Navigation, file : Path \cup {NoFile}, position : Position]
    BY <1>8, ServerAssumption DEF Command
<1> QED BY <1>1, <1>2, <1>3, <1>4, <1>5, <1>6, <1>7, <1>8 DEF AnyRequest

\* What the client makes of a success is what the server did.
LEMMA EffectAgrees ==
    ASSUME NEW r \in Request, NEW s \in State, NEW t \in State, view \in View,
           Succeeds(r, s, t), AgreeOn(view, s.options, s.files)
    PROVE  Effect(r) \in View /\ AgreeOn(Effect(r), t.options, t.files)
<1>s. s.options \in Options /\ s.files \in Texts /\ t.options \in Options /\ t.files \in Texts
    BY DEF State
<1>v. view.options \in Options /\ view.files \in [Path -> Text \cup {NotOpen, Unknown}]
    BY DEF View
<1>a. view.options = s.options /\ \A p \in Path : Agree(view.files[p], s.files[p])
    BY DEF AgreeOn
<1>w. ASSUME NEW p \in Path, NEW x \in Text \cup {NotOpen}, NEW y \in Text \cup {NotOpen, Unknown},
             Agree(y, x), t = Put(s, p, x), Effect(r) = With(p, y)
      PROVE  Effect(r) \in View /\ AgreeOn(Effect(r), t.options, t.files)
  <2>1. normalize_path[p] \in Path
      BY PathAssumption
  <2>2. With(p, y) = [options |-> view.options, files |-> [view.files EXCEPT ![normalize_path[p]] = y]]
      BY DEF With, View
  <2>3. Effect(r).options = view.options /\ Effect(r).files = [view.files EXCEPT ![normalize_path[p]] = y]
      BY <1>w, <2>2
  <2>4. t.options = s.options /\ t.files = [s.files EXCEPT ![normalize_path[p]] = x]
      BY <1>w DEF Put
  <2>5. Effect(r) \in View
      BY <1>w, <1>v, <2>1, <2>2 DEF View
  <2>6. ASSUME NEW q \in Path
        PROVE  Agree(Effect(r).files[q], t.files[q])
    <3>1. CASE q = normalize_path[p]
        BY <1>w, <1>v, <1>s, <2>3, <2>4, <3>1 DEF Texts
    <3>2. CASE q # normalize_path[p]
        BY <1>a, <1>v, <1>s, <2>3, <2>4, <3>2 DEF Texts
    <3> QED BY <3>1, <3>2
  <2> QED BY <1>a, <2>3, <2>4, <2>5, <2>6 DEF AgreeOn
<1>1. CASE r.command = "compilerOptionsForInferredProjects"
  <2>1. Effect(r) = [options |-> r.options, files |-> view.files]
      BY <1>1 DEF Effect, View
  <2>2. t.options = r.options /\ t.files = s.files
      BY <1>1 DEF Succeeds
  <2>3. r.options \in Options
      BY <1>1, Kinds
  <2> QED BY <1>a, <1>v, <2>1, <2>2, <2>3 DEF View, AgreeOn
<1>2. CASE r.command = "tsz/reset"
  <2>1. Effect(r) = [options |-> view.options, files |-> [p \in Path |-> NotOpen]]
      BY <1>2 DEF Effect, View
  <2>2. t.options = s.options /\ t.files = [p \in Path |-> NotOpen]
      BY <1>2 DEF Succeeds
  <2> QED BY <1>a, <1>v, <2>1, <2>2 DEF View, AgreeOn, Agree
<1>3. CASE r.command = "open"
  <2>1. PICK x \in Text : (x = r.content \/ r.content = OnDisk) /\ t = Put(s, r.file, x)
      BY <1>3 DEF Succeeds
  <2>2. r.file \in Path /\ r.content \in Text \cup {OnDisk, Malformed}
      BY <1>3, Kinds DEF Succeeds
  <2>3. Effect(r) = With(r.file, IF r.content = OnDisk THEN Unknown ELSE r.content)
      BY <1>3 DEF Effect
  <2>4. CASE r.content = OnDisk
    <3>1. Effect(r) = With(r.file, Unknown) /\ Agree(Unknown, x)
        BY <2>3, <2>4 DEF Agree
    <3> QED BY <1>w, <2>1, <2>2, <3>1
  <2>5. CASE r.content # OnDisk
    <3>1. Effect(r) = With(r.file, x) /\ Agree(x, x)
        BY <2>1, <2>3, <2>5 DEF Agree
    <3> QED BY <1>w, <2>1, <2>2, <3>1
  <2> QED BY <2>4, <2>5
<1>4. CASE r.command = "close"
  <2>1. r.file \in Path /\ t = Put(s, r.file, NotOpen)
      BY <1>4 DEF Succeeds
  <2>2. Effect(r) = With(r.file, NotOpen) /\ Agree(NotOpen, NotOpen)
      BY <1>4 DEF Effect, Agree
  <2> QED BY <1>w, <2>1, <2>2
<1>5. CASE r.command = "change"
  <2> DEFINE p == normalize_path[r.file]
             x == IF r.content \in Text THEN r.content ELSE Splice(s.files[p], r.content)
             y == IF r.content \in Text THEN r.content
                  ELSE IF view.files[p] = Unknown THEN Unknown
                  ELSE Splice(view.files[p], r.content)
  <2>1. r.file \in Path /\ p \in Path
      BY <1>5, PathAssumption DEF Succeeds
  <2>2. x \in Text /\ s.files[p] \in Text /\ t = Put(s, r.file, x)
      BY <1>5 DEF Succeeds
  <2>3. Effect(r) = With(r.file, y)
      BY <1>5 DEF Effect
  <2>4. y = x \/ y = Unknown
      BY <1>a, <2>1 DEF Agree
  <2>5. Agree(y, x) /\ y \in Text \cup {NotOpen, Unknown}
      BY <2>2, <2>4 DEF Agree
  <2> HIDE DEF x, y, p
  <2> QED BY <1>w, <2>1, <2>2, <2>3, <2>5
<1>6. CASE r.command \notin Edits
  <2>1. Effect(r) = view
      BY <1>6 DEF Effect, Edits
  <2>2. t = s
      BY <1>6 DEF Succeeds
  <2> QED BY <2>1, <2>2
<1> QED BY <1>1, <1>2, <1>3, <1>4, <1>5, <1>6 DEF Edits

-----------------------------------------------------------------------------
(***************************************************************************)
(* Every branch of dispatch is a call of the service, or none, and a response *)
(* that is honest about it.                                                  *)
(***************************************************************************)
Responds(success, body) ==
    /\ Respond(success, body)
    /\ [Next]_vars
    /\ Honest(request, Present, Present', success, body)

LEMMA Unchanged ==
    ASSUME IInv, UNCHANGED service
    PROVE  [Next]_vars /\ Present' = Present
BY DEF service, vars, Present

LEMMA EditResponds ==
    ASSUME IInv, request \in Request,
           ConfigureRequest \/ OpenRequest \/ CloseRequest \/ ChangeRequest \/ ResetRequest
    PROVE  Responds(TRUE, NoBody)
<1> DEFINE r == request
<1>k. /\ r.command = "compilerOptionsForInferredProjects" => r.options \in Options
      /\ r.command \in {"open", "close", "change"} => r.file \in Path \cup {NoFile}
      /\ r.command = "change" => r.content \in Text \cup TextEdit
    BY Kinds
<1>t. files \in Texts /\ options \in Options
    BY DEF IInv, TypeOK
<1>h. Succeeds(r, Present, Present') => Honest(r, Present, Present', TRUE, NoBody)
    BY DEF Honest, NoBody
<1> HIDE DEF r
<1>1. CASE ConfigureRequest
  <2>1. r.command = "compilerOptionsForInferredProjects" /\ Configure(r.options) /\ Respond(TRUE, NoBody)
      BY <1>1 DEF ConfigureRequest, r
  <2>2. Next
      BY <1>k, <2>1 DEF Next
  <2>3. Succeeds(r, Present, Present')
      BY <2>1 DEF Succeeds, Configure, Present, Edits
  <2> QED BY <1>h, <2>1, <2>2, <2>3 DEF Responds, r
<1>2. CASE OpenRequest
  <2>1. PICK x \in Text : (x = r.content \/ r.content = OnDisk) /\ Open(r.file, x)
      BY <1>2 DEF OpenRequest, r
  <2>2. r.command = "open" /\ r.file \in Path /\ Respond(TRUE, NoBody)
      BY <1>2, <1>k DEF OpenRequest, HasFile, r
  <2>3. Next
      BY <2>1, <2>2 DEF Next
  <2>4. Present' = Put(Present, r.file, x)
      BY <2>1 DEF Open, Present, Put
  <2>5. Succeeds(r, Present, Present')
      BY <2>1, <2>2, <2>4 DEF Succeeds, Edits
  <2> QED BY <1>h, <2>2, <2>3, <2>5 DEF Responds, r
<1>3. CASE CloseRequest
  <2>1. r.command = "close" /\ r.file \in Path /\ Close(r.file) /\ Respond(TRUE, NoBody)
      BY <1>3, <1>k DEF CloseRequest, HasFile, r
  <2>2. Next
      BY <2>1 DEF Next
  <2>3. Present' = Put(Present, r.file, NotOpen)
      BY <2>1 DEF Close, Present, Put
  <2>4. Succeeds(r, Present, Present')
      BY <2>1, <2>3 DEF Succeeds, Edits
  <2> QED BY <1>h, <2>1, <2>2, <2>4 DEF Responds, r
<1>4. CASE ChangeRequest
  <2> DEFINE x == IF r.content \in Text THEN r.content ELSE Splice(files[normalize_path[r.file]], r.content)
  <2>1. /\ r.command = "change" /\ r.file \in Path /\ Respond(TRUE, NoBody)
        /\ x # Outside /\ Change(r.file, x)
      BY <1>4, <1>k DEF ChangeRequest, HasFile, Applied, current, text, r
  <2>2. normalize_path[r.file] \in Path /\ files[normalize_path[r.file]] \in Text
      BY <2>1, <1>t, PathAssumption DEF Change, IsOpen, Texts
  <2>3. x \in Text
      BY <2>1, <2>2, <1>k, ServerAssumption
  <2>4. Next
      BY <2>1, <2>3 DEF Next
  <2>5. Present' = Put(Present, r.file, x)
      BY <2>1 DEF Change, Present, Put
  <2>6. Succeeds(r, Present, Present')
      BY <2>1, <2>2, <2>3, <2>5 DEF Succeeds, Edits, Present
  <2> QED BY <1>h, <2>1, <2>4, <2>6 DEF Responds, r
<1>5. CASE ResetRequest
  <2>1. r.command = "tsz/reset" /\ Reset /\ Respond(TRUE, NoBody)
      BY <1>5 DEF ResetRequest, r
  <2>2. Succeeds(r, Present, Present')
      BY <2>1 DEF Succeeds, Reset, Present, Edits
  <2> QED BY <1>h, <2>1, <2>2 DEF Responds, Next, r
<1> QED BY <1>1, <1>2, <1>3, <1>4, <1>5

\* A query finds the options and the texts as they are and leaves them alone.
LEMMA QueryResponds ==
    ASSUME IInv, request \in Request, request.file \in Path, request.command \in Target,
           Query(request.command, request.file),
           NEW success \in BOOLEAN, NEW body, body = IF success THEN reply' ELSE NoBody,
           Respond(success, body)
    PROVE  body \in Body /\ Responds(success, body)
<1> DEFINE r == request
<1>1. /\ reply' = AnswerFrom(compile, r.command, r.file)
      /\ UNCHANGED <<options, files>>
      /\ compile \in CompileOutput
    BY SnapshotIsCompiled DEF Query
<1>2. reply' \in Answered /\ reply'.op = "answer" /\ reply'.output = compile
    BY <1>1, PathAssumption DEF AnswerFrom, Answered
<1>3. body \in Body /\ (body.op = "answer" => body.output = compile) /\ body.op # "text"
    BY <1>2 DEF Body, NoBody
<1>4. Present' = Present
    BY <1>1 DEF Present
<1>5. compile = [options |-> Present.options, texts |-> Present.files]
    BY DEF compile, Present
<1>6. r.command \notin Edits
    BY ServerAssumption DEF Edits, Command
<1>7. Succeeds(r, Present, Present')
    BY <1>4, <1>6 DEF Succeeds, Edits
<1>8. Honest(r, Present, Present', success, body)
    BY <1>3, <1>4, <1>5, <1>7 DEF Honest
<1>9. Next
    BY DEF Next
<1> QED BY <1>3, <1>8, <1>9 DEF Responds

LEMMA HandleResponds ==
    ASSUME IInv, request \in Request, Handle
    PROVE  Reading /\ \E success \in BOOLEAN, body \in Body : Responds(success, body)
<1> DEFINE r == request
<1>1. Reading
    BY DEF Handle, ConfigureRequest, PlainRequest, UnknownRequest, FileMissing, OpenRequest,
           OpenRejected, CloseRequest, ChangeRequest, ChangeRejected, ResetRequest, TextRequest,
           DiagnosticsRequest, NavigationRequest, NavigationRejected
<1>b. NoBody \in Body
    BY DEF Body
<1>2. CASE ConfigureRequest \/ OpenRequest \/ CloseRequest \/ ChangeRequest \/ ResetRequest
    BY <1>1, <1>2, <1>b, EditResponds
<1>3. CASE UnknownRequest \/ FileMissing \/ OpenRejected \/ ChangeRejected \/ NavigationRejected
  <2>1. Respond(FALSE, NoBody) /\ UNCHANGED service
      BY <1>3 DEF UnknownRequest, FileMissing, OpenRejected, ChangeRejected, NavigationRejected, Reject
  <2>2. [Next]_vars /\ Present' = Present
      BY <2>1, Unchanged
  <2>3. Honest(r, Present, Present', FALSE, NoBody)
      BY <2>2 DEF Honest, NoBody
  <2> QED BY <1>1, <1>b, <2>1, <2>2, <2>3 DEF Responds
<1>4. CASE PlainRequest
  <2>1. Respond(TRUE, NoBody) /\ UNCHANGED service /\ r.command \in {"configure", "exit"}
      BY <1>4 DEF PlainRequest
  <2>2. [Next]_vars /\ Present' = Present
      BY <2>1, Unchanged
  <2>3. Honest(r, Present, Present', TRUE, NoBody)
      BY <2>1, <2>2 DEF Honest, NoBody, Succeeds, Edits
  <2> QED BY <1>1, <1>b, <2>1, <2>2, <2>3 DEF Responds
<1>5. CASE TextRequest
  <2>1. r.command = "tsz/text" /\ r.file \in Path /\ UNCHANGED service
      BY <1>5, Kinds DEF TextRequest, HasFile
  <2>2. [Next]_vars /\ Present' = Present
      BY <2>1, Unchanged
  <2>3. Succeeds(r, Present, Present')
      BY <2>1, <2>2 DEF Succeeds, Edits
  <2>4. CASE current = NotOpen
    <3>1. Respond(FALSE, NoBody)
        BY <1>5, <2>4 DEF TextRequest
    <3>2. Honest(r, Present, Present', FALSE, NoBody)
        BY <2>2 DEF Honest, NoBody
    <3> QED BY <1>1, <1>b, <2>2, <3>1, <3>2 DEF Responds
  <2>5. CASE current # NotOpen
    <3> DEFINE body == [op |-> "text", path |-> normalize_path[r.file], text |-> current]
    <3>1. Respond(TRUE, body)
        BY <1>5, <2>5 DEF TextRequest
    <3>2. normalize_path[r.file] \in Path
        BY <2>1, PathAssumption
    <3>3. files \in Texts
        BY DEF IInv, TypeOK
    <3>4. current \in Text /\ current = Present.files[normalize_path[r.file]]
        BY <2>5, <3>2, <3>3 DEF current, text, Texts, Present
    <3>5. body \in Body
        BY <3>2, <3>4 DEF Body
    <3>6. Honest(r, Present, Present', TRUE, body)
        BY <2>2, <2>3, <3>2, <3>4 DEF Honest
    <3> QED BY <1>1, <2>2, <3>1, <3>5, <3>6 DEF Responds
  <2> QED BY <2>4, <2>5
<1>6. CASE DiagnosticsRequest
  <2>1. r.command \in Target /\ Query(r.command, r.file) /\ r.file \in Path
      BY <1>6, Kinds DEF DiagnosticsRequest, HasFile
  <2>2. reply'.claimed \in BOOLEAN
      BY <2>1 DEF Query, AnswerFrom
  <2>3. Respond(reply'.claimed, IF reply'.claimed THEN reply' ELSE NoBody)
      BY <1>6 DEF DiagnosticsRequest
  <2> QED BY <1>1, <2>1, <2>2, <2>3, QueryResponds
<1>7. CASE NavigationRequest
  <2>1. r.command \in Target /\ Query(r.command, r.file) /\ r.file \in Path
      BY <1>7, Kinds, ServerAssumption DEF NavigationRequest, HasFile
  <2>2. Presentable \in BOOLEAN
      BY <2>1 DEF Presentable, Query, AnswerFrom
  <2>3. Respond(Presentable, IF Presentable THEN reply' ELSE NoBody)
      BY <1>7 DEF NavigationRequest
  <2> QED BY <1>1, <2>1, <2>2, <2>3, QueryResponds
<1> QED BY <1>2, <1>3, <1>4, <1>5, <1>6, <1>7 DEF Handle

-----------------------------------------------------------------------------
(***************************************************************************)
(* The steps of the session.                                                 *)
(***************************************************************************)
\* What the loop reads, when it can read a request, is the next that was sent.
LEMMA NextRequest ==
    ASSUME SessionType, InputIsRest, control = Running, input # <<>>, Head(input) # Garbled
    PROVE  /\ sequence + 1 \in DOMAIN sent
           /\ Head(input) = sent[sequence + 1]
           /\ request \in Request
           /\ Head(input).seq = sequence + 1
<1>1. Len(input) > 0 /\ Head(input) = input[1]
    BY DEF SessionType
<1>2. sequence < Len(sent)
    BY <1>1 DEF SessionType, InputIsRest
<1>3. sequence + 1 \in DOMAIN sent /\ Head(input) = sent[sequence + 1]
    BY <1>1, <1>2 DEF SessionType, InputIsRest
<1>4. sent[sequence + 1] \in Frame
    BY <1>3 DEF SessionType
<1> QED BY <1>3, <1>4 DEF InputIsRest, request, Frame

LEMMA RespondStep ==
    ASSUME ServerInv, control = Running, input # <<>>, Head(input) # Garbled,
           NEW success \in BOOLEAN, NEW body \in Body, Responds(success, body)
    PROVE  ServerInv'
<1> PICK n : n = sequence + 1
    OBVIOUS
<1>n. /\ n \in DOMAIN sent
      /\ Head(input) = sent[n]
      /\ request = sent[n].request
      /\ Head(input).seq = n
    BY NextRequest DEF ServerInv, request
<1>r. /\ sequence' = n
      /\ control' = [op |-> "write", exit |-> request.command = "exit",
                     response |-> [seq |-> n, request_seq |-> n, success |-> success, body |-> body]]
      /\ input' = Tail(input)
      /\ UNCHANGED <<ending, output, sent, received, view>>
    BY <1>n DEF Responds, Respond, client
<1>t. SessionType
    BY DEF ServerInv
<1>1. IInv'
    BY Step DEF ServerInv, Responds
<1>2. SessionType'
  <2>1. input' \in Seq(Frame \cup {Garbled})
      BY <1>r, <1>t DEF SessionType
  <2>2. control' \in Writing
      BY <1>r, <1>t DEF SessionType, Writing, Response
  <2>3. sequence' \in Nat /\ sent' = sent /\ output' = output /\ received' = received /\ view' = view /\ ending' = ending
      BY <1>r, <1>t DEF SessionType
  <2> QED BY <1>t, <2>1, <2>2, <2>3 DEF SessionType
<1>3. InputIsRest'
  <2>1. /\ Len(sent) \in Nat /\ Len(input) \in Nat \ {0} /\ n <= Len(sent)
        /\ Len(input') = Len(input) - 1
        /\ \A i \in 1..Len(input') : input'[i] = input[i + 1]
      BY <1>n, <1>r, <1>t DEF SessionType
  <2>2. InputIsRest /\ sequence \in Nat
      BY <1>t DEF ServerInv, SessionType
  <2>3. Len(input') = (Len(sent) - n) + (IF ending = "garbled" THEN 1 ELSE 0)
      BY <2>1, <2>2 DEF InputIsRest
  <2>4. ASSUME NEW i \in 1..(Len(sent) - n)
        PROVE  input'[i] = sent[n + i]
    <3>1. i + 1 \in 1..(Len(sent) - sequence) /\ i \in 1..Len(input')
        BY <2>1, <2>2, <2>3
    <3>2. input'[i] = sent[sequence + (i + 1)]
        BY <2>1, <2>2, <3>1 DEF InputIsRest
    <3>3. sequence + (i + 1) = n + i
        BY <2>2
    <3> QED BY <3>2, <3>3
  <2>5. ASSUME NEW i \in 1..Len(input'), i > Len(sent) - n
        PROVE  input'[i] = Garbled
    <3>1. i + 1 \in 1..Len(input) /\ i + 1 > Len(sent) - sequence
        BY <2>1, <2>2, <2>5
    <3>2. input[i + 1] = Garbled
        BY <2>2, <3>1 DEF InputIsRest
    <3> QED BY <2>1, <3>2
  <2> QED BY <1>r, <2>1, <2>2, <2>3, <2>4, <2>5 DEF InputIsRest
<1>4. OutputIsNumbered'
  <2>1. Answers = sequence /\ Answers' = Answers
      BY <1>r DEF ServerInv, OutputIsNumbered, Answers
  <2>2. control'.op = "write" /\ control' # Running
      BY <1>r DEF Running
  <2> QED BY <1>n, <1>r, <1>t, <2>1, <2>2 DEF ServerInv, SessionType, OutputIsNumbered
<1>5. EndsWell'
    BY <1>r DEF EndsWell, Stopped
<1>6. \E h \in [Nat -> State] : Explained(h)'
  <2> PICK h \in [Nat -> State] : Explained(h)
      BY DEF ServerInv
  <2>1. PICK t \in State : t = Present'
      BY <1>1 DEF IInv, TypeOK, Present, State
  <2>0. PICK g : g = [h EXCEPT ![n] = t]
      OBVIOUS
  <2>2. g \in [Nat -> State] /\ n \in Nat /\ g[n] = Present'
      BY <2>0, <2>1, <1>t DEF SessionType
  <2>3. \A i \in Nat : i # n => g[i] = h[i]
      BY <2>0
  <2>4. received # n
      BY <1>t DEF ServerInv, SessionType, OutputIsNumbered, Answers
  <2>5. AgreeOn(view, g[received].options, g[received].files)
      BY <1>t, <2>3, <2>4 DEF Explained, SessionType
  <2>6. ASSUME NEW i \in DOMAIN output
        PROVE  Explains(g, output[i])
    <3> DEFINE k == output[i].request_seq
    <3>1. i \in Nat \ {0} /\ k = received + i /\ k <= sequence /\ k \in Nat /\ k - 1 \in Nat
        BY <1>t DEF ServerInv, SessionType, OutputIsNumbered, Answers
    <3>2. g[k] = h[k] /\ g[k - 1] = h[k - 1]
        BY <1>t, <2>3, <3>1 DEF SessionType
    <3>3. Explains(h, output[i])
        BY DEF Explained
    <3> QED BY <3>2, <3>3 DEF Explains
  <2>7. Explains(g, control'.response)
    <3>1. g[n - 1] = Present
        BY <1>t, <2>3 DEF Explained, SessionType
    <3>2. Honest(sent[n].request, g[n - 1], g[n], success, body)
        BY <1>n, <2>2, <3>1 DEF Responds
    <3>3. /\ control'.response.request_seq = n
          /\ control'.response.success = success
          /\ control'.response.body = body
        BY <1>r
    <3> QED BY <3>2, <3>3 DEF Explains
  <2>8. (\A i \in DOMAIN output : Explains(g, output[i]))'
      BY <1>r, <2>6 DEF Explains
  <2>9. Explains(g, control.response)'
      BY <1>r, <2>7 DEF Explains
  <2>10. g[sequence'] = Present'
      BY <1>r, <2>2
  <2>11. AgreeOn(view', g[received'].options, g[received'].files)
      BY <1>r, <2>5
  <2>12. Explained(g)'
      BY <2>8, <2>9, <2>10, <2>11 DEF Explained, AgreeOn, Agree
  <2> QED BY <2>2, <2>12
<1> QED BY <1>1, <1>2, <1>3, <1>4, <1>5, <1>6 DEF ServerInv

\* A response that is written explains what it explained before.
LEMMA WriteStep ==
    ASSUME ServerInv, control.op = "write",
           output' = Append(output, control.response),
           control' \in {Running, Stopped(TRUE), Stopped(FALSE)},
           control' = Stopped(TRUE) => control.exit,
           UNCHANGED <<service, input, ending, sequence, client>>
    PROVE  ServerInv'
<1>u. UNCHANGED <<options, files, compiled_snapshot, reply, input, ending, sequence, sent, received, view>>
    BY DEF service, client
<1>t. SessionType /\ OutputIsNumbered /\ InputIsRest
    BY DEF ServerInv
<1>c. control \in Writing
    BY <1>t DEF SessionType, Running, Stopped
<1>r. control.response \in Response
    BY <1>c DEF Writing
<1>o. /\ Len(output') = Len(output) + 1
      /\ \A i \in DOMAIN output : output'[i] = output[i]
      /\ output'[Len(output) + 1] = control.response
      /\ DOMAIN output' = DOMAIN output \cup {Len(output) + 1}
      /\ Len(output) \in Nat
      /\ output' \in Seq(Response)
    BY <1>t, <1>r DEF SessionType
<1>a. sequence \in Nat \ {0} /\ Answers = sequence - 1 /\ Answers' = sequence /\ received \in Nat
    BY <1>o, <1>t, <1>u DEF OutputIsNumbered, SessionType, Answers
<1>w. control'.op # "write"
    BY DEF Running, Stopped
<1>1. IInv'
    BY <1>u DEF ServerInv, IInv, TypeOK, KeysAreNormal, SnapshotIsCurrent, compile
<1>2. SessionType'
  <2>1. sequence' = sequence /\ sent' = sent /\ received' = received /\ view' = view /\ ending' = ending /\ input' = input
      BY <1>u
  <2> QED BY <2>1, <1>t, <1>o DEF SessionType
<1>3. InputIsRest'
    BY <1>t, <1>u DEF InputIsRest
<1>4. OutputIsNumbered'
  <2>1. ASSUME NEW i \in DOMAIN output'
        PROVE  output'[i].seq = received + i /\ output'[i].request_seq = received + i
    <3>1. CASE i \in DOMAIN output
        BY <1>o, <1>t, <3>1 DEF OutputIsNumbered
    <3>2. CASE i = Len(output) + 1
        BY <1>o, <1>t, <1>a, <3>2 DEF OutputIsNumbered, Answers
    <3> QED BY <1>o, <3>1, <3>2
  <2>2. Answers' <= sequence' /\ Answers' = sequence'
      BY <1>a, <1>u
  <2> QED BY <2>1, <2>2, <1>u, <1>w DEF OutputIsNumbered
<1>5. EndsWell'
  <2>1. CASE control' = Stopped(TRUE)
    <3>1. sent[sequence].request.command = "exit"
        BY <1>t, <2>1 DEF OutputIsNumbered
    <3> QED BY <1>a, <1>u, <3>1 DEF EndsWell
  <2>2. CASE control' # Stopped(TRUE)
      BY <2>2 DEF EndsWell
  <2> QED BY <2>1, <2>2
<1>6. \E h \in [Nat -> State] : Explained(h)'
  <2> PICK h \in [Nat -> State] : Explained(h)
      BY DEF ServerInv
  <2>1. \A i \in DOMAIN output' : Explains(h, output'[i])
      BY <1>o DEF Explained
  <2>2. (\A i \in DOMAIN output : Explains(h, output[i]))'
      BY <1>u, <2>1 DEF Explains
  <2>3. (h[sequence] = Present)'
      BY <1>u DEF Explained, Present
  <2>4. AgreeOn(view, h[received].options, h[received].files)'
      BY <1>u DEF Explained, AgreeOn, Agree
  <2>5. Explained(h)'
      BY <1>w, <2>2, <2>3, <2>4 DEF Explained
  <2> QED BY <2>5
<1> QED BY <1>1, <1>2, <1>3, <1>4, <1>5, <1>6 DEF ServerInv

\* A server that stops, or whose response is lost, leaves everything else.
LEMMA StopStep ==
    ASSUME ServerInv,
           \/ control' = Stopped(FALSE)
           \/ control' = Stopped(TRUE) /\ Answers = Len(sent) /\ ending = "clean",
           UNCHANGED <<service, input, ending, sequence, output, client>>
    PROVE  ServerInv'
<1>u. UNCHANGED <<options, files, compiled_snapshot, reply, input, ending, sequence, output, sent, received, view>>
    BY DEF service, client
<1>w. control'.op # "write" /\ control' # Running
    BY DEF Running, Stopped
<1>1. IInv'
    BY <1>u DEF ServerInv, IInv, TypeOK, KeysAreNormal, SnapshotIsCurrent, compile
<1>2. SessionType'
    BY <1>u DEF ServerInv, SessionType
<1>3. InputIsRest'
    BY <1>u DEF ServerInv, InputIsRest
<1>4. OutputIsNumbered'
    BY <1>u, <1>w DEF ServerInv, OutputIsNumbered, Answers
<1>5. EndsWell'
    BY <1>u DEF ServerInv, EndsWell, Answers, Stopped
<1>6. \E h \in [Nat -> State] : Explained(h)'
  <2> PICK h \in [Nat -> State] : Explained(h)
      BY DEF ServerInv
  <2>1. Explained(h)'
      BY <1>u, <1>w DEF Explained, Explains, Present, AgreeOn, Agree
  <2> QED BY <2>1
<1> QED BY <1>1, <1>2, <1>3, <1>4, <1>5, <1>6 DEF ServerInv

\* The client's view follows the responses.
LEMMA ReceiveStep ==
    ASSUME ServerInv, Receive
    PROVE  ServerInv'
<1>t. SessionType /\ OutputIsNumbered /\ InputIsRest
    BY DEF ServerInv
<1>u. /\ UNCHANGED <<options, files, compiled_snapshot, reply, input, ending, control, sequence, sent>>
      /\ received' = received + 1
      /\ output' = Tail(output)
    BY DEF Receive, service
<1>o. /\ output # <<>> /\ Head(output) = output[1] /\ 1 \in DOMAIN output
      /\ Len(output') = Len(output) - 1
      /\ Len(output) \in Nat \ {0}
      /\ DOMAIN output' = 1..(Len(output) - 1)
      /\ DOMAIN output = 1..Len(output)
      /\ \A i \in DOMAIN output' : i + 1 \in DOMAIN output /\ output'[i] = output[i + 1]
      /\ output' \in Seq(Response)
    BY <1>t, <1>u DEF SessionType, Receive
<1>a. Answers' = Answers /\ received \in Nat /\ sequence \in Nat
    BY <1>o, <1>t, <1>u DEF Answers, SessionType
<1>n. /\ Head(output).request_seq = received + 1
      /\ received + 1 \in DOMAIN sent
      /\ sent[received + 1].request \in Request
  <2>1. Head(output).request_seq = received + 1
      BY <1>o, <1>t DEF OutputIsNumbered
  <2>2. received + 1 <= Len(sent) /\ received + 1 \in DOMAIN sent
      BY <1>o, <1>t DEF OutputIsNumbered, InputIsRest, SessionType, Answers
  <2>3. sent[received + 1] \in Frame
      BY <1>t, <2>2 DEF SessionType
  <2> QED BY <2>1, <2>2, <2>3 DEF Frame
<1> PICK h \in [Nat -> State] : Explained(h)
    BY DEF ServerInv
<1>v. view' \in View /\ AgreeOn(view', h[received'].options, h[received'].files)
  <2> DEFINE r == sent[received + 1].request
             s == h[received]
             t == h[received + 1]
  <2>1. Honest(r, s, t, Head(output).success, Head(output).body)
    <3>1. Explains(h, output[1])
        BY <1>o DEF Explained
    <3>2. (received + 1) - 1 = received
        BY <1>a
    <3> QED BY <1>n, <1>o, <3>1, <3>2 DEF Explains
  <2>2. s \in State /\ t \in State /\ AgreeOn(view, s.options, s.files) /\ view \in View
      BY <1>a, <1>t DEF Explained, SessionType
  <2>3. CASE Head(output).success
    <3>1. view' = Effect(r)
        BY <1>n, <2>3 DEF Receive
    <3>2. Succeeds(r, s, t)
        BY <2>1, <2>3 DEF Honest
    <3> HIDE DEF r, s, t
    <3>3. Effect(r) \in View /\ AgreeOn(Effect(r), t.options, t.files)
        BY <1>n, <2>2, <3>2, EffectAgrees DEF r
    <3> QED BY <1>u, <3>1, <3>3 DEF t
  <2>4. CASE ~Head(output).success
    <3>1. view' = view /\ t = s
        BY <2>1, <2>4 DEF Receive, Honest
    <3> QED BY <1>u, <2>2, <3>1
  <2> QED BY <2>3, <2>4
<1>1. IInv'
    BY <1>u DEF ServerInv, IInv, TypeOK, KeysAreNormal, SnapshotIsCurrent, compile
<1>2. SessionType'
  <2>1. sequence' = sequence /\ sent' = sent /\ ending' = ending /\ input' = input /\ control' = control
      BY <1>u
  <2>2. received' \in Nat
      BY <1>a, <1>u
  <2> QED BY <2>1, <2>2, <1>t, <1>o, <1>v DEF SessionType
<1>3. InputIsRest'
    BY <1>t, <1>u DEF InputIsRest
<1>4. OutputIsNumbered'
  <2>1. ASSUME NEW i \in DOMAIN output'
        PROVE  output'[i].seq = received' + i /\ output'[i].request_seq = received' + i
    <3>1. output[i + 1].seq = received + (i + 1) /\ output[i + 1].request_seq = received + (i + 1)
        BY <1>o, <1>t DEF OutputIsNumbered
    <3>2. received + (i + 1) = received' + i
        BY <1>a, <1>o, <1>u
    <3> QED BY <1>o, <3>1, <3>2
  <2> QED BY <1>a, <1>t, <1>u, <2>1 DEF OutputIsNumbered
<1>5. EndsWell'
    BY <1>a, <1>u DEF ServerInv, EndsWell
<1>6. Explained(h)'
  <2>1. \A i \in DOMAIN output' : Explains(h, output'[i])
      BY <1>o DEF Explained
  <2>2. (\A i \in DOMAIN output : Explains(h, output[i]))'
      BY <1>u, <2>1 DEF Explains
  <2>3. AgreeOn(view, h[received].options, h[received].files)'
      BY <1>v DEF AgreeOn, Agree
  <2>4. (h[sequence] = Present)'
      BY <1>u DEF Explained, Present
  <2>5. (control.op = "write" => Explains(h, control.response))'
      BY <1>u DEF Explained, Explains
  <2> QED BY <2>2, <2>3, <2>4, <2>5 DEF Explained
<1> QED BY <1>1, <1>2, <1>3, <1>4, <1>5, <1>6 DEF ServerInv

\* Neither a request that is sent nor the end of the stream changes what was
\* answered.
LEMMA SendStep ==
    ASSUME ServerInv, Send
    PROVE  ServerInv'
<1>t. SessionType /\ OutputIsNumbered /\ InputIsRest
    BY DEF ServerInv
<1>e. ending = "open"
    BY DEF Send
<1> PICK r \in Request :
       LET frame == [seq |-> Len(sent) + 1, request |-> r]
       IN  input' = Append(input, frame) /\ sent' = Append(sent, frame)
    BY DEF Send
<1> DEFINE frame == [seq |-> Len(sent) + 1, request |-> r]
<1>u. UNCHANGED <<options, files, compiled_snapshot, reply, ending, control, sequence, output, received, view>>
    BY DEF Send, service
<1>f. frame \in Frame /\ frame.seq = Len(sent) + 1
    BY <1>t DEF SessionType, Frame
<1> HIDE DEF frame
<1>s. /\ sent' = Append(sent, frame) /\ input' = Append(input, frame)
    BY DEF frame
<1>l. /\ Len(sent) \in Nat /\ Len(sent') = Len(sent) + 1
      /\ DOMAIN sent = 1..Len(sent) /\ DOMAIN sent' = 1..(Len(sent) + 1)
      /\ \A i \in DOMAIN sent : sent'[i] = sent[i]
      /\ sent'[Len(sent) + 1] = frame
      /\ sent' \in Seq(Frame)
    BY <1>t, <1>f, <1>s DEF SessionType
<1>i. /\ Len(input) \in Nat /\ Len(input') = Len(input) + 1
      /\ \A i \in 1..Len(input) : input'[i] = input[i]
      /\ input'[Len(input) + 1] = frame
      /\ input' \in Seq(Frame \cup {Garbled})
    BY <1>t, <1>f, <1>s DEF SessionType
<1>a. Answers \in Nat /\ Answers <= sequence /\ sequence <= Len(sent) /\ Answers' = Answers /\ sequence \in Nat
    BY <1>t, <1>u DEF SessionType, OutputIsNumbered, InputIsRest, Answers
<1>1. IInv'
    BY <1>u DEF ServerInv, IInv, TypeOK, KeysAreNormal, SnapshotIsCurrent, compile
<1>2. SessionType'
    BY <1>t, <1>u, <1>l, <1>i DEF SessionType
<1>3. InputIsRest'
  <2>1. \A i \in DOMAIN sent' : sent'[i].seq = i
      BY <1>l, <1>f, <1>t DEF InputIsRest
  <2>2. Len(input) = Len(sent) - sequence
      BY <1>e, <1>t, <1>a, <1>l DEF InputIsRest
  <2>3. Len(input') = Len(sent') - sequence
      BY <2>2, <1>a, <1>l, <1>i
  <2>4. ASSUME NEW i \in 1..(Len(sent') - sequence)
        PROVE  input'[i] = sent'[sequence + i]
    <3>1. CASE i \in 1..(Len(sent) - sequence)
      <4>1. sequence + i \in DOMAIN sent /\ i \in 1..Len(input)
          BY <2>2, <3>1, <1>a, <1>l
      <4> QED BY <3>1, <4>1, <1>l, <1>i, <1>t DEF InputIsRest
    <3>2. CASE i = Len(sent') - sequence
      <4>1. sequence + i = Len(sent) + 1 /\ i = Len(input) + 1
          BY <2>2, <3>2, <1>a, <1>l
      <4> QED BY <4>1, <1>l, <1>i
    <3>3. i \in 1..(Len(sent) - sequence) \/ i = Len(sent') - sequence
        BY <1>a, <1>l
    <3> QED BY <3>1, <3>2, <3>3
  <2> QED BY <2>1, <2>3, <2>4, <1>a, <1>l, <1>e, <1>u DEF InputIsRest
<1>4. OutputIsNumbered'
  <2>1. sequence > 0 => sent'[sequence] = sent[sequence]
      BY <1>a, <1>l
  <2> QED BY <1>t, <1>u, <1>a, <2>1 DEF OutputIsNumbered
<1>5. EndsWell'
  <2>1. Answers > 0 => sent'[Answers] = sent[Answers]
      BY <1>a, <1>l
  <2> QED BY <1>e, <1>u, <1>a, <2>1 DEF ServerInv, EndsWell
<1>6. \E h \in [Nat -> State] : Explained(h)'
  <2> PICK h \in [Nat -> State] : Explained(h)
      BY DEF ServerInv
  <2>1. ASSUME NEW response, Explains(h, response), response.request_seq \in DOMAIN sent
        PROVE  Honest(sent'[response.request_seq].request, h[response.request_seq - 1],
                      h[response.request_seq], response.success, response.body)
      BY <1>l, <2>1 DEF Explains
  <2>2. ASSUME NEW i \in DOMAIN output
        PROVE  output[i].request_seq \in DOMAIN sent
    <3>1. i \in 1..Len(output) /\ received \in Nat /\ Len(output) \in Nat
        BY <1>t DEF SessionType
    <3>2. output[i].request_seq = received + i /\ received + Len(output) <= Len(sent)
        BY <1>t, <1>a DEF OutputIsNumbered, Answers
    <3> QED BY <1>l, <3>1, <3>2
  <2>3. (\A i \in DOMAIN output : Explains(h, output[i]))'
      BY <1>u, <2>1, <2>2 DEF Explained, Explains
  <2>4. control.op = "write" => control.response.request_seq \in DOMAIN sent
      BY <1>t, <1>a, <1>l DEF OutputIsNumbered
  <2>5. (control.op = "write" => Explains(h, control.response))'
      BY <1>u, <2>1, <2>4 DEF Explained, Explains
  <2>6. Explained(h)'
      BY <1>u, <2>3, <2>5 DEF Explained, AgreeOn, Agree, Present
  <2> QED BY <2>6
<1> QED BY <1>1, <1>2, <1>3, <1>4, <1>5, <1>6 DEF ServerInv

LEMMA EndStep ==
    ASSUME ServerInv, SendGarbled \/ CloseStream
    PROVE  ServerInv'
<1>t. SessionType /\ InputIsRest
    BY DEF ServerInv
<1>u. /\ UNCHANGED <<options, files, compiled_snapshot, reply, control, sequence, output, sent, received, view>>
      /\ ending = "open" /\ ending' \in {"garbled", "clean", "body"}
    BY DEF SendGarbled, CloseStream, service, client
<1>1. IInv'
    BY <1>u DEF ServerInv, IInv, TypeOK, KeysAreNormal, SnapshotIsCurrent, compile
<1>2. input' \in Seq(Frame \cup {Garbled}) /\ InputIsRest'
  <2>1. CASE SendGarbled
    <3>1. input' = Append(input, Garbled) /\ ending' = "garbled"
        BY <2>1 DEF SendGarbled
    <3>2. /\ Len(input) \in Nat /\ Len(input') = Len(input) + 1
          /\ \A i \in 1..Len(input) : input'[i] = input[i]
          /\ input'[Len(input) + 1] = Garbled
          /\ input' \in Seq(Frame \cup {Garbled})
        BY <3>1, <1>t DEF SessionType
    <3>3. sequence \in Nat /\ Len(sent) \in Nat /\ Len(input) = Len(sent) - sequence
        BY <1>t, <1>u DEF SessionType, InputIsRest
    <3>4. \A i \in 1..(Len(sent) - sequence) : input'[i] = sent[sequence + i]
        BY <3>2, <3>3, <1>t DEF InputIsRest
    <3>5. \A i \in 1..Len(input') : i > Len(sent) - sequence => input'[i] = Garbled
        BY <3>2, <3>3
    <3> QED BY <1>t, <1>u, <3>1, <3>2, <3>3, <3>4, <3>5 DEF InputIsRest
  <2>2. CASE CloseStream
    <3>1. input' = input /\ ending' \in {"clean", "body"}
        BY <2>2 DEF CloseStream
    <3> QED BY <1>t, <1>u, <3>1 DEF InputIsRest, SessionType
  <2> QED BY <2>1, <2>2
<1>3. SessionType'
    BY <1>t, <1>u, <1>2 DEF SessionType
<1>4. OutputIsNumbered'
    BY <1>u DEF ServerInv, OutputIsNumbered, Answers
<1>5. EndsWell'
    BY <1>u DEF ServerInv, EndsWell, Answers
<1>6. \E h \in [Nat -> State] : Explained(h)'
  <2> PICK h \in [Nat -> State] : Explained(h)
      BY DEF ServerInv
  <2>1. Explained(h)'
      BY <1>u DEF Explained, Explains, Present, AgreeOn, Agree
  <2> QED BY <2>1
<1> QED BY <1>1, <1>2, <1>3, <1>4, <1>5, <1>6 DEF ServerInv

-----------------------------------------------------------------------------
LEMMA ServerInitInv == ServerInit => ServerInv
<1> SUFFICES ASSUME ServerInit PROVE ServerInv
    OBVIOUS
<1>i. /\ Init /\ input = <<>> /\ ending = "open" /\ sequence = 0 /\ output = <<>> /\ sent = <<>>
      /\ received = 0 /\ view = [options |-> options, files |-> files] /\ control = Running
    BY DEF ServerInit, SessionInit
<1>1. IInv
    BY <1>i, InitInv
<1>2. options \in Options /\ files \in Texts
    BY <1>1 DEF IInv, TypeOK
<1>3. SessionType
    BY <1>i, <1>2 DEF SessionType, View, Texts
<1>4. InputIsRest
    BY <1>i DEF InputIsRest
<1>5. OutputIsNumbered
    BY <1>i DEF OutputIsNumbered, Running, Answers
<1>6. EndsWell
    BY <1>i DEF EndsWell, Running, Stopped
<1>7. \E h \in [Nat -> State] : Explained(h)
  <2> PICK h : h = [n \in Nat |-> Present]
      OBVIOUS
  <2>1. h \in [Nat -> State] /\ h[0] = Present
      BY <1>2 DEF State, Present
  <2>2. AgreeOn(view, h[received].options, h[received].files)
      BY <1>i, <2>1 DEF AgreeOn, Agree, Present
  <2>3. Explained(h)
      BY <1>i, <2>1, <2>2 DEF Explained, Running
  <2> QED BY <2>1, <2>3
<1> QED BY <1>1, <1>3, <1>4, <1>5, <1>6, <1>7 DEF ServerInv

\* A step of the session is a step of the service, or leaves it alone.
LEMMA ServerStep ==
    ASSUME ServerInv, [ServerNext]_serverVars
    PROVE  ServerInv' /\ [Next]_vars
<1>1. CASE Send
    BY <1>1, SendStep DEF Send, service, vars
<1>2. CASE SendGarbled \/ CloseStream
    BY <1>2, EndStep DEF SendGarbled, CloseStream, service, vars
<1>3. CASE Receive
    BY <1>3, ReceiveStep DEF Receive, service, vars
<1>4. CASE Handle
  <2>1. control = Running /\ input # <<>> /\ Head(input) # Garbled
      BY <1>4 DEF Reading, Handle, ConfigureRequest, PlainRequest, UnknownRequest, FileMissing,
           OpenRequest, OpenRejected, CloseRequest, ChangeRequest, ChangeRejected, ResetRequest,
           TextRequest, DiagnosticsRequest, NavigationRequest, NavigationRejected
  <2>2. request \in Request
      BY <2>1, NextRequest DEF ServerInv
  <2>3. PICK success \in BOOLEAN, body \in Body : Responds(success, body)
      BY <1>4, <2>2, HandleResponds DEF ServerInv
  <2> QED BY <2>1, <2>3, RespondStep DEF Responds
<1>5. CASE Write
  <2>1. control' = Stopped(TRUE) => control.exit
      BY <1>5 DEF Write, Running, Stopped
  <2>2. ServerInv'
      BY <1>5, <2>1, WriteStep DEF Write
  <2> QED BY <1>5, <2>2 DEF Write, service, vars
<1>6. CASE WriteFails
  <2>1. UNCHANGED <<service, input, ending, sequence, client>> /\ control.op = "write" /\ control' = Stopped(FALSE)
      BY <1>6 DEF WriteFails
  <2>2. CASE output' = output
      BY <2>1, <2>2, StopStep DEF service, vars
  <2>3. CASE output' = Append(output, control.response)
    <3>1. control' # Stopped(TRUE)
        BY <2>1 DEF Stopped
    <3>2. ServerInv'
        BY <2>1, <2>3, <3>1, WriteStep
    <3> QED BY <2>1, <3>2 DEF service, vars
  <2> QED BY <1>6, <2>2, <2>3 DEF WriteFails
<1>7. CASE ReadGarbled
    BY <1>7, StopStep DEF ReadGarbled, service, vars
<1>8. CASE ReadEnd
  <2>1. /\ control = Running /\ input = <<>> /\ ending \in {"clean", "body"}
        /\ control' = Stopped(ending # "body")
        /\ UNCHANGED <<service, input, ending, sequence, output, client>>
      BY <1>8 DEF ReadEnd
  <2>2. Answers = Len(sent)
      BY <2>1 DEF ServerInv, SessionType, InputIsRest, OutputIsNumbered
  <2>3. ServerInv'
      BY <2>1, <2>2, StopStep
  <2> QED BY <2>1, <2>3 DEF service, vars
<1>9. CASE UNCHANGED serverVars
  <2>1. UNCHANGED <<options, files, compiled_snapshot, reply, input, ending, control, sequence, output, sent, received, view>>
      BY <1>9 DEF serverVars, service, client
  <2>2. IInv'
      BY <2>1 DEF ServerInv, IInv, TypeOK, KeysAreNormal, SnapshotIsCurrent, compile
  <2>3. SessionType' /\ InputIsRest' /\ OutputIsNumbered' /\ EndsWell'
      BY <2>1 DEF ServerInv, SessionType, InputIsRest, OutputIsNumbered, EndsWell, Answers
  <2>4. \E h \in [Nat -> State] : Explained(h)'
    <3> PICK h \in [Nat -> State] : Explained(h)
        BY DEF ServerInv
    <3>1. Explained(h)'
        BY <2>1 DEF Explained, Explains, Present, AgreeOn, Agree
    <3> QED BY <3>1
  <2> QED BY <2>1, <2>2, <2>3, <2>4 DEF ServerInv, vars
<1> QED BY <1>1, <1>2, <1>3, <1>4, <1>5, <1>6, <1>7, <1>8, <1>9 DEF ServerNext, Serve

LEMMA ServerInductive == ServerSpec => []ServerInv
<1> QED BY ServerInitInv, ServerStep, PTL DEF ServerSpec

-----------------------------------------------------------------------------
\* The state of a session keeps its type, and the input holds what is left of the
\* requests (Server::run, read_framed_message).
THEOREM SessionTypes == ServerSpec => [](SessionType /\ InputIsRest)
<1>1. ServerInv => SessionType /\ InputIsRest
    BY DEF ServerInv
<1> QED BY <1>1, ServerInductive, PTL

\* Whatever a client sends and whatever fails, the server calls the service only as
\* the service may be called (Server::dispatch): what was proved of every caller
\* holds of the server, that no snapshot is stale and no answer shows it.
THEOREM ServerDrivesService ==
    ServerSpec => Spec /\ []SnapshotIsCurrent /\ AnswersAreCurrent
<1>1. ServerInit => Init
    BY DEF ServerInit, SessionInit
<1>2. ServerSpec => Spec
    BY <1>1, ServerStep, ServerInductive, PTL DEF ServerSpec, Spec
<1> QED BY <1>2, SnapshotNeverStale, Refinement, PTL

\* Responses are one for each request, in order and without a gap, and the server
\* ends well only when it has answered all it could read (Server::handle, run).
THEOREM AnsweredInOrder == ServerSpec => []ResponsesAreComplete
<1>1. ServerInv => ResponsesAreComplete
  <2> SUFFICES ASSUME ServerInv PROVE ResponsesAreComplete
      OBVIOUS
  <2>1. SessionType /\ InputIsRest /\ OutputIsNumbered /\ EndsWell
      BY DEF ServerInv
  <2>2. Answers <= Len(sent)
      BY <2>1 DEF SessionType, InputIsRest, OutputIsNumbered, Answers
  <2>3. ASSUME NEW i \in DOMAIN output
        PROVE  output[i].seq = received + i /\ output[i].request_seq = sent[received + i].seq
    <3>1. i \in 1..Len(output) /\ received \in Nat /\ Len(output) \in Nat
        BY <2>1 DEF SessionType
    <3>2. received + i \in 1..Len(sent)
        BY <2>1, <2>2, <3>1 DEF SessionType, Answers
    <3> QED BY <2>1, <3>2 DEF SessionType, InputIsRest, OutputIsNumbered
  <2> QED BY <2>1, <2>2, <2>3 DEF ResponsesAreComplete, EndsWell
<1> QED BY <1>1, ServerInductive, PTL

\* Once all is answered and read, client and server hold the same options and
\* texts: what was refused changed nothing, what succeeded did all of it, even in
\* a session that ran ahead of its responses (Server::dispatch, apply_change).
THEOREM ClientAndServerAgree == ServerSpec => []ViewsAgree
<1>1. ServerInv => ViewsAgree
  <2> SUFFICES ASSUME ServerInv, control = Running, input = <<>>, output = <<>>
               PROVE  AgreeOn(view, options, files)
      BY DEF ViewsAgree
  <2> PICK h \in [Nat -> State] : Explained(h)
      BY DEF ServerInv
  <2>1. received = sequence
      BY DEF ServerInv, SessionType, OutputIsNumbered, Answers
  <2> QED BY <2>1 DEF Explained, Present
<1> QED BY <1>1, ServerInductive, PTL

\* An answer is of exactly the requests before its own: of none sent later, though
\* the client does not wait (Server::handle runs a request to its end).
THEOREM AnswersAreOfTheirTime == ServerSpec => []AnswersMatchView
<1>1. ServerInv => AnswersMatchView
  <2> SUFFICES ASSUME ServerInv, output # <<>>
               PROVE  LET body == Head(output).body
                      IN  /\ body.op = "answer" =>
                                AgreeOn(view, body.output.options, body.output.texts)
                          /\ body.op = "text" => Agree(view.files[body.path], body.text)
      BY DEF AnswersMatchView
  <2> DEFINE body == Head(output).body
  <2> PICK h \in [Nat -> State] : Explained(h)
      BY DEF ServerInv
  <2>1. 1 \in DOMAIN output /\ Head(output) = output[1] /\ received \in Nat
      BY DEF ServerInv, SessionType
  <2>2. output[1].request_seq = received + 1 /\ (received + 1) - 1 = received
      BY <2>1 DEF ServerInv, OutputIsNumbered
  <2>3. Explains(h, output[1])
      BY <2>1 DEF Explained
  <2>4. /\ body.op = "answer" => body.output = [options |-> h[received].options, texts |-> h[received].files]
        /\ body.op = "text" => body.path \in Path /\ h[received].files[body.path] = body.text
      BY <2>1, <2>2, <2>3 DEF Explains, Honest
  <2>5. AgreeOn(view, h[received].options, h[received].files)
      BY DEF Explained
  <2> QED BY <2>4, <2>5 DEF AgreeOn
<1> QED BY <1>1, ServerInductive, PTL
=============================================================================
