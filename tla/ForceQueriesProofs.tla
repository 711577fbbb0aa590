------------------------- MODULE ForceQueriesProofs -------------------------
(***************************************************************************)
(* Proofs that the evaluator keeps its stacks in step: every Computing mark  *)
(* belongs to exactly one active call, every active call holds exactly one   *)
(* open capture, and a finished demand leaves nothing behind.  From there,   *)
(* that a definitive answer stays, that the caches hold only meanings, and   *)
(* that a complete verdict hides nothing.                                   *)
(***************************************************************************)
EXTENDS ForceQueriesProperties, SequenceTheorems, FiniteSetTheorems, TLAPS

-----------------------------------------------------------------------------
\* Sequences: push, pop and replace at the end.

LEMMA PushSeq ==
    ASSUME NEW S, NEW s \in Seq(S), NEW e \in S
    PROVE  /\ Append(s, e) \in Seq(S)
           /\ Append(s, e) # <<>>
           /\ Len(s) \in Nat
           /\ Len(Append(s, e)) = Len(s) + 1
           /\ DOMAIN Append(s, e) = 1..(Len(s) + 1)
           /\ \A i \in 1..Len(s) : Append(s, e)[i] = s[i]
           /\ Append(s, e)[Len(s) + 1] = e
  BY AppendProperties, LenProperties

\* Restoring a stack to a checkpoint not above its length.
LEMMA CutSeq ==
    ASSUME NEW S, NEW s \in Seq(S), NEW n \in Nat, n <= Len(s)
    PROVE  /\ SubSeq(s, 1, n) \in Seq(S)
           /\ Len(SubSeq(s, 1, n)) = n
           /\ \A i \in 1..n : SubSeq(s, 1, n)[i] = s[i]
  <1>1. Len(s) \in Nat /\ \A i \in 1..Len(s) : s[i] \in S
    BY LenProperties, ElementOfSeq
  <1>2. SubSeq(s, 1, n) = [i \in 1..n |-> s[i]]
    BY <1>1
  <1>3. QED
    BY <1>1, <1>2

LEMMA PopSeq ==
    ASSUME NEW S, NEW s \in Seq(S), s # <<>>
    PROVE  /\ SubSeq(s, 1, Len(s) - 1) \in Seq(S)
           /\ Len(s) \in Nat \ {0}
           /\ s[Len(s)] \in S
           /\ Len(SubSeq(s, 1, Len(s) - 1)) = Len(s) - 1
           /\ DOMAIN SubSeq(s, 1, Len(s) - 1) = 1..(Len(s) - 1)
           /\ \A i \in 1..(Len(s) - 1) : SubSeq(s, 1, Len(s) - 1)[i] = s[i]
  <1>1. Len(s) \in Nat \ {0} /\ s[Len(s)] \in S
    BY EmptySeq, ElementOfSeq
  <1>2. Len(s) - 1 \in Nat /\ Len(s) - 1 <= Len(s)
    BY <1>1
  <1>3. /\ SubSeq(s, 1, Len(s) - 1) \in Seq(S)
        /\ Len(SubSeq(s, 1, Len(s) - 1)) = Len(s) - 1
        /\ \A i \in 1..(Len(s) - 1) : SubSeq(s, 1, Len(s) - 1)[i] = s[i]
    BY <1>2, CutSeq
  <1>4. QED
    BY <1>1, <1>3, LenProperties

LEMMA ReplaceSeq ==
    ASSUME NEW S, NEW s \in Seq(S), s # <<>>, NEW e \in S
    PROVE  /\ [s EXCEPT ![Len(s)] = e] \in Seq(S)
           /\ Len(s) \in Nat \ {0}
           /\ s[Len(s)] \in S
           /\ [s EXCEPT ![Len(s)] = e] # <<>>
           /\ Len([s EXCEPT ![Len(s)] = e]) = Len(s)
           /\ DOMAIN [s EXCEPT ![Len(s)] = e] = 1..Len(s)
           /\ \A i \in 1..(Len(s) - 1) : [s EXCEPT ![Len(s)] = e][i] = s[i]
           /\ [s EXCEPT ![Len(s)] = e][Len(s)] = e
  OBVIOUS

-----------------------------------------------------------------------------
\* Verdicts.

LEMMA CombineVerdicts ==
    ASSUME NEW c \in Completion, NEW d \in Completion
    PROVE  /\ Combine(c, d) \in {c, d}
           /\ Combine(c, d) \in Completion
           /\ Rank(c) \in 0..3
           /\ Rank(Combine(c, d)) >= Rank(c)
           /\ Rank(Combine(c, d)) >= Rank(d)
  BY DEF Combine, Rank, Completion

LEMMA CaptureType ==
    ASSUME NEW caps \in Seq(Completion), NEW c \in Completion
    PROVE  Capture(caps, c) \in Seq(Completion) /\ Len(Capture(caps, c)) = Len(caps)
  <1>1. CASE caps = <<>>
    BY <1>1 DEF Capture
  <1>2. CASE caps # <<>>
    <2>1. Combine(caps[Len(caps)], c) \in Completion
      BY <1>2, PopSeq, CombineVerdicts
    <2>2. QED
      BY <1>2, <2>1, ReplaceSeq DEF Capture
  <1>3. QED
    BY <1>1, <1>2

LEMMA FinishCaptureType ==
    ASSUME NEW caps \in Seq(Completion), caps # <<>>
    PROVE  /\ Captured(caps) \in Completion
           /\ FinishCapture(caps) \in Seq(Completion)
           /\ Len(FinishCapture(caps)) = Len(caps) - 1
  <1>1. /\ SubSeq(caps, 1, Len(caps) - 1) \in Seq(Completion)
        /\ Len(SubSeq(caps, 1, Len(caps) - 1)) = Len(caps) - 1
        /\ caps[Len(caps)] \in Completion
    BY PopSeq
  <1>2. QED
    BY <1>1, CaptureType DEF Captured, FinishCapture

LEMMA BeginCaptureType ==
    ASSUME NEW caps \in Seq(Completion)
    PROVE  BeginCapture(caps) \in Seq(Completion) /\ Len(BeginCapture(caps)) = Len(caps) + 1
  BY PushSeq DEF BeginCapture, Completion

LEMMA WorsenType ==
    ASSUME NEW fs \in [File -> Completion], NEW f, NEW c \in Completion
    PROVE  Worsen(fs, f, c) \in [File -> Completion]
  BY CombineVerdicts DEF Worsen

-----------------------------------------------------------------------------
IInv ==
    /\ TypeOK
    /\ ParametersAreLeaves(prog)
    /\ StackDiscipline
    /\ MarksAreActiveCalls

\* The control state constructors, and the frames.
LEMMA ControlTypes ==
    ASSUME TypeOK
    PROVE  /\ Idle \in Control /\ Run \in Control
           /\ \A q \in Query : Visit(q) \in Control /\ Declaration(q) \in Control
           /\ \A q \in Query, d \in Nat : ForceType(q, d) \in Control
           /\ \A a \in Answer : Normalise(a) \in Control /\ Finish(a) \in Control
                                  /\ Return(a) \in Control
           /\ \A t \in Type : Complete(t) \in Answer
           /\ \A c \in Completion \ {"complete"} : Incomplete(c) \in Answer
  BY DEF Control, Idle, Run, Visit, Declaration, ForceType, Normalise, Finish, Return, Go,
         NoAnswer, Complete, Incomplete, Answer, Answers, Completion

LEMMA AnswerTypes ==
    ASSUME NEW a \in Answer
    PROVE  /\ a.state \in Completion
           /\ IsComplete(a) => a.type \in Type
  BY DEF Answer, Answers, IsComplete, Completion

\* What a step may use of the call on top of the stack.
LEMMA TopTypes ==
    ASSUME TypeOK, frames # <<>>
    PROVE  /\ Top \in Frame
           /\ Below \in Seq(Frame)
           /\ Top.query \in Query /\ Top.depth \in Nat /\ Top.depth + 1 \in Nat
           /\ Top.next \in Nat \ {0} /\ Top.base \in Nat /\ Top.state \in Completion
           /\ prog.operands[Top.query] \in Seq(Query)
           /\ prog.body[Top.query] \in Type
           /\ prog.home[Top.query] \in File
           /\ Symbolic(prog, Top.query) \in Seq(Query)
  <1>1. Top \in Frame /\ Below \in Seq(Frame)
    BY PopSeq DEF TypeOK, Top, Below
  <1>2. Top.query \in Query /\ Top.depth \in Nat /\ Top.depth + 1 \in Nat
        /\ Top.next \in Nat \ {0} /\ Top.base \in Nat /\ Top.state \in Completion
    BY <1>1 DEF Frame
  <1>3. /\ prog.operands[Top.query] \in Seq(Query)
        /\ prog.arguments[Top.query] \in Seq(Query)
        /\ prog.body[Top.query] \in Type
        /\ prog.home[Top.query] \in File
    BY <1>2 DEF TypeOK, Program
  <1>4. QED
    BY <1>1, <1>2, <1>3 DEF Symbolic

\* A new call is well typed, whatever stage it starts in.
LEMMA NewFrameType ==
    ASSUME TypeOK,
           NEW owner \in Root \cup {"force", "value", "visit"},
           NEW q \in Query, NEW stage \in {"contexts", "operands"}, NEW d \in Nat
    PROVE  NewFrame(owner, q, stage, d) \in Frame
  BY LenProperties DEF NewFrame, Frame, TypeOK, Completion

\* The completion tracker keeps its types when a verdict is observed.
LEMMA ObserveTypes ==
    ASSUME TypeOK, NEW c \in Completion
    PROVE  /\ ObserveCurrent(c) =>
                 /\ captures' \in Seq(Completion) /\ Len(captures') = Len(captures)
                 /\ files' \in [File -> Completion]
                 /\ programCompletion' \in Completion
                 /\ current' = current
           /\ \A caps \in Seq(Completion), f \in File :
                ObserveFile(caps, f, c) =>
                 /\ captures' \in Seq(Completion) /\ Len(captures') = Len(caps)
                 /\ files' \in [File -> Completion]
                 /\ programCompletion' \in Completion
                 /\ current' = current
  <1>1. ASSUME ObserveCurrent(c)
        PROVE  /\ captures' \in Seq(Completion) /\ Len(captures') = Len(captures)
               /\ files' \in [File -> Completion]
               /\ programCompletion' \in Completion
               /\ current' = current
    BY <1>1, CaptureType, WorsenType, CombineVerdicts DEF ObserveCurrent, TypeOK
  <1>2. ASSUME NEW caps \in Seq(Completion), NEW f \in File, ObserveFile(caps, f, c)
        PROVE  /\ captures' \in Seq(Completion) /\ Len(captures') = Len(caps)
               /\ files' \in [File -> Completion]
               /\ programCompletion' \in Completion
               /\ current' = current
    BY <1>2, CaptureType, WorsenType, CombineVerdicts DEF ObserveFile, TypeOK
  <1>3. QED
    BY <1>1, <1>2

-----------------------------------------------------------------------------
\* How the number of open captures follows the stack.

LEMMA OpenFinite ==
    ASSUME NEW fs \in Seq(Frame)
    PROVE  IsFiniteSet(OpenCaptures(fs)) /\ Cardinality(OpenCaptures(fs)) \in Nat
  <1>1. OpenCaptures(fs) \in SUBSET (1..Len(fs)) /\ Len(fs) \in Nat
    BY LenProperties DEF OpenCaptures
  <1>2. IsFiniteSet(1..Len(fs))
    BY <1>1, FS_Interval
  <1>3. QED
    BY <1>1, <1>2, FS_Subset, FS_CardinalityType

LEMMA RemoveOne ==
    ASSUME NEW S, IsFiniteSet(S), NEW x
    PROVE  Cardinality(S \ {x}) = Cardinality(S) - (IF x \in S THEN 1 ELSE 0)
  <1>1. Cardinality(S \ {x}) = IF x \in S THEN Cardinality(S) - 1 ELSE Cardinality(S)
    BY FS_RemoveElement
  <1>2. Cardinality(S) \in Nat
    BY FS_CardinalityType
  <1>3. QED
    BY <1>1, <1>2

LEMMA OpenPush ==
    ASSUME NEW fs \in Seq(Frame), NEW g \in Frame
    PROVE  Cardinality(OpenCaptures(Append(fs, g))) =
             Cardinality(OpenCaptures(fs)) + (IF Opens(g) THEN 1 ELSE 0)
  <1>1. Len(fs) \in Nat /\ DOMAIN fs = 1..Len(fs)
    BY LenProperties
  <1>2. /\ DOMAIN Append(fs, g) = 1..(Len(fs) + 1)
        /\ \A i \in 1..Len(fs) : Append(fs, g)[i] = fs[i]
        /\ Append(fs, g)[Len(fs) + 1] = g
    BY PushSeq
  <1>3. Len(fs) + 1 \notin OpenCaptures(fs)
    BY <1>1 DEF OpenCaptures
  <1>4. CASE Opens(g)
    <2>1. OpenCaptures(Append(fs, g)) = OpenCaptures(fs) \cup {Len(fs) + 1}
      BY <1>1, <1>2, <1>4 DEF OpenCaptures
    <2>2. QED
      BY <1>3, <1>4, <2>1, OpenFinite, FS_AddElement
  <1>5. CASE ~Opens(g)
    <2>1. OpenCaptures(Append(fs, g)) = OpenCaptures(fs)
      BY <1>1, <1>2, <1>5 DEF OpenCaptures
    <2>2. QED
      BY <1>5, <2>1, OpenFinite
  <1>6. QED
    BY <1>4, <1>5

LEMMA OpenPop ==
    ASSUME NEW fs \in Seq(Frame), fs # <<>>
    PROVE  Cardinality(OpenCaptures(SubSeq(fs, 1, Len(fs) - 1))) =
             Cardinality(OpenCaptures(fs)) - (IF Opens(fs[Len(fs)]) THEN 1 ELSE 0)
  <1> DEFINE below == SubSeq(fs, 1, Len(fs) - 1)
  <1>1. /\ Len(fs) \in Nat \ {0} /\ DOMAIN fs = 1..Len(fs)
        /\ DOMAIN below = 1..(Len(fs) - 1)
        /\ \A i \in 1..(Len(fs) - 1) : below[i] = fs[i]
    BY PopSeq, LenProperties
  <1> HIDE DEF below
  <1>2. OpenCaptures(below) = OpenCaptures(fs) \ {Len(fs)}
    BY <1>1 DEF OpenCaptures
  <1>3. Len(fs) \in OpenCaptures(fs) <=> Opens(fs[Len(fs)])
    BY <1>1 DEF OpenCaptures
  <1>4. Cardinality(OpenCaptures(below)) =
          Cardinality(OpenCaptures(fs)) - (IF Opens(fs[Len(fs)]) THEN 1 ELSE 0)
    BY <1>2, <1>3, OpenFinite, RemoveOne
  <1>5. QED
    BY <1>4 DEF below

LEMMA OpenReplace ==
    ASSUME NEW fs \in Seq(Frame), fs # <<>>, NEW g \in Frame
    PROVE  Cardinality(OpenCaptures([fs EXCEPT ![Len(fs)] = g])) =
             Cardinality(OpenCaptures(fs)) - (IF Opens(fs[Len(fs)]) THEN 1 ELSE 0)
                                           + (IF Opens(g) THEN 1 ELSE 0)
  <1> DEFINE gs == [fs EXCEPT ![Len(fs)] = g]
             n == Len(fs)
  <1>1. /\ n \in Nat \ {0} /\ DOMAIN fs = 1..n
        /\ gs \in Seq(Frame) /\ DOMAIN gs = 1..n
        /\ \A i \in 1..(n - 1) : gs[i] = fs[i]
        /\ gs[n] = g
    BY ReplaceSeq, LenProperties
  <1> HIDE DEF gs, n
  <1>2. OpenCaptures(gs) \ {n} = OpenCaptures(fs) \ {n}
    BY <1>1 DEF OpenCaptures
  <1>3. /\ n \in OpenCaptures(fs) <=> Opens(fs[n])
        /\ n \in OpenCaptures(gs) <=> Opens(g)
    BY <1>1 DEF OpenCaptures
  <1> DEFINE C == Cardinality(OpenCaptures(fs))
             D == Cardinality(OpenCaptures(gs))
             before == IF Opens(fs[n]) THEN 1 ELSE 0
             after  == IF Opens(g) THEN 1 ELSE 0
  <1>4. C \in Nat /\ D \in Nat
    BY <1>1, OpenFinite
  <1>5. Cardinality(OpenCaptures(fs) \ {n}) = C - before
    BY <1>3, OpenFinite, RemoveOne
  <1>6. Cardinality(OpenCaptures(gs) \ {n}) = D - after
    BY <1>1, <1>3, OpenFinite, RemoveOne
  <1>7. C - before = D - after
    BY <1>2, <1>5, <1>6
  <1>8. before \in {0, 1} /\ after \in {0, 1}
    OBVIOUS
  <1>9. D = C - before + after
    <2> HIDE DEF C, D, before, after
    <2>1. QED
      BY <1>4, <1>7, <1>8
  <1>10. QED
    BY <1>9 DEF gs, n

\* A call with an open capture on top of the stack has one to close.
LEMMA CapturesOpen ==
    ASSUME TypeOK, MarksAreActiveCalls, frames # <<>>, Opens(Top)
    PROVE  captures # <<>>
  <1>1. frames \in Seq(Frame) /\ Len(frames) \in DOMAIN frames
    BY PopSeq, LenProperties DEF TypeOK
  <1>2. OpenCaptures(frames) # {}
    BY <1>1 DEF OpenCaptures, Top
  <1>3. Cardinality(OpenCaptures(frames)) # 0
    BY <1>1, <1>2, OpenFinite, FS_EmptySet
  <1>4. QED
    BY <1>3 DEF MarksAreActiveCalls

-----------------------------------------------------------------------------
\* Type correctness, part by part: every action touches a few parts.

SessionOK    == prog \in Program /\ phase \in {Passes[i] : i \in 1..6}
                /\ todo \subseteq File /\ positions \subseteq Query /\ requiredNodes \subseteq Query
ControlOK    == control \in Control
FramesOK     == frames \in Seq(Frame)
ForceOK      == forceQueries \in [Query -> {Absent, Computing} \cup {Ready(t) : t \in Type}]
ValueOK      == valueQueries \in [Query -> {Absent, Computing, Provisional}
                                              \cup {Ready(t) : t \in Type}]
OverridesOK  == parameterOverrides \in [Query -> Type \cup {None}]
ReferencesOK == references \in Seq(Query)
TrackerOK    == captures \in Seq(Completion) /\ current \in File \cup {NoFile}
                /\ files \in [File -> Completion] /\ programCompletion \in Completion
ReportedOK   == reported \subseteq Query

LEMMA TypeParts ==
    TypeOK <=> /\ SessionOK /\ ControlOK /\ FramesOK /\ ForceOK /\ ValueOK /\ OverridesOK
               /\ ReferencesOK /\ TrackerOK /\ ReportedOK
  BY DEF TypeOK, SessionOK, ControlOK, FramesOK, ForceOK, ValueOK, OverridesOK,
         ReferencesOK, TrackerOK, ReportedOK

LEMMA NextTypeParts ==
    SessionOK' /\ ControlOK' /\ FramesOK' /\ ForceOK' /\ ValueOK' /\ OverridesOK'
      /\ ReferencesOK' /\ TrackerOK' /\ ReportedOK'
    => TypeOK'
  BY DEF TypeOK, SessionOK, ControlOK, FramesOK, ForceOK, ValueOK, OverridesOK,
         ReferencesOK, TrackerOK, ReportedOK

\* What a step may use of the control state and of the caches.
LEMMA ControlFacts ==
    ASSUME TypeOK, CallsNest
    PROVE  /\ control.answer \in Answer /\ control.depth \in Nat
           /\ control.pc \in {"force", "declaration", "visit"} => control.query \in Query
           /\ control.pc # "idle" => frames # <<>>
           /\ control.pc = "idle" => frames = <<>>
           /\ control.pc \in {"normalise", "finish"} => Top.owner = "force"
  BY DEF TypeOK, CallsNest, Control

LEMMA CacheFacts ==
    ASSUME TypeOK, NEW q \in Query
    PROVE  /\ forceQueries[q].state = "ready" => forceQueries[q].type \in Type
           /\ valueQueries[q].state \in {"absent", "computing", "provisional", "ready"}
           /\ valueQueries[q].state = "absent" <=> valueQueries[q] = Absent
           /\ valueQueries[q].state = "ready" => valueQueries[q].type \in Type
           /\ parameterOverrides[q] \in Type \cup {None}
           /\ prog.body[q] \in Type /\ prog.context[q] \in Type /\ prog.home[q] \in File
           /\ Symbolic(prog, q) \in Seq(Query) /\ prog.operands[q] \in Seq(Query)
  <1>1. forceQueries[q] \in {Absent, Computing} \cup {Ready(t) : t \in Type}
    BY DEF TypeOK
  <1>2. valueQueries[q] \in {Absent, Computing, Provisional} \cup {Ready(t) : t \in Type}
    BY DEF TypeOK
  <1>3. /\ parameterOverrides[q] \in Type \cup {None}
        /\ prog.body[q] \in Type /\ prog.context[q] \in Type /\ prog.home[q] \in File
        /\ prog.operands[q] \in Seq(Query) /\ prog.arguments[q] \in Seq(Query)
    BY DEF TypeOK, Program
  <1>4. Symbolic(prog, q) \in Seq(Query)
    BY <1>3 DEF Symbolic
  <1>5. forceQueries[q].state = "ready" => forceQueries[q].type \in Type
    BY <1>1 DEF Absent, Computing, Ready
  <1>6. /\ valueQueries[q].state \in {"absent", "computing", "provisional", "ready"}
        /\ valueQueries[q].state = "absent" <=> valueQueries[q] = Absent
        /\ valueQueries[q].state = "ready" => valueQueries[q].type \in Type
    BY <1>2 DEF Absent, Computing, Provisional, Ready
  <1>7. QED
    BY <1>3, <1>4, <1>5, <1>6

\* An advanced, restaged or tainted call is still a call.
LEMMA ReplaceTopType ==
    ASSUME FramesOK, frames # <<>>, NEW g \in Frame, ReplaceTop(g)
    PROVE  FramesOK'
  BY ReplaceSeq DEF FramesOK, ReplaceTop

LEMMA FrameUpdates ==
    ASSUME NEW f \in Frame
    PROVE  /\ [f EXCEPT !.next = @ + 1] \in Frame
           /\ \A stage \in {"operands", "declaration", "result", "relation", "publish"} :
                 [f EXCEPT !.stage = stage] \in Frame
           /\ \A c \in Completion : [f EXCEPT !.state = c] \in Frame
           /\ \A c \in Completion, stage \in {"relation", "publish", f.stage} :
                 [f EXCEPT !.state = c, !.stage = stage] \in Frame
  <1>1. [f EXCEPT !.next = @ + 1] \in Frame
    BY DEF Frame
  <1>2. ASSUME NEW stage \in {"operands", "declaration", "result", "relation", "publish"}
        PROVE  [f EXCEPT !.stage = stage] \in Frame
    BY DEF Frame
  <1>3. ASSUME NEW c \in Completion, NEW stage \in {"relation", "publish", f.stage}
        PROVE  /\ [f EXCEPT !.state = c] \in Frame
               /\ [f EXCEPT !.state = c, !.stage = stage] \in Frame
    BY DEF Frame
  <1>4. QED
    BY <1>1, <1>2, <1>3

LEMMA QueryLocalType == \A p, q : QueryLocal(p, q) \in BOOLEAN
  BY Zenon DEF QueryLocal

LEMMA NewFrameLocal ==
    ASSUME TypeOK, NEW q \in Query, NEW d \in Nat, NEW b \in BOOLEAN
    PROVE  [NewFrame("force", q, "operands", d) EXCEPT !.local = b] \in Frame
  <1>1. Len(references) \in Nat
    BY LenProperties DEF TypeOK
  <1>2. [NewFrame("force", q, "operands", d) EXCEPT !.local = b]
          = [owner |-> "force", query |-> q, stage |-> "operands", depth |-> d, next |-> 1,
             local |-> b, base |-> Len(references), state |-> "complete"]
    BY DEF NewFrame
  <1>3. 1 \in Nat \ {0} /\ "complete" \in Completion
    BY DEF Completion
  <1>4. QED
    BY <1>1, <1>2, <1>3 DEF Frame

\* The reference stack is cut back to where a forcing found it, or just above.
LEMMA RestoreTypes ==
    ASSUME TypeOK, ReferencesNest, frames # <<>>
    PROVE  /\ Len(references) >= Top.base
           /\ SubSeq(references, 1, Top.base) \in Seq(Query)
           /\ Len(SubSeq(references, 1, Top.base)) = Top.base
           /\ Top.owner = "force" /\ prog.kind[Top.query] = "reference" =>
                 /\ Len(references) >= Top.base + 1
                 /\ SubSeq(references, 1, Top.base + 1) \in Seq(Query)
                 /\ Len(SubSeq(references, 1, Top.base + 1)) = Top.base + 1
  <1>1. Len(frames) \in DOMAIN frames /\ Top.base \in Nat /\ references \in Seq(Query)
    BY TopTypes, PopSeq, LenProperties DEF TypeOK
  <1>2. Len(references) \in Nat /\ Len(references) >= Floor(Top)
    BY <1>1, LenProperties DEF ReferencesNest, Above, Top
  <1>3. Len(references) >= Top.base
    BY <1>1, <1>2 DEF Floor
  <1>4. Top.owner = "force" /\ prog.kind[Top.query] = "reference"
          => Len(references) >= Top.base + 1
    BY <1>1, <1>2 DEF Floor
  <1>5. QED
    BY <1>1, <1>3, <1>4, CutSeq

LEMMA TypeStep ==
    ASSUME TypeOK, CallsNest, MarksAreActiveCalls, ReferencesNest, [Next]_vars
    PROVE  TypeOK'
  <1> USE ControlFacts
  <1>0. SessionOK /\ ControlOK /\ FramesOK /\ ForceOK /\ ValueOK /\ OverridesOK
          /\ ReferencesOK /\ TrackerOK /\ ReportedOK
    BY TypeParts
  <1>SelectFile. ASSUME NEW f \in File, SelectFile(f) PROVE TypeOK'
    <2>1. ControlOK' /\ FramesOK' /\ ForceOK' /\ ValueOK' /\ OverridesOK' /\ ReferencesOK' /\ ReportedOK'
      BY <1>0, <1>SelectFile DEF SelectFile, session, caches, tracker, ControlOK, FramesOK, ForceOK, ValueOK, OverridesOK, ReferencesOK, ReportedOK
    <2>2. SessionOK'
      BY <1>0, <1>SelectFile DEF SelectFile, SessionOK
    <2>3. TrackerOK'
      BY <1>0, <1>SelectFile DEF SelectFile, TrackerOK
    <2>4. QED
      BY <2>1, <2>2, <2>3, NextTypeParts
  <1>NextPass. CASE NextPass
    <2>1. ControlOK' /\ FramesOK' /\ ForceOK' /\ ValueOK' /\ OverridesOK' /\ ReferencesOK' /\ ReportedOK'
      BY <1>0, <1>NextPass DEF NextPass, session, caches, tracker, ControlOK, FramesOK, ForceOK, ValueOK, OverridesOK, ReferencesOK, ReportedOK
    <2>2. SessionOK'
      BY <1>0, <1>NextPass DEF NextPass, SessionOK, Passes
    <2>3. TrackerOK'
      BY <1>0, <1>NextPass DEF NextPass, TrackerOK
    <2>4. QED
      BY <2>1, <2>2, <2>3, NextTypeParts
  <1>RequireTypeNode. ASSUME NEW q \in Query, RequireTypeNode(q) PROVE TypeOK'
    <2>1. SessionOK' /\ ForceOK' /\ ValueOK' /\ OverridesOK' /\ ReferencesOK' /\ TrackerOK' /\ ReportedOK'
      BY <1>0, <1>RequireTypeNode DEF RequireTypeNode, session, caches, tracker, StartRoot, SessionOK, ForceOK, ValueOK, OverridesOK, ReferencesOK, TrackerOK, ReportedOK
    <2>2. ControlOK'
      BY <1>0, <1>RequireTypeNode, ControlTypes, CacheFacts DEF RequireTypeNode, ControlOK, StartRoot
    <2>3. FramesOK'
      BY <1>0, <1>RequireTypeNode, NewFrameType, PushSeq DEF Root, RequireTypeNode, FramesOK, StartRoot
    <2>4. QED
      BY <2>1, <2>2, <2>3, NextTypeParts
  <1>MarkProvisional. ASSUME NEW q \in Query, MarkProvisional(q) PROVE TypeOK'
    <2>1. SessionOK' /\ ControlOK' /\ FramesOK' /\ ForceOK' /\ OverridesOK' /\ ReferencesOK' /\ TrackerOK' /\ ReportedOK'
      BY <1>0, <1>MarkProvisional DEF MarkProvisional, session, caches, tracker, SessionOK, ControlOK, FramesOK, ForceOK, OverridesOK, ReferencesOK, TrackerOK, ReportedOK
    <2>2. ValueOK'
      BY <1>0, <1>MarkProvisional DEF MarkProvisional, ValueOK
    <2>3. QED
      BY <2>1, <2>2, NextTypeParts
  <1>DemandType. ASSUME NEW q \in Query, DemandType(q) PROVE TypeOK'
    <2>1. SessionOK' /\ ForceOK' /\ ValueOK' /\ OverridesOK' /\ ReferencesOK' /\ TrackerOK' /\ ReportedOK'
      BY <1>0, <1>DemandType DEF DemandType, session, caches, tracker, StartRoot, SessionOK, ForceOK, ValueOK, OverridesOK, ReferencesOK, TrackerOK, ReportedOK
    <2>2. ControlOK'
      BY <1>0, <1>DemandType, ControlTypes DEF DemandType, ControlOK, StartRoot
    <2>3. FramesOK'
      BY <1>0, <1>DemandType, NewFrameType, PushSeq DEF Root, DemandType, FramesOK, StartRoot
    <2>4. QED
      BY <2>1, <2>2, <2>3, NextTypeParts
  <1>CheckDeclarator. ASSUME NEW q \in Query, CheckDeclarator(q) PROVE TypeOK'
    <2>1. SessionOK' /\ ForceOK' /\ ValueOK' /\ OverridesOK' /\ ReferencesOK' /\ ReportedOK'
      BY <1>0, <1>CheckDeclarator DEF CheckDeclarator, session, caches, tracker, StartRoot, SessionOK, ForceOK, ValueOK, OverridesOK, ReferencesOK, ReportedOK
    <2>2. ControlOK'
      BY <1>0, <1>CheckDeclarator, ControlTypes DEF CheckDeclarator, ControlOK, StartRoot
    <2>3. FramesOK'
      BY <1>0, <1>CheckDeclarator, NewFrameType, PushSeq DEF Root, CheckDeclarator, FramesOK, StartRoot
    <2>4. TrackerOK'
      BY <1>0, <1>CheckDeclarator, BeginCaptureType DEF CheckDeclarator, TrackerOK, StartRoot
    <2>5. QED
      BY <2>1, <2>2, <2>3, <2>4, NextTypeParts
  <1>FlushOrigin. ASSUME NEW q \in Query, FlushOrigin(q) PROVE TypeOK'
    <2>1. SessionOK' /\ ForceOK' /\ ValueOK' /\ OverridesOK' /\ ReferencesOK' /\ TrackerOK' /\ ReportedOK'
      BY <1>0, <1>FlushOrigin DEF FlushOrigin, session, caches, tracker, StartRoot, SessionOK, ForceOK, ValueOK, OverridesOK, ReferencesOK, TrackerOK, ReportedOK
    <2>2. ControlOK'
      BY <1>0, <1>FlushOrigin, ControlTypes DEF FlushOrigin, ControlOK, StartRoot
    <2>3. FramesOK'
      BY <1>0, <1>FlushOrigin, NewFrameType, PushSeq DEF Root, FlushOrigin, FramesOK, StartRoot
    <2>4. QED
      BY <2>1, <2>2, <2>3, NextTypeParts
  <1>SummariseValue. ASSUME NEW q \in Query, SummariseValue(q) PROVE TypeOK'
    <2>1. SessionOK' /\ ForceOK' /\ ValueOK' /\ OverridesOK' /\ ReferencesOK' /\ TrackerOK' /\ ReportedOK'
      BY <1>0, <1>SummariseValue DEF SummariseValue, session, caches, tracker, StartRoot, SessionOK, ForceOK, ValueOK, OverridesOK, ReferencesOK, TrackerOK, ReportedOK
    <2>2. ControlOK'
      BY <1>0, <1>SummariseValue, ControlTypes DEF SummariseValue, ControlOK, StartRoot
    <2>3. FramesOK'
      BY <1>0, <1>SummariseValue, NewFrameType, PushSeq DEF Root, SummariseValue, FramesOK, StartRoot
    <2>4. QED
      BY <2>1, <2>2, <2>3, NextTypeParts
  <1>SummariseExport. ASSUME NEW q \in Query, SummariseExport(q) PROVE TypeOK'
    <2>1. SessionOK' /\ ForceOK' /\ ValueOK' /\ OverridesOK' /\ ReferencesOK' /\ TrackerOK' /\ ReportedOK'
      BY <1>0, <1>SummariseExport DEF SummariseExport, session, caches, tracker, StartRoot, SessionOK, ForceOK, ValueOK, OverridesOK, ReferencesOK, TrackerOK, ReportedOK
    <2>2. ControlOK'
      BY <1>0, <1>SummariseExport, ControlTypes DEF SummariseExport, ControlOK, StartRoot
    <2>3. FramesOK'
      BY <1>0, <1>SummariseExport, NewFrameType, PushSeq DEF Root, SummariseExport, FramesOK, StartRoot
    <2>4. QED
      BY <2>1, <2>2, <2>3, NextTypeParts
  <1>CloseDemand. CASE CloseDemand
    <2>1. SessionOK' /\ ForceOK' /\ ValueOK' /\ OverridesOK' /\ ReferencesOK' /\ ReportedOK'
      BY <1>0, <1>CloseDemand DEF CloseDemand, session, caches, tracker, SessionOK, ForceOK, ValueOK, OverridesOK, ReferencesOK, ReportedOK
    <2>2. ControlOK'
      BY <1>0, <1>CloseDemand, ControlTypes DEF CloseDemand, ControlOK
    <2>3. FramesOK'
      BY <1>0, <1>CloseDemand, TopTypes DEF CloseDemand, FramesOK, Answered
    <2>4. TrackerOK'
      BY <1>0, <1>CloseDemand, AnswerTypes, ObserveTypes DEF CloseDemand, TrackerOK, Answered
    <2>5. QED
      BY <2>1, <2>2, <2>3, <2>4, NextTypeParts
  <1>CloseFlush. CASE CloseFlush
    <2>1. SessionOK' /\ ForceOK' /\ ValueOK' /\ OverridesOK' /\ ReferencesOK' /\ ReportedOK'
      BY <1>0, <1>CloseFlush DEF CloseFlush, session, caches, tracker, SessionOK, ForceOK, ValueOK, OverridesOK, ReferencesOK, ReportedOK
    <2>2. ControlOK'
      BY <1>0, <1>CloseFlush, ControlTypes DEF CloseFlush, ControlOK
    <2>3. FramesOK'
      BY <1>0, <1>CloseFlush, TopTypes DEF CloseFlush, FramesOK, Answered
    <2>4. TrackerOK'
      <3>1. frames # <<>> /\ ObserveFile(captures, prog.home[Top.query], control.answer.state)
        BY <1>CloseFlush DEF CloseFlush, Answered
      <3>2. prog.home[Top.query] \in File /\ control.answer.state \in Completion
        BY <3>1, AnswerTypes, TopTypes
      <3>3. captures \in Seq(Completion)
        BY DEF TypeOK
      <3>4. QED
        BY <1>0, <3>1, <3>2, <3>3, ObserveTypes DEF TrackerOK
    <2>5. QED
      BY <2>1, <2>2, <2>3, <2>4, NextTypeParts
  <1>CloseSummary. CASE CloseSummary
    <2>1. SessionOK' /\ ForceOK' /\ ValueOK' /\ OverridesOK' /\ ReferencesOK' /\ TrackerOK' /\ ReportedOK'
      BY <1>0, <1>CloseSummary DEF CloseSummary, session, caches, tracker, SessionOK, ForceOK, ValueOK, OverridesOK, ReferencesOK, TrackerOK, ReportedOK
    <2>2. ControlOK'
      BY <1>0, <1>CloseSummary, ControlTypes DEF CloseSummary, ControlOK
    <2>3. FramesOK'
      BY <1>0, <1>CloseSummary, TopTypes DEF CloseSummary, FramesOK, Answered
    <2>4. QED
      BY <2>1, <2>2, <2>3, NextTypeParts
  <1>CloseRequire. CASE CloseRequire
    <2>1. ForceOK' /\ ValueOK' /\ OverridesOK' /\ ReferencesOK' /\ ReportedOK'
      BY <1>0, <1>CloseRequire DEF CloseRequire, session, caches, tracker, ForceOK, ValueOK, OverridesOK, ReferencesOK, ReportedOK
    <2>2. SessionOK'
      BY <1>0, <1>CloseRequire, TopTypes DEF CloseRequire, SessionOK, Answered
    <2>3. ControlOK'
      BY <1>0, <1>CloseRequire, ControlTypes DEF CloseRequire, ControlOK
    <2>4. FramesOK'
      BY <1>0, <1>CloseRequire, TopTypes DEF CloseRequire, FramesOK, Answered
    <2>5. TrackerOK'
      BY <1>0, <1>CloseRequire, AnswerTypes, ObserveTypes DEF CloseRequire, TrackerOK, Answered
    <2>6. QED
      BY <2>1, <2>2, <2>3, <2>4, <2>5, NextTypeParts
  <1>ForceReady. CASE ForceReady
    <2>1. SessionOK' /\ FramesOK' /\ ForceOK' /\ ValueOK' /\ OverridesOK' /\ ReferencesOK' /\ TrackerOK' /\ ReportedOK'
      BY <1>0, <1>ForceReady DEF ForceReady, session, caches, tracker, SessionOK, FramesOK, ForceOK, ValueOK, OverridesOK, ReferencesOK, TrackerOK, ReportedOK
    <2>2. ControlOK'
      BY <1>0, <1>ForceReady, ControlTypes, CacheFacts DEF ForceReady, ControlOK
    <2>3. QED
      BY <2>1, <2>2, NextTypeParts
  <1>ForceActive. CASE ForceActive
    <2>1. SessionOK' /\ FramesOK' /\ ForceOK' /\ ValueOK' /\ OverridesOK' /\ ReferencesOK' /\ TrackerOK' /\ ReportedOK'
      BY <1>0, <1>ForceActive DEF ForceActive, session, caches, tracker, SessionOK, FramesOK, ForceOK, ValueOK, OverridesOK, ReferencesOK, TrackerOK, ReportedOK
    <2>2. ControlOK'
      BY <1>0, <1>ForceActive, ControlTypes DEF ForceActive, ControlOK, Completion
    <2>3. QED
      BY <2>1, <2>2, NextTypeParts
  <1>ForceOverBudget. CASE ForceOverBudget
    <2>1. SessionOK' /\ FramesOK' /\ ForceOK' /\ ValueOK' /\ OverridesOK' /\ ReferencesOK' /\ TrackerOK'
      BY <1>0, <1>ForceOverBudget DEF ForceOverBudget, session, caches, tracker, SessionOK, FramesOK, ForceOK, ValueOK, OverridesOK, ReferencesOK, TrackerOK
    <2>2. ControlOK'
      BY <1>0, <1>ForceOverBudget, ControlTypes DEF ForceOverBudget, ControlOK, Completion
    <2>3. ReportedOK'
      BY <1>0, <1>ForceOverBudget DEF ForceOverBudget, ReportedOK, Complexity
    <2>4. QED
      BY <2>1, <2>2, <2>3, NextTypeParts
  <1>ForceEnter. CASE ForceEnter
    <2>1. SessionOK' /\ ValueOK' /\ OverridesOK' /\ ReportedOK'
      BY <1>0, <1>ForceEnter DEF ForceEnter, session, caches, tracker, SessionOK, ValueOK, OverridesOK, ReportedOK
    <2>2. ControlOK'
      BY <1>0, <1>ForceEnter, ControlTypes DEF ForceEnter, ControlOK
    <2>3. FramesOK'
      <3> DEFINE q == control.query
                 g == [NewFrame("force", q, "operands", control.depth)
                          EXCEPT !.local = QueryLocal(prog, q)]
      <3>1. q \in Query /\ control.depth \in Nat
        BY <1>ForceEnter DEF ForceEnter
      <3>2. QueryLocal(prog, q) \in BOOLEAN
        BY QueryLocalType
      <3>3. g \in Frame
        BY <3>1, <3>2, NewFrameLocal
      <3>4. frames' = Append(frames, g)
        BY <1>ForceEnter DEF ForceEnter
      <3>5. QED
        BY <1>0, <3>3, <3>4, PushSeq DEF FramesOK
    <2>4. ForceOK'
      BY <1>0, <1>ForceEnter DEF ForceEnter, ForceOK
    <2>5. ReferencesOK'
      BY <1>0, <1>ForceEnter, PushSeq DEF ForceEnter, ReferencesOK
    <2>6. TrackerOK'
      BY <1>0, <1>ForceEnter, BeginCaptureType DEF ForceEnter, TrackerOK
    <2>7. QED
      BY <2>1, <2>2, <2>3, <2>4, <2>5, <2>6, NextTypeParts
  <1>EvaluateNonclaim. CASE EvaluateNonclaim
    <2>1. SessionOK' /\ FramesOK' /\ ForceOK' /\ ValueOK' /\ OverridesOK' /\ ReferencesOK' /\ TrackerOK' /\ ReportedOK'
      BY <1>0, <1>EvaluateNonclaim DEF EvaluateNonclaim, session, caches, tracker, SessionOK, FramesOK, ForceOK, ValueOK, OverridesOK, ReferencesOK, TrackerOK, ReportedOK
    <2>2. ControlOK'
      BY <1>0, <1>EvaluateNonclaim, ControlTypes DEF EvaluateNonclaim, ControlOK, Completion
    <2>3. QED
      BY <2>1, <2>2, NextTypeParts
  <1>EvaluateUnproductive. CASE EvaluateUnproductive
    <2>1. SessionOK' /\ FramesOK' /\ ForceOK' /\ ValueOK' /\ OverridesOK' /\ ReferencesOK' /\ TrackerOK' /\ ReportedOK'
      BY <1>0, <1>EvaluateUnproductive DEF EvaluateUnproductive, session, caches, tracker, SessionOK, FramesOK, ForceOK, ValueOK, OverridesOK, ReferencesOK, TrackerOK, ReportedOK
    <2>2. ControlOK'
      BY <1>0, <1>EvaluateUnproductive, ControlTypes DEF EvaluateUnproductive, ControlOK, Completion
    <2>3. QED
      BY <2>1, <2>2, NextTypeParts
  <1>EvaluateDeclaration. CASE EvaluateDeclaration
    <2>1. SessionOK' /\ ForceOK' /\ ValueOK' /\ OverridesOK' /\ ReferencesOK' /\ TrackerOK' /\ ReportedOK'
      BY <1>0, <1>EvaluateDeclaration DEF EvaluateDeclaration, session, caches, tracker, SessionOK, ForceOK, ValueOK, OverridesOK, ReferencesOK, TrackerOK, ReportedOK
    <2>2. ControlOK'
      BY <1>0, <1>EvaluateDeclaration, ControlTypes, TopTypes DEF EvaluateDeclaration, ControlOK, Running
    <2>3. FramesOK'
      BY <1>0, <1>EvaluateDeclaration, TopTypes, FrameUpdates, ReplaceTopType DEF EvaluateDeclaration, FramesOK, Running
    <2>4. QED
      BY <2>1, <2>2, <2>3, NextTypeParts
  <1>ForceOperand. CASE ForceOperand
    <2>1. SessionOK' /\ ForceOK' /\ ValueOK' /\ OverridesOK' /\ ReferencesOK' /\ TrackerOK' /\ ReportedOK'
      BY <1>0, <1>ForceOperand DEF ForceOperand, session, caches, tracker, SessionOK, ForceOK, ValueOK, OverridesOK, ReferencesOK, TrackerOK, ReportedOK
    <2>2. ControlOK'
      <3>1. /\ frames # <<>> /\ Top.next <= Len(prog.operands[Top.query])
            /\ control' = ForceType(prog.operands[Top.query][Top.next], Top.depth + 1)
        BY <1>ForceOperand DEF ForceOperand, Running
      <3>2. prog.operands[Top.query][Top.next] \in Query /\ Top.depth + 1 \in Nat
        BY <3>1, TopTypes, ElementOfSeq
      <3> QED
        BY <3>1, <3>2, ControlTypes DEF ControlOK
    <2>3. FramesOK'
      BY <1>0, <1>ForceOperand, TopTypes, FrameUpdates, ReplaceTopType DEF ForceOperand, FramesOK, Running
    <2>4. QED
      BY <2>1, <2>2, <2>3, NextTypeParts
  <1>ForceShapeChild. CASE ForceShapeChild
    <2>1. SessionOK' /\ ForceOK' /\ ValueOK' /\ OverridesOK' /\ TrackerOK' /\ ReportedOK'
      BY <1>0, <1>ForceShapeChild DEF ForceShapeChild, session, caches, tracker, SessionOK, ForceOK, ValueOK, OverridesOK, TrackerOK, ReportedOK
    <2>2. ControlOK'
      <3>1. /\ frames # <<>> /\ Top.next <= Len(prog.operands[Top.query])
            /\ control' = ForceType(prog.operands[Top.query][Top.next], 0)
        BY <1>ForceShapeChild DEF ForceShapeChild, Running
      <3>2. prog.operands[Top.query][Top.next] \in Query
        BY <3>1, TopTypes, ElementOfSeq
      <3> QED
        BY <3>1, <3>2, ControlTypes DEF ControlOK
    <2>3. FramesOK'
      BY <1>0, <1>ForceShapeChild, TopTypes, FrameUpdates, ReplaceTopType DEF ForceShapeChild, FramesOK, Running
    <2>4. ReferencesOK'
      BY <1>0, <1>ForceShapeChild, TopTypes, ElementOfSeq, PushSeq DEF ForceShapeChild, ReferencesOK, Running
    <2>5. QED
      BY <2>1, <2>2, <2>3, <2>4, NextTypeParts
  <1>EvaluateBody. CASE EvaluateBody
    <2>1. SessionOK' /\ FramesOK' /\ ForceOK' /\ ValueOK' /\ OverridesOK' /\ ReferencesOK' /\ TrackerOK' /\ ReportedOK'
      BY <1>0, <1>EvaluateBody DEF EvaluateBody, session, caches, tracker, SessionOK, FramesOK, ForceOK, ValueOK, OverridesOK, ReferencesOK, TrackerOK, ReportedOK
    <2>2. ControlOK'
      BY <1>0, <1>EvaluateBody, ControlTypes, TopTypes DEF EvaluateBody, ControlOK, Running
    <2>3. QED
      BY <2>1, <2>2, NextTypeParts
  <1>EvaluateBinary. CASE EvaluateBinary
    <2>1. SessionOK' /\ FramesOK' /\ ForceOK' /\ ValueOK' /\ OverridesOK' /\ ReferencesOK' /\ ReportedOK'
      BY <1>0, <1>EvaluateBinary DEF EvaluateBinary, session, caches, tracker, SessionOK, FramesOK, ForceOK, ValueOK, OverridesOK, ReferencesOK, ReportedOK
    <2>2. ControlOK'
      BY <1>0, <1>EvaluateBinary, ControlTypes, TopTypes DEF EvaluateBinary, ControlOK, Running, Completion
    <2>3. TrackerOK'
      BY <1>0, <1>EvaluateBinary, TopTypes, ObserveTypes DEF EvaluateBinary, TrackerOK, Running
    <2>4. QED
      BY <2>1, <2>2, <2>3, NextTypeParts
  <1>ResumeForce. CASE ResumeForce
    <2>1. SessionOK' /\ ForceOK' /\ ValueOK' /\ OverridesOK' /\ TrackerOK' /\ ReportedOK'
      BY <1>0, <1>ResumeForce DEF ResumeForce, session, caches, tracker, SessionOK, ForceOK, ValueOK, OverridesOK, TrackerOK, ReportedOK
    <2>2. ControlOK'
      BY <1>0, <1>ResumeForce, ControlTypes DEF ResumeForce, ControlOK
    <2>3. FramesOK'
      BY <1>0, <1>ResumeForce, TopTypes, FrameUpdates, ReplaceTopType, AnswerTypes, CombineVerdicts DEF ResumeForce, FramesOK, Answered
    <2>4. ReferencesOK'
      BY <1>0, <1>ResumeForce, RestoreTypes DEF ResumeForce, ReferencesOK, Answered
    <2>5. QED
      BY <2>1, <2>2, <2>3, <2>4, NextTypeParts
  <1>NormaliseResult. CASE NormaliseResult
    <2>1. SessionOK' /\ ForceOK' /\ ValueOK' /\ OverridesOK' /\ ReferencesOK' /\ TrackerOK' /\ ReportedOK'
      BY <1>0, <1>NormaliseResult DEF NormaliseResult, session, caches, tracker, SessionOK, ForceOK, ValueOK, OverridesOK, ReferencesOK, TrackerOK, ReportedOK
    <2>2. ControlOK'
      BY <1>0, <1>NormaliseResult, ControlTypes, TopTypes DEF NormaliseResult, ControlOK, Completion
    <2>3. FramesOK'
      BY <1>0, <1>NormaliseResult, TopTypes, FrameUpdates, ReplaceTopType DEF NormaliseResult, FramesOK
    <2>4. QED
      BY <2>1, <2>2, <2>3, NextTypeParts
  <1>FinishForce. CASE FinishForce
    <2>1. SessionOK' /\ ValueOK' /\ OverridesOK'
      BY <1>0, <1>FinishForce DEF FinishForce, session, caches, tracker, SessionOK, ValueOK, OverridesOK
    <2>2. ControlOK'
      BY <1>0, <1>FinishForce, ControlTypes DEF FinishForce, ControlOK
    <2>3. FramesOK'
      BY <1>0, <1>FinishForce, TopTypes DEF FinishForce, FramesOK
    <2>4. ForceOK'
      BY <1>0, <1>FinishForce, AnswerTypes, TopTypes DEF FinishForce, ForceOK, Settled, Remembered
    <2>5. ReferencesOK'
      BY <1>0, <1>FinishForce, RestoreTypes DEF FinishForce, ReferencesOK, RestoreReferences
    <2>6. TrackerOK'
      BY <1>0, <1>FinishForce, FinishCaptureType, CapturesOpen DEF FinishForce, TrackerOK, Opens
    <2>7. ReportedOK'
      BY <1>0, <1>FinishForce, TopTypes DEF FinishForce, ReportedOK, Complexity
    <2>8. QED
      BY <2>1, <2>2, <2>3, <2>4, <2>5, <2>6, <2>7, NextTypeParts
  <1>DeclarationOverridden. CASE DeclarationOverridden
    <2>1. SessionOK' /\ FramesOK' /\ ForceOK' /\ ValueOK' /\ OverridesOK' /\ ReferencesOK' /\ TrackerOK' /\ ReportedOK'
      BY <1>0, <1>DeclarationOverridden DEF DeclarationOverridden, session, caches, tracker, SessionOK, FramesOK, ForceOK, ValueOK, OverridesOK, ReferencesOK, TrackerOK, ReportedOK
    <2>2. ControlOK'
      BY <1>0, <1>DeclarationOverridden, ControlTypes, CacheFacts DEF DeclarationOverridden, ControlOK, Completion
    <2>3. QED
      BY <2>1, <2>2, NextTypeParts
  <1>DeclarationKnown. CASE DeclarationKnown
    <2>1. SessionOK' /\ FramesOK' /\ ForceOK' /\ ValueOK' /\ OverridesOK' /\ ReferencesOK' /\ TrackerOK' /\ ReportedOK'
      BY <1>0, <1>DeclarationKnown DEF DeclarationKnown, session, caches, tracker, SessionOK, FramesOK, ForceOK, ValueOK, OverridesOK, ReferencesOK, TrackerOK, ReportedOK
    <2>2. ControlOK'
      BY <1>0, <1>DeclarationKnown, ControlTypes, CacheFacts, TypesAssumption DEF DeclarationKnown, ControlOK, Completion, Type
    <2>3. QED
      BY <2>1, <2>2, NextTypeParts
  <1>DeclarationEnter. CASE DeclarationEnter
    <2>1. SessionOK' /\ ForceOK' /\ OverridesOK' /\ ReferencesOK' /\ ReportedOK'
      BY <1>0, <1>DeclarationEnter DEF DeclarationEnter, session, caches, tracker, SessionOK, ForceOK, OverridesOK, ReferencesOK, ReportedOK
    <2>2. ControlOK'
      BY <1>0, <1>DeclarationEnter, ControlTypes DEF DeclarationEnter, ControlOK
    <2>3. FramesOK'
      BY <1>0, <1>DeclarationEnter, NewFrameType, PushSeq DEF Root, DeclarationEnter, FramesOK
    <2>4. ValueOK'
      BY <1>0, <1>DeclarationEnter DEF DeclarationEnter, ValueOK
    <2>5. TrackerOK'
      BY <1>0, <1>DeclarationEnter, BeginCaptureType DEF DeclarationEnter, TrackerOK
    <2>6. QED
      BY <2>1, <2>2, <2>3, <2>4, <2>5, NextTypeParts
  <1>InferContexts. CASE InferContexts
    <2>1. SessionOK' /\ ControlOK' /\ ForceOK' /\ ReferencesOK' /\ TrackerOK' /\ ReportedOK'
      BY <1>0, <1>InferContexts DEF InferContexts, session, caches, tracker, SessionOK, ControlOK, ForceOK, ReferencesOK, TrackerOK, ReportedOK
    <2>2. FramesOK'
      BY <1>0, <1>InferContexts, TopTypes, FrameUpdates, ReplaceTopType DEF InferContexts, FramesOK, Inferring, Running
    <2>3. ValueOK'
      BY <1>0, <1>InferContexts DEF InferContexts, ValueOK
    <2>4. OverridesOK'
      BY <1>0, <1>InferContexts, CacheFacts DEF InferContexts, OverridesOK
    <2>5. QED
      BY <2>1, <2>2, <2>3, <2>4, NextTypeParts
  <1>InferOperand. CASE InferOperand
    <2>1. SessionOK' /\ ForceOK' /\ ValueOK' /\ OverridesOK' /\ ReferencesOK' /\ TrackerOK' /\ ReportedOK'
      BY <1>0, <1>InferOperand DEF InferOperand, session, caches, tracker, SessionOK, ForceOK, ValueOK, OverridesOK, ReferencesOK, TrackerOK, ReportedOK
    <2>2. ControlOK'
      <3>1. frames # <<>> /\ Top.next \in 1..Len(prog.operands[Top.query])
        BY <1>InferOperand, TopTypes, LenProperties DEF InferOperand, Inferring, Running
      <3>2. control' = ForceType(prog.operands[Top.query][Top.next], 0)
        BY <1>InferOperand DEF InferOperand
      <3>3. QED
        BY <3>1, <3>2, TopTypes, ElementOfSeq, ControlTypes DEF ControlOK
    <2>3. FramesOK'
      BY <1>0, <1>InferOperand, TopTypes, FrameUpdates, ReplaceTopType DEF InferOperand, FramesOK, Inferring, Running
    <2>4. QED
      BY <2>1, <2>2, <2>3, NextTypeParts
  <1>ResumeInference. CASE ResumeInference
    <2>1. SessionOK' /\ ForceOK' /\ ValueOK' /\ OverridesOK' /\ ReferencesOK' /\ ReportedOK'
      BY <1>0, <1>ResumeInference DEF ResumeInference, session, caches, tracker, SessionOK, ForceOK, ValueOK, OverridesOK, ReferencesOK, ReportedOK
    <2>2. ControlOK'
      BY <1>0, <1>ResumeInference, ControlTypes DEF ResumeInference, ControlOK
    <2>3. FramesOK'
      BY <1>0, <1>ResumeInference, TopTypes, FrameUpdates, ReplaceTopType DEF ResumeInference, FramesOK, Answered
    <2>4. TrackerOK'
      BY <1>0, <1>ResumeInference, AnswerTypes, ObserveTypes DEF ResumeInference, TrackerOK, Answered
    <2>5. QED
      BY <2>1, <2>2, <2>3, <2>4, NextTypeParts
  <1>FinishDeclaration. CASE FinishDeclaration
    <2>1. SessionOK' /\ ForceOK' /\ OverridesOK' /\ ReferencesOK' /\ ReportedOK'
      BY <1>0, <1>FinishDeclaration DEF FinishDeclaration, session, caches, tracker, SessionOK, ForceOK, OverridesOK, ReferencesOK, ReportedOK
    <2>2. ControlOK'
      BY <1>0, <1>FinishDeclaration, ControlTypes, TopTypes DEF FinishDeclaration, ControlOK, Running
    <2>3. FramesOK'
      BY <1>0, <1>FinishDeclaration, TopTypes DEF FinishDeclaration, FramesOK, Running
    <2>4. ValueOK'
      BY <1>0, <1>FinishDeclaration, TopTypes DEF FinishDeclaration, ValueOK, Running, Published
    <2>5. TrackerOK'
      BY <1>0, <1>FinishDeclaration, TopTypes, FinishCaptureType, CapturesOpen, ObserveTypes DEF FinishDeclaration, TrackerOK, Running, Opens
    <2>6. QED
      BY <2>1, <2>2, <2>3, <2>4, <2>5, NextTypeParts
  <1>FinishInitializer. CASE FinishInitializer
    <2>1. SessionOK' /\ ForceOK' /\ ValueOK' /\ OverridesOK' /\ ReferencesOK' /\ ReportedOK'
      BY <1>0, <1>FinishInitializer DEF FinishInitializer, session, caches, tracker, SessionOK, ForceOK, ValueOK, OverridesOK, ReferencesOK, ReportedOK
    <2>2. ControlOK'
      BY <1>0, <1>FinishInitializer, ControlTypes, TopTypes DEF FinishInitializer, ControlOK, Running
    <2>3. FramesOK'
      <3> DEFINE related == Top.query \in prog.annotated /\ prog.body[Top.query] \in Query
                 stage == IF related THEN "relation" ELSE "publish"
      <3>1. frames # <<>> /\ Opens(Top) /\ Top \in Frame
        BY <1>FinishInitializer, TopTypes DEF FinishInitializer, Running, Inferred, Opens
      <3>2. Captured(captures) \in Completion
        BY <1>0, <3>1, FinishCaptureType, CapturesOpen DEF TrackerOK
      <3>3. ReplaceTop([Top EXCEPT !.state = Captured(captures), !.stage = stage])
        BY <1>FinishInitializer DEF FinishInitializer
      <3>4. [Top EXCEPT !.state = Captured(captures), !.stage = stage] \in Frame
        BY <3>1, <3>2, FrameUpdates
      <3>5. QED
        BY <1>0, <3>1, <3>3, <3>4, ReplaceTopType
    <2>4. TrackerOK'
      BY <1>0, <1>FinishInitializer, FinishCaptureType, CapturesOpen DEF FinishInitializer, TrackerOK, Running, Opens, Inferred
    <2>5. QED
      BY <2>1, <2>2, <2>3, <2>4, NextTypeParts
  <1>PublishDeclarator. CASE PublishDeclarator
    <2>1. SessionOK' /\ ForceOK' /\ OverridesOK' /\ ReferencesOK' /\ TrackerOK' /\ ReportedOK'
      BY <1>0, <1>PublishDeclarator DEF PublishDeclarator, session, caches, tracker, SessionOK, ForceOK, OverridesOK, ReferencesOK, TrackerOK, ReportedOK
    <2>2. ControlOK'
      BY <1>0, <1>PublishDeclarator, ControlTypes DEF PublishDeclarator, ControlOK
    <2>3. FramesOK'
      BY <1>0, <1>PublishDeclarator, TopTypes DEF PublishDeclarator, FramesOK, Running
    <2>4. ValueOK'
      BY <1>0, <1>PublishDeclarator, TopTypes DEF PublishDeclarator, ValueOK, Running, Published
    <2>5. QED
      BY <2>1, <2>2, <2>3, <2>4, NextTypeParts
  <1>VisitAgain. CASE VisitAgain
    <2>1. SessionOK' /\ FramesOK' /\ ForceOK' /\ ValueOK' /\ OverridesOK' /\ ReferencesOK' /\ TrackerOK' /\ ReportedOK'
      BY <1>0, <1>VisitAgain DEF VisitAgain, session, caches, tracker, SessionOK, FramesOK, ForceOK, ValueOK, OverridesOK, ReferencesOK, TrackerOK, ReportedOK
    <2>2. ControlOK'
      BY <1>0, <1>VisitAgain, ControlTypes DEF VisitAgain, ControlOK, Type
    <2>3. QED
      BY <2>1, <2>2, NextTypeParts
  <1>VisitEnter. CASE VisitEnter
    <2>1. SessionOK' /\ ForceOK' /\ ValueOK' /\ OverridesOK' /\ ReferencesOK' /\ TrackerOK' /\ ReportedOK'
      BY <1>0, <1>VisitEnter DEF VisitEnter, session, caches, tracker, SessionOK, ForceOK, ValueOK, OverridesOK, ReferencesOK, TrackerOK, ReportedOK
    <2>2. ControlOK'
      BY <1>0, <1>VisitEnter, ControlTypes DEF VisitEnter, ControlOK
    <2>3. FramesOK'
      BY <1>0, <1>VisitEnter, NewFrameType, PushSeq DEF Root, VisitEnter, FramesOK
    <2>4. QED
      BY <2>1, <2>2, <2>3, NextTypeParts
  <1>VisitOperand. CASE VisitOperand
    <2>1. SessionOK' /\ ForceOK' /\ ValueOK' /\ OverridesOK' /\ ReferencesOK' /\ TrackerOK' /\ ReportedOK'
      BY <1>0, <1>VisitOperand DEF VisitOperand, session, caches, tracker, SessionOK, ForceOK, ValueOK, OverridesOK, ReferencesOK, TrackerOK, ReportedOK
    <2>2. ControlOK'
      BY <1>0, <1>VisitOperand, ControlTypes, TopTypes, ElementOfSeq DEF VisitOperand, ControlOK, Running
    <2>3. FramesOK'
      BY <1>0, <1>VisitOperand, TopTypes, FrameUpdates, ReplaceTopType DEF VisitOperand, FramesOK, Running
    <2>4. QED
      BY <2>1, <2>2, <2>3, NextTypeParts
  <1>ResumeVisit. CASE ResumeVisit
    <2>1. SessionOK' /\ ForceOK' /\ ValueOK' /\ OverridesOK' /\ ReferencesOK' /\ TrackerOK' /\ ReportedOK'
      BY <1>0, <1>ResumeVisit DEF ResumeVisit, session, caches, tracker, SessionOK, ForceOK, ValueOK, OverridesOK, ReferencesOK, TrackerOK, ReportedOK
    <2>2. ControlOK'
      BY <1>0, <1>ResumeVisit, ControlTypes DEF ResumeVisit, ControlOK
    <2>3. FramesOK'
      BY <1>0, <1>ResumeVisit, TopTypes, FrameUpdates, ReplaceTopType, AnswerTypes, CombineVerdicts DEF ResumeVisit, FramesOK, Answered
    <2>4. QED
      BY <2>1, <2>2, <2>3, NextTypeParts
  <1>VisitForce. CASE VisitForce
    <2>1. SessionOK' /\ ForceOK' /\ ValueOK' /\ OverridesOK' /\ ReferencesOK' /\ TrackerOK' /\ ReportedOK'
      BY <1>0, <1>VisitForce DEF VisitForce, session, caches, tracker, SessionOK, ForceOK, ValueOK, OverridesOK, ReferencesOK, TrackerOK, ReportedOK
    <2>2. ControlOK'
      BY <1>0, <1>VisitForce, ControlTypes, TopTypes DEF VisitForce, ControlOK, Running
    <2>3. FramesOK'
      BY <1>0, <1>VisitForce, TopTypes, FrameUpdates, ReplaceTopType DEF VisitForce, FramesOK, Running
    <2>4. QED
      BY <2>1, <2>2, <2>3, NextTypeParts
  <1>VisitClose. CASE VisitClose
    <2>1. SessionOK' /\ ValueOK' /\ OverridesOK' /\ ReferencesOK' /\ TrackerOK' /\ ReportedOK'
      BY <1>0, <1>VisitClose DEF VisitClose, session, caches, tracker, SessionOK, ValueOK, OverridesOK, ReferencesOK, TrackerOK, ReportedOK
    <2>2. ControlOK'
      BY <1>0, <1>VisitClose, ControlTypes, TopTypes DEF VisitClose, ControlOK, Running, Type
    <2>3. FramesOK'
      BY <1>0, <1>VisitClose, TopTypes DEF VisitClose, FramesOK, Running
    <2>4. ForceOK'
      BY <1>0, <1>VisitClose DEF VisitClose, ForceOK, Evicted
    <2>5. QED
      BY <2>1, <2>2, <2>3, <2>4, NextTypeParts
  <1>stutter. CASE UNCHANGED vars
    BY <1>stutter DEF TypeOK, vars
  <1>2. QED
    BY <1>SelectFile, <1>NextPass, <1>RequireTypeNode, <1>MarkProvisional, <1>DemandType, <1>CheckDeclarator, <1>FlushOrigin, <1>SummariseValue, <1>SummariseExport, <1>CloseDemand, <1>CloseFlush, <1>CloseSummary, <1>CloseRequire, <1>ForceReady, <1>ForceActive, <1>ForceOverBudget, <1>ForceEnter, <1>EvaluateNonclaim, <1>EvaluateUnproductive, <1>EvaluateDeclaration, <1>ForceOperand, <1>ForceShapeChild, <1>EvaluateBody, <1>EvaluateBinary, <1>ResumeForce, <1>NormaliseResult, <1>FinishForce, <1>DeclarationOverridden, <1>DeclarationKnown, <1>DeclarationEnter, <1>InferContexts, <1>InferOperand, <1>ResumeInference, <1>FinishDeclaration, <1>FinishInitializer, <1>PublishDeclarator, <1>VisitAgain, <1>VisitEnter, <1>VisitOperand, <1>ResumeVisit, <1>VisitForce, <1>VisitClose, <1>stutter DEF Next, Evaluate, Check

-----------------------------------------------------------------------------
\* The three ways a step moves the stack of calls: the call on top goes on, it
\* calls, or it returns.

SameCalls ==
    /\ Len(frames') = Len(frames)
    /\ \A i \in 1..Len(frames) : /\ frames'[i].owner = frames[i].owner
                                 /\ frames'[i].query = frames[i].query
                                 /\ frames'[i].base = frames[i].base

SameMarks ==
    \A q \in Query : /\ forceQueries'[q] = Computing <=> forceQueries[q] = Computing
                     /\ valueQueries'[q] = Computing <=> valueQueries[q] = Computing

Parameter(frame) == frame.owner = "value" /\ prog.kind[frame.query] = "parameter"

GoesOn ==
    /\ prog' = prog /\ SameCalls /\ SameMarks
    /\ control'.pc = "idle" <=> control.pc = "idle"
    /\ control'.pc \in {"normalise", "finish"} => Top.owner = "force"
    /\ control'.pc \in {"force", "declaration", "visit"} => control'.query \in Query
    /\ control'.pc = "visit" => frames # <<>> /\ Top.owner = "visit"
    /\ frames # <<>> /\ Parameter(Top) => control'.pc = "run"
    /\ frames = <<>> => references' = references
    /\ frames # <<>> => /\ Len(references') >= Floor(Top)
                        /\ Top.owner # "force" => references' = references
    /\ Len(captures') = Cardinality(OpenCaptures(frames'))

Calls(g) ==
    /\ prog' = prog
    /\ g \in Frame /\ frames' = Append(frames, g) /\ g.base = Len(references)
    /\ g.owner \in Root <=> frames = <<>>
    /\ control'.pc \notin {"idle", "normalise", "finish"}
    /\ control'.pc \in {"force", "declaration", "visit"} => control'.query \in Query
    /\ g.owner = "visit" => control.pc = "visit"
    /\ control'.pc = "visit" => g.owner = "require" /\ frames = <<>>
    /\ frames # <<>> => control.pc # "run"
    /\ Parameter(g) => control'.pc = "run"
    /\ Len(references') = Floor(g)
    /\ Len(captures') = Len(captures) + (IF Opens(g) THEN 1 ELSE 0)
    /\ g.owner = "force" => forceQueries[g.query] # Computing
    /\ g.owner = "value" => valueQueries[g.query] # Computing
    /\ \A q \in Query :
        /\ forceQueries'[q] = Computing
              <=> forceQueries[q] = Computing \/ (g.owner = "force" /\ g.query = q)
        /\ valueQueries'[q] = Computing
              <=> valueQueries[q] = Computing \/ (g.owner = "value" /\ g.query = q)

Returns ==
    /\ prog' = prog
    /\ frames # <<>> /\ frames' = Below
    /\ control'.pc = IF Top.owner \in Root THEN "idle" ELSE "return"
    /\ control.pc # "idle"
    /\ references \in Seq(Query) /\ references' \in Seq(Query)
    /\ IF Top.owner = "force" THEN Len(references') = Top.base ELSE references' = references
    /\ Len(captures') = Len(captures) - (IF Opens(Top) THEN 1 ELSE 0)
    /\ \A q \in Query :
        /\ forceQueries'[q] = Computing
              <=> forceQueries[q] = Computing /\ ~(Top.owner = "force" /\ Top.query = q)
        /\ valueQueries'[q] = Computing
              <=> valueQueries[q] = Computing /\ ~(Top.owner = "value" /\ Top.query = q)

LEMMA GoesOnKeeps ==
    ASSUME IInv, TypeOK', GoesOn
    PROVE  IInv'
  <1>1. frames \in Seq(Frame) /\ frames' \in Seq(Frame)
    BY DEF IInv, TypeOK
  <1>2. /\ Len(frames) \in Nat /\ Len(frames') = Len(frames)
        /\ DOMAIN frames = 1..Len(frames) /\ DOMAIN frames' = 1..Len(frames)
    BY <1>1, LenProperties DEF GoesOn, SameCalls
  <1>3. frames = <<>> <=> frames' = <<>>
    BY <1>1, <1>2, EmptySeq
  <1>4. /\ frames # <<>> => Len(frames) \in 1..Len(frames)
        /\ Top = frames[Len(frames)] /\ Top' = frames'[Len(frames)]
    BY <1>1, <1>2, EmptySeq DEF Top
  <1>5. CallsNest'
    BY <1>2, <1>3, <1>4 DEF IInv, StackDiscipline, CallsNest, GoesOn, SameCalls
  <1>6. VisitsComeFirst'
    BY <1>2, <1>3, <1>4 DEF IInv, StackDiscipline, VisitsComeFirst, GoesOn, SameCalls
  <1>7. ParametersOnTop'
    BY <1>2, <1>3, <1>4 DEF IInv, StackDiscipline, ParametersOnTop, GoesOn, SameCalls, Parameter
  <1>8. ReferencesNest'
    <2>1. \A i \in 1..Len(frames) : Floor(frames[i])' = Floor(frames[i])
      BY DEF GoesOn, SameCalls, Floor
    <2>2. \A i \in 1..Len(frames) : i # Len(frames) => Above(i)' = Above(i)
      <3>1. ASSUME NEW i \in 1..Len(frames), i # Len(frames)
            PROVE  frames'[i + 1].base = frames[i + 1].base
        <4>1. i + 1 \in 1..Len(frames)
          <5> DEFINE n == Len(frames)
          <5>1. n \in Nat
            BY <1>2
          <5> HIDE DEF n
          <5>2. i \in 1..n /\ i # n => i + 1 \in 1..n
            BY <5>1
          <5>3. QED
            BY <3>1, <5>2 DEF n
        <4>2. QED
          BY <4>1 DEF GoesOn, SameCalls
      <3>2. QED
        BY <1>2, <3>1 DEF Above
    <2>3. \A i \in 1..Len(frames) : i = Len(frames) => Above(i)' = Len(references')
      BY <1>2 DEF Above
    <2>4. frames' = <<>> => references' = <<>>
      BY <1>3 DEF IInv, StackDiscipline, ReferencesNest, GoesOn
    <2>5. ASSUME NEW i \in 1..Len(frames)
          PROVE  /\ i = 1 => frames'[i].base = 0
                 /\ Above(i)' >= Floor(frames[i])'
                 /\ frames'[i].owner # "force" => Above(i)' = frames'[i].base
      <3>1. /\ i = 1 => frames[i].base = 0
            /\ Above(i) >= Floor(frames[i])
            /\ frames[i].owner # "force" => Above(i) = frames[i].base
        BY <1>2 DEF IInv, StackDiscipline, ReferencesNest
      <3>2. CASE i # Len(frames)
        BY <2>1, <2>2, <3>1, <3>2 DEF GoesOn, SameCalls
      <3>3. CASE i = Len(frames)
        <4>1. frames # <<>> /\ Top = frames[i]
          BY <1>1, <1>4, <3>3, EmptySeq
        <4>2. Above(i) = Len(references) /\ Above(i)' = Len(references')
          BY <2>3, <3>3 DEF Above
        <4>3. QED
          BY <2>1, <3>1, <4>1, <4>2 DEF GoesOn, SameCalls
      <3>4. QED
        BY <3>2, <3>3
    <2>6. QED
      BY <1>2, <2>4, <2>5 DEF ReferencesNest
  <1>9. MarksAreActiveCalls'
    <2>1. ASSUME NEW i \in 1..Len(frames), NEW owner, NEW q
          PROVE  Owns(i, owner, q)' <=> Owns(i, owner, q)
      BY DEF GoesOn, SameCalls, Owns
    <2>2. ASSUME NEW q \in Query
          PROVE  /\ forceQueries'[q] = Computing
                       <=> \E i \in 1..Len(frames) : Owns(i, "force", q)'
                 /\ valueQueries'[q] = Computing
                       <=> \E i \in 1..Len(frames) : Owns(i, "value", q)'
      BY <1>2, <2>1 DEF IInv, MarksAreActiveCalls, GoesOn, SameMarks
    <2>3. ASSUME NEW i \in 1..Len(frames), NEW j \in 1..Len(frames),
                 frames'[i].owner \in {"force", "value"},
                 Owns(j, frames[i].owner, frames[i].query)'
          PROVE  i = j
      BY <1>2, <2>1, <2>3 DEF IInv, MarksAreActiveCalls, GoesOn, SameCalls
    <2>4. QED
      BY <1>2, <2>2, <2>3 DEF MarksAreActiveCalls, GoesOn, SameCalls, Owns
  <1>10. QED
    BY <1>5, <1>6, <1>7, <1>8, <1>9 DEF IInv, StackDiscipline, GoesOn

LEMMA CallsKeeps ==
    ASSUME IInv, TypeOK', NEW g, Calls(g)
    PROVE  IInv'
  <1> DEFINE n == Len(frames)
  <1>1. /\ frames \in Seq(Frame) /\ g \in Frame /\ n \in Nat /\ DOMAIN frames = 1..n
        /\ references \in Seq(Query) /\ Len(references) \in Nat
    BY LenProperties DEF IInv, TypeOK, Calls
  <1>2. /\ frames' # <<>> /\ Len(frames') = n + 1 /\ DOMAIN frames' = 1..(n + 1)
        /\ \A i \in 1..n : frames'[i] = frames[i]
        /\ frames'[n + 1] = g /\ Top' = g
    BY <1>1, PushSeq DEF Calls, Top
  <1>3. frames = <<>> <=> n = 0
    BY <1>1, EmptySeq
  <1>4. n \in Nat
    BY <1>1
  <1> HIDE DEF n
  <1>5. \A i \in 1..(n + 1) : i \in 1..n \/ i = n + 1
    BY <1>4
  <1>6. \A i \in 1..n : i # n + 1 /\ i \in 1..(n + 1)
    BY <1>4
  <1>7. CallsNest'
    <2>1. \A i \in 1..(n + 1) : frames'[i].owner \in Root <=> i = 1
      <3>1. ASSUME NEW i \in 1..n PROVE frames'[i].owner \in Root <=> i = 1
        BY <1>1, <1>2 DEF IInv, StackDiscipline, CallsNest
      <3>2. g.owner \in Root <=> n + 1 = 1
        BY <1>3, <1>4 DEF Calls
      <3>3. QED
        BY <1>2, <1>5, <3>1, <3>2
    <2>2. QED
      BY <1>2, <2>1 DEF CallsNest, Calls
  <1>8. VisitsComeFirst'
    <2>1. ASSUME NEW i \in 1..(n + 1), frames'[i].owner = "visit", NEW j \in 1..i
          PROVE  frames'[j].owner \in {"visit", "require"}
      <3>1. CASE i \in 1..n
        <4>1. j \in 1..n
          BY <1>4, <3>1
        <4>2. QED
          BY <1>1, <1>2, <2>1, <3>1, <4>1 DEF IInv, StackDiscipline, VisitsComeFirst
      <3>2. CASE i = n + 1
        <4>1. g.owner = "visit" /\ control.pc = "visit"
          BY <1>2, <2>1, <3>2 DEF Calls
        <4>2. j \in 1..n \/ j = n + 1
          BY <1>4, <3>2
        <4>3. QED
          BY <1>1, <1>2, <4>1, <4>2 DEF IInv, StackDiscipline, VisitsComeFirst
      <3>3. QED
        BY <1>5, <3>1, <3>2
    <2>2. ASSUME control'.pc = "visit", NEW j \in 1..(n + 1)
          PROVE  frames'[j].owner \in {"visit", "require"}
      <3>1. n = 0 /\ g.owner = "require"
        BY <1>3, <2>2 DEF Calls
      <3>2. j = n + 1
        BY <3>1
      <3>3. QED
        BY <1>2, <3>1, <3>2
    <2>3. QED
      BY <1>2, <2>1, <2>2 DEF VisitsComeFirst
  <1>9. ParametersOnTop'
    <2>1. ASSUME NEW i \in 1..n, Parameter(frames[i])
          PROVE  FALSE
      <3>1. frames # <<>>
        BY <1>3, <1>4
      <3>2. control.pc # "run"
        BY <3>1 DEF Calls
      <3>3. QED
        BY <1>1, <2>1, <3>2 DEF IInv, StackDiscipline, ParametersOnTop, Parameter
    <2>2. QED
      BY <1>2, <1>5, <2>1 DEF ParametersOnTop, Parameter, Calls
  <1>10. ReferencesNest'
    <2>1. \A i \in 1..(n + 1) : Floor(frames[i])' = Floor(frames'[i])
      BY DEF Calls, Floor
    <2>2. Len(references') = Floor(g)
      BY DEF Calls
    <2>3. g.base = Len(references)
      BY DEF Calls
    <2>4. ASSUME NEW i \in 1..n
          PROVE  Above(i)' = Above(i)
      <3>1. i + 1 \in 1..(n + 1) /\ i # n + 1
        BY <1>4
      <3>2. Above(i)' = frames'[i + 1].base
        BY <1>2, <3>1 DEF Above
      <3>3. CASE i = n
        BY <1>2, <2>3, <3>2, <3>3 DEF Above, n
      <3>4. CASE i # n
        <4>1. i + 1 \in 1..n
          BY <1>4, <3>4
        <4>2. QED
          BY <1>2, <3>2, <3>4, <4>1 DEF Above, n
      <3>5. QED
        BY <3>3, <3>4
    <2>5. ASSUME NEW i \in 1..(n + 1)
          PROVE  /\ i = 1 => frames'[i].base = 0
                 /\ Above(i)' >= Floor(frames[i])'
                 /\ frames'[i].owner # "force" => Above(i)' = frames'[i].base
      <3>1. CASE i \in 1..n
        <4>1. /\ i = 1 => frames[i].base = 0
              /\ Above(i) >= Floor(frames[i])
              /\ frames[i].owner # "force" => Above(i) = frames[i].base
          BY <1>1, <3>1 DEF IInv, StackDiscipline, ReferencesNest
        <4>2. Floor(frames'[i]) = Floor(frames[i]) /\ frames'[i] = frames[i]
          BY <1>2, <3>1
        <4>3. QED
          BY <2>1, <2>4, <3>1, <4>1, <4>2
      <3>2. CASE i = n + 1
        <4>1. i = 1 => frames = <<>> /\ references = <<>>
          BY <1>3, <1>4, <3>2 DEF IInv, StackDiscipline, ReferencesNest
        <4>2. i = 1 => g.base = 0
          BY <2>3, <4>1, EmptySeq
        <4>3. Floor(g) \in Int /\ (g.owner # "force" => Floor(g) = g.base)
          BY <1>1, <2>3 DEF Floor
        <4>4. Floor(frames[i])' = Floor(g)
          BY <1>2, <2>1, <3>2
        <4>5. Above(i)' = Floor(g)
          BY <1>2, <2>2, <3>2 DEF Above
        <4>6. Above(i)' >= Floor(frames[i])'
          BY <4>3, <4>4, <4>5
        <4>7. frames'[i] = g
          BY <1>2, <3>2
        <4>8. QED
          BY <4>2, <4>3, <4>5, <4>6, <4>7
      <3>3. QED
        BY <1>5, <3>1, <3>2
    <2>6. QED
      BY <1>2, <2>5 DEF ReferencesNest
  <1>11. MarksAreActiveCalls'
    <2>1. ASSUME NEW i \in 1..(n + 1), NEW owner, NEW q
          PROVE  Owns(i, owner, q)' <=> IF i = n + 1 THEN g.owner = owner /\ g.query = q
                                        ELSE i \in 1..n /\ Owns(i, owner, q)
      BY <1>2, <1>5, <1>6 DEF Owns
    <2>2. ASSUME NEW q \in Query
          PROVE  /\ forceQueries[q] = Computing <=> \E i \in 1..n : Owns(i, "force", q)
                 /\ valueQueries[q] = Computing <=> \E i \in 1..n : Owns(i, "value", q)
      BY <1>1 DEF IInv, MarksAreActiveCalls
    <2>3. n + 1 \in 1..(n + 1)
      BY <1>4
    <2>4. ASSUME NEW q \in Query
          PROVE  /\ forceQueries'[q] = Computing
                       <=> \E i \in 1..(n + 1) : Owns(i, "force", q)'
                 /\ valueQueries'[q] = Computing
                       <=> \E i \in 1..(n + 1) : Owns(i, "value", q)'
      BY <1>5, <1>6, <2>1, <2>2, <2>3 DEF Calls
    <2>5. ASSUME NEW i \in 1..(n + 1), NEW j \in 1..(n + 1),
                 frames'[i].owner \in {"force", "value"},
                 Owns(j, frames[i].owner, frames[i].query)'
          PROVE  i = j
      <3>1. g.query \in Query
        BY <1>1 DEF Frame
      <3>2. \A k \in 1..n : ~(g.owner \in {"force", "value"} /\ Owns(k, g.owner, g.query))
        BY <2>2, <3>1 DEF Calls
      <3>3. frames'[j].owner = frames'[i].owner /\ frames'[j].query = frames'[i].query
        BY <2>5 DEF Owns
      <3>4. CASE i \in 1..n /\ j \in 1..n
        BY <1>1, <1>2, <2>5, <3>3, <3>4 DEF IInv, MarksAreActiveCalls, Owns
      <3>5. CASE i = n + 1 /\ j \in 1..n
        BY <1>2, <2>5, <3>2, <3>3, <3>5 DEF Owns
      <3>6. CASE i \in 1..n /\ j = n + 1
        BY <1>2, <2>5, <3>2, <3>3, <3>6 DEF Owns
      <3>7. QED
        BY <1>5, <3>4, <3>5, <3>6
    <2>6. Len(captures') = Cardinality(OpenCaptures(frames'))
      BY <1>1, OpenPush DEF IInv, MarksAreActiveCalls, Calls
    <2>7. QED
      BY <1>2, <2>4, <2>5, <2>6 DEF MarksAreActiveCalls, Owns
  <1>12. QED
    BY <1>7, <1>8, <1>9, <1>10, <1>11 DEF IInv, StackDiscipline, Calls

LEMMA ReturnsKeeps ==
    ASSUME IInv, TypeOK', Returns
    PROVE  IInv'
  <1> DEFINE n == Len(frames) - 1
  <1>1. /\ frames \in Seq(Frame) /\ frames # <<>> /\ Len(frames) \in Nat \ {0}
        /\ DOMAIN frames = 1..Len(frames)
    BY PopSeq, LenProperties DEF IInv, TypeOK, Returns
  <1>2. /\ n \in Nat /\ Len(frames) = n + 1 /\ DOMAIN frames = 1..(n + 1)
    BY <1>1
  <1>3. /\ frames' \in Seq(Frame) /\ Len(frames') = n /\ DOMAIN frames' = 1..n
        /\ \A i \in 1..n : frames'[i] = frames[i]
    BY <1>1, PopSeq DEF Returns, Below
  <1>4. Top = frames[n + 1] /\ Top \in Frame
    BY <1>1, <1>2, PopSeq DEF Top
  <1>5. n \in Nat
    BY <1>2
  <1> HIDE DEF n
  <1>6. frames' = <<>> <=> n = 0
    BY <1>3, <1>5, EmptySeq
  <1>7. \A i \in 1..n : i \in 1..(n + 1) /\ i # n + 1
    BY <1>5
  <1>8. Top.owner \in Root <=> n = 0
    BY <1>2, <1>4, <1>5 DEF IInv, StackDiscipline, CallsNest
  <1>9. CallsNest'
    <2>1. \A i \in 1..n : frames'[i].owner \in Root <=> i = 1
      BY <1>2, <1>3, <1>7 DEF IInv, StackDiscipline, CallsNest
    <2>2. QED
      BY <1>3, <1>6, <1>8, <2>1 DEF CallsNest, Returns
  <1>10. VisitsComeFirst'
    <2>1. ASSUME NEW i \in 1..n, frames'[i].owner = "visit", NEW j \in 1..i
          PROVE  frames'[j].owner \in {"visit", "require"}
      <3>1. j \in 1..n
        BY <1>5
      <3>2. QED
        BY <1>2, <1>3, <1>7, <2>1, <3>1 DEF IInv, StackDiscipline, VisitsComeFirst
    <2>2. QED
      BY <1>3, <2>1 DEF VisitsComeFirst, Returns
  <1>11. ParametersOnTop'
    <2>1. ASSUME NEW i \in 1..n, Parameter(frames[i])
          PROVE  FALSE
      BY <1>2, <1>7, <2>1 DEF IInv, StackDiscipline, ParametersOnTop, Parameter
    <2>2. QED
      BY <1>3, <2>1 DEF ParametersOnTop, Parameter, Returns
  <1>12. ReferencesNest'
    <2>1. \A i \in 1..n : Floor(frames[i])' = Floor(frames[i])
      BY <1>3 DEF Returns, Floor
    <2>2. /\ Len(references) \in Nat /\ Len(references') \in Nat
      BY LenProperties DEF Returns
    <2>3. /\ n + 1 = 1 => Top.base = 0
          /\ Above(n + 1) >= Floor(Top)
          /\ Top.owner # "force" => Above(n + 1) = Top.base
      BY <1>2, <1>4, <1>5 DEF IInv, StackDiscipline, ReferencesNest
    <2>4. Above(n + 1) = Len(references)
      BY <1>2 DEF Above
    <2>5. Len(references') = Top.base
      BY <2>3, <2>4 DEF Returns
    <2>6. frames' = <<>> => references' = <<>>
      BY <1>6, <2>3, <2>5, EmptySeq DEF Returns
    <2>7. ASSUME NEW i \in 1..n
          PROVE  Above(i)' = Above(i)
      <3>1. i # n + 1 /\ Above(i) = frames[i + 1].base
        BY <1>2, <1>7 DEF Above
      <3>2. CASE i = n
        BY <1>3, <1>4, <2>5, <3>1, <3>2 DEF Above
      <3>3. CASE i # n
        <4>1. i + 1 \in 1..n
          BY <1>5, <3>3
        <4>2. QED
          BY <1>3, <3>1, <3>3, <4>1 DEF Above
      <3>4. QED
        BY <3>2, <3>3
    <2>8. ASSUME NEW i \in 1..n
          PROVE  /\ i = 1 => frames'[i].base = 0
                 /\ Above(i)' >= Floor(frames[i])'
                 /\ frames'[i].owner # "force" => Above(i)' = frames'[i].base
      <3>1. /\ i = 1 => frames[i].base = 0
            /\ Above(i) >= Floor(frames[i])
            /\ frames[i].owner # "force" => Above(i) = frames[i].base
        BY <1>2, <1>7 DEF IInv, StackDiscipline, ReferencesNest
      <3>2. QED
        BY <1>3, <2>1, <2>7, <3>1
    <2>9. QED
      BY <1>3, <2>6, <2>8 DEF ReferencesNest
  <1>13. MarksAreActiveCalls'
    <2>1. ASSUME NEW i \in 1..n, NEW owner, NEW q
          PROVE  Owns(i, owner, q)' <=> Owns(i, owner, q)
      BY <1>3 DEF Owns
    <2>2. ASSUME NEW q \in Query
          PROVE  /\ forceQueries[q] = Computing <=> \E i \in 1..(n + 1) : Owns(i, "force", q)
                 /\ valueQueries[q] = Computing <=> \E i \in 1..(n + 1) : Owns(i, "value", q)
      BY <1>2 DEF IInv, MarksAreActiveCalls
    <2>3. ASSUME NEW i \in 1..(n + 1), NEW j \in 1..(n + 1),
                 frames[i].owner \in {"force", "value"},
                 Owns(j, frames[i].owner, frames[i].query)
          PROVE  i = j
      BY <1>2, <2>3 DEF IInv, MarksAreActiveCalls
    <2>4. n + 1 \in 1..(n + 1) /\ \A i \in 1..(n + 1) : i \in 1..n \/ i = n + 1
      BY <1>5
    <2>5. ASSUME NEW q, NEW owner \in {"force", "value"}, NEW i \in 1..(n + 1),
                 Owns(i, owner, q)
          PROVE  i \in 1..n <=> ~(Top.owner = owner /\ Top.query = q)
      <3>1. CASE i = n + 1
        BY <1>4, <1>7, <2>5, <3>1 DEF Owns
      <3>2. CASE i \in 1..n
        <4>1. ASSUME Top.owner = owner, Top.query = q
              PROVE  FALSE
          <5>1. Owns(n + 1, frames[i].owner, frames[i].query)
            BY <1>4, <2>5, <4>1 DEF Owns
          <5>2. frames[i].owner \in {"force", "value"}
            BY <2>5 DEF Owns
          <5>3. QED
            BY <1>7, <2>3, <2>4, <3>2, <5>1, <5>2
        <4>2. QED
          BY <3>2, <4>1
      <3>3. QED
        BY <2>4, <3>1, <3>2
    <2>6. ASSUME NEW q \in Query
          PROVE  /\ forceQueries'[q] = Computing <=> \E i \in 1..n : Owns(i, "force", q)'
                 /\ valueQueries'[q] = Computing <=> \E i \in 1..n : Owns(i, "value", q)'
      BY <1>7, <2>1, <2>2, <2>5 DEF Returns
    <2>7. ASSUME NEW i \in 1..n, NEW j \in 1..n,
                 frames'[i].owner \in {"force", "value"},
                 Owns(j, frames[i].owner, frames[i].query)'
          PROVE  i = j
      BY <1>3, <1>7, <2>3, <2>7 DEF Owns
    <2>8. Len(captures') = Cardinality(OpenCaptures(frames'))
      <3>1. Cardinality(OpenCaptures(frames')) =
              Cardinality(OpenCaptures(frames)) - (IF Opens(Top) THEN 1 ELSE 0)
        BY <1>1, OpenPop DEF Returns, Below, Top
      <3>2. QED
        BY <3>1 DEF IInv, MarksAreActiveCalls, Returns
    <2>9. QED
      BY <1>3, <2>6, <2>7, <2>8 DEF MarksAreActiveCalls, Owns
  <1>14. QED
    BY <1>9, <1>10, <1>11, <1>12, <1>13 DEF IInv, StackDiscipline, Returns

-----------------------------------------------------------------------------
\* What the invariant says of the call on top.

LEMMA OnTop ==
    ASSUME IInv, frames # <<>>
    PROVE  /\ TypeOK /\ CallsNest /\ MarksAreActiveCalls /\ ReferencesNest
           /\ Parameter(Top) => control.pc = "run"
           /\ Len(references) \in Nat /\ Top.base \in Nat /\ Len(references) >= Floor(Top)
           /\ Top.owner # "force" => Len(references) = Top.base
  <1>1. TypeOK /\ CallsNest /\ MarksAreActiveCalls /\ ReferencesNest
    BY DEF IInv, StackDiscipline
  <1>2. frames \in Seq(Frame) /\ Len(frames) \in DOMAIN frames
    BY <1>1, PopSeq, LenProperties DEF TypeOK
  <1>3. Parameter(Top) => control.pc = "run"
    BY <1>2 DEF IInv, StackDiscipline, ParametersOnTop, Parameter, Top
  <1>4. /\ Len(references) >= Floor(Top)
        /\ Top.owner # "force" => Len(references) = Top.base
    BY <1>1, <1>2 DEF ReferencesNest, Above, Top
  <1>5. Len(references) \in Nat /\ Top.base \in Nat
    BY <1>1, TopTypes, LenProperties DEF TypeOK
  <1>6. QED
    BY <1>1, <1>3, <1>4, <1>5

\* A call that keeps its owner, query and checkpoint is the same call.
SameStack ==
    /\ prog' = prog
    /\ SameCalls
    /\ Cardinality(OpenCaptures(frames')) = Cardinality(OpenCaptures(frames))

LEMMA Untouched ==
    ASSUME UNCHANGED <<prog, frames>>
    PROVE  SameStack
  BY DEF SameStack, SameCalls

LEMMA Restaged ==
    ASSUME TypeOK, frames # <<>>, NEW g \in Frame, ReplaceTop(g), UNCHANGED prog,
           g.owner = Top.owner, g.query = Top.query, g.base = Top.base
    PROVE  /\ SameCalls
           /\ Cardinality(OpenCaptures(frames')) =
                Cardinality(OpenCaptures(frames)) - (IF Opens(Top) THEN 1 ELSE 0)
                                                  + (IF Opens(g) THEN 1 ELSE 0)
           /\ (Opens(g) <=> Opens(Top)) => SameStack
  <1>1. frames \in Seq(Frame)
    BY DEF TypeOK
  <1>2. SameCalls
    BY <1>1, ReplaceSeq DEF SameCalls, ReplaceTop, Top
  <1>3. Cardinality(OpenCaptures(frames')) =
                Cardinality(OpenCaptures(frames)) - (IF Opens(Top) THEN 1 ELSE 0)
                                                  + (IF Opens(g) THEN 1 ELSE 0)
    BY <1>1, OpenReplace DEF ReplaceTop, Top
  <1>4. Cardinality(OpenCaptures(frames)) \in Nat
    BY <1>1, OpenFinite
  <1>5. ASSUME Opens(g) <=> Opens(Top)
        PROVE  Cardinality(OpenCaptures(frames')) = Cardinality(OpenCaptures(frames))
    BY <1>3, <1>4, <1>5
  <1>6. QED
    BY <1>2, <1>3, <1>5 DEF SameStack

\* The updates an action makes to the call on top keep it the same call.
LEMMA SameCall ==
    ASSUME NEW f \in Frame
    PROVE  /\ LET g == [f EXCEPT !.next = @ + 1]
              IN  g.owner = f.owner /\ g.query = f.query /\ g.base = f.base /\ (Opens(g) <=> Opens(f))
           /\ \A c : LET g == [f EXCEPT !.state = c]
                     IN  g.owner = f.owner /\ g.query = f.query /\ g.base = f.base
                           /\ (Opens(g) <=> Opens(f))
           /\ \A stage : LET g == [f EXCEPT !.stage = stage]
                         IN  g.owner = f.owner /\ g.query = f.query /\ g.base = f.base
                               /\ (f.owner # "declarator" => (Opens(g) <=> Opens(f)))
           /\ \A c, stage : LET g == [f EXCEPT !.state = c, !.stage = stage]
                            IN  g.owner = f.owner /\ g.query = f.query /\ g.base = f.base
                                  /\ (f.owner # "declarator" => (Opens(g) <=> Opens(f)))
  BY DEF Frame, Opens

LEMMA NextOperand ==
    ASSUME NEW s \in Seq(Query), NEW i \in Nat \ {0}, i <= Len(s)
    PROVE  i \in 1..Len(s) /\ s[i] \in Query
  BY LenProperties

\* A step that leaves the calls, the marks and the number of captures alone.
LEMMA StaysKeeps ==
    ASSUME IInv, TypeOK', frames # <<>>, SameStack, SameMarks,
           Len(captures') = Len(captures),
           control.pc # "idle", control'.pc # "idle",
           control'.pc \in {"normalise", "finish"} => Top.owner = "force",
           control'.pc \in {"force", "declaration", "visit"} => control'.query \in Query,
           control'.pc = "visit" => Top.owner = "visit",
           Parameter(Top) => control'.pc = "run",
           \/ references' = references
           \/ Top.owner = "force" /\ Len(references') >= Floor(Top)
    PROVE  IInv'
  <1>1. Len(captures') = Cardinality(OpenCaptures(frames'))
    BY OnTop DEF SameStack, MarksAreActiveCalls
  <1>2. GoesOn
    BY <1>1, OnTop DEF GoesOn, SameStack
  <1>3. QED
    BY <1>2, GoesOnKeeps

-----------------------------------------------------------------------------
\* Every step keeps the invariant.

LEMMA StepKeeps ==
    ASSUME IInv, [Next]_vars
    PROVE  IInv'
  <1>1. TypeOK /\ CallsNest /\ MarksAreActiveCalls /\ ReferencesNest
    BY DEF IInv, StackDiscipline
  <1>2. TypeOK'
    BY <1>1, TypeStep
  <1> USE <1>1
  <1>ForceReady. CASE ForceReady
    <2>1. frames # <<>> /\ control.pc # "idle" /\ (Parameter(Top) => control.pc = "run")
      BY <1>ForceReady, ControlFacts, OnTop DEF ForceReady, Running, Answered
    <2>2. SameStack /\ SameMarks /\ references' = references
      BY <1>ForceReady, Untouched DEF ForceReady, session, caches, tracker, SameMarks, ObserveCurrent
    <2>3. captures' = captures
      BY <1>ForceReady DEF ForceReady, tracker
    <2>4. /\ control'.pc \notin {"idle", "force", "declaration", "visit"}
          /\ control'.pc \in {"normalise", "finish"} => Top.owner = "force"
          /\ Parameter(Top) => control'.pc = "run"
      BY <1>ForceReady, <2>1 DEF ForceReady, Running, Answered, Parameter, Go, Run, ForceType, Declaration, Visit, Normalise, Finish, Return
    <2>5. QED
      BY <1>2, <2>1, <2>2, <2>3, <2>4, StaysKeeps
  <1>ForceActive. CASE ForceActive
    <2>1. frames # <<>> /\ control.pc # "idle" /\ (Parameter(Top) => control.pc = "run")
      BY <1>ForceActive, ControlFacts, OnTop DEF ForceActive, Running, Answered
    <2>2. SameStack /\ SameMarks /\ references' = references
      BY <1>ForceActive, Untouched DEF ForceActive, session, caches, tracker, SameMarks, ObserveCurrent
    <2>3. captures' = captures
      BY <1>ForceActive DEF ForceActive, tracker
    <2>4. /\ control'.pc \notin {"idle", "force", "declaration", "visit"}
          /\ control'.pc \in {"normalise", "finish"} => Top.owner = "force"
          /\ Parameter(Top) => control'.pc = "run"
      BY <1>ForceActive, <2>1 DEF ForceActive, Running, Answered, Parameter, Go, Run, ForceType, Declaration, Visit, Normalise, Finish, Return
    <2>5. QED
      BY <1>2, <2>1, <2>2, <2>3, <2>4, StaysKeeps
  <1>ForceOverBudget. CASE ForceOverBudget
    <2>1. frames # <<>> /\ control.pc # "idle" /\ (Parameter(Top) => control.pc = "run")
      BY <1>ForceOverBudget, ControlFacts, OnTop DEF ForceOverBudget, Running, Answered
    <2>2. SameStack /\ SameMarks /\ references' = references
      BY <1>ForceOverBudget, Untouched DEF ForceOverBudget, session, caches, tracker, SameMarks, ObserveCurrent
    <2>3. captures' = captures
      BY <1>ForceOverBudget DEF ForceOverBudget, tracker
    <2>4. /\ control'.pc \notin {"idle", "force", "declaration", "visit"}
          /\ control'.pc \in {"normalise", "finish"} => Top.owner = "force"
          /\ Parameter(Top) => control'.pc = "run"
      BY <1>ForceOverBudget, <2>1 DEF ForceOverBudget, Running, Answered, Parameter, Go, Run, ForceType, Declaration, Visit, Normalise, Finish, Return
    <2>5. QED
      BY <1>2, <2>1, <2>2, <2>3, <2>4, StaysKeeps
  <1>EvaluateNonclaim. CASE EvaluateNonclaim
    <2>1. frames # <<>> /\ control.pc # "idle" /\ (Parameter(Top) => control.pc = "run")
      BY <1>EvaluateNonclaim, ControlFacts, OnTop DEF EvaluateNonclaim, Running, Answered
    <2>2. SameStack /\ SameMarks /\ references' = references
      BY <1>EvaluateNonclaim, Untouched DEF EvaluateNonclaim, session, caches, tracker, SameMarks, ObserveCurrent
    <2>3. captures' = captures
      BY <1>EvaluateNonclaim DEF EvaluateNonclaim, tracker
    <2>4. /\ control'.pc \notin {"idle", "force", "declaration", "visit"}
          /\ control'.pc \in {"normalise", "finish"} => Top.owner = "force"
          /\ Parameter(Top) => control'.pc = "run"
      BY <1>EvaluateNonclaim, <2>1 DEF EvaluateNonclaim, Running, Answered, Parameter, Go, Run, ForceType, Declaration, Visit, Normalise, Finish, Return
    <2>5. QED
      BY <1>2, <2>1, <2>2, <2>3, <2>4, StaysKeeps
  <1>EvaluateUnproductive. CASE EvaluateUnproductive
    <2>1. frames # <<>> /\ control.pc # "idle" /\ (Parameter(Top) => control.pc = "run")
      BY <1>EvaluateUnproductive, ControlFacts, OnTop DEF EvaluateUnproductive, Running, Answered
    <2>2. SameStack /\ SameMarks /\ references' = references
      BY <1>EvaluateUnproductive, Untouched DEF EvaluateUnproductive, session, caches, tracker, SameMarks, ObserveCurrent
    <2>3. captures' = captures
      BY <1>EvaluateUnproductive DEF EvaluateUnproductive, tracker
    <2>4. /\ control'.pc \notin {"idle", "force", "declaration", "visit"}
          /\ control'.pc \in {"normalise", "finish"} => Top.owner = "force"
          /\ Parameter(Top) => control'.pc = "run"
      BY <1>EvaluateUnproductive, <2>1 DEF EvaluateUnproductive, Running, Answered, Parameter, Go, Run, ForceType, Declaration, Visit, Normalise, Finish, Return
    <2>5. QED
      BY <1>2, <2>1, <2>2, <2>3, <2>4, StaysKeeps
  <1>EvaluateBody. CASE EvaluateBody
    <2>1. frames # <<>> /\ control.pc # "idle" /\ (Parameter(Top) => control.pc = "run")
      BY <1>EvaluateBody, ControlFacts, OnTop DEF EvaluateBody, Running, Answered
    <2>2. SameStack /\ SameMarks /\ references' = references
      BY <1>EvaluateBody, Untouched DEF EvaluateBody, session, caches, tracker, SameMarks, ObserveCurrent
    <2>3. captures' = captures
      BY <1>EvaluateBody DEF EvaluateBody, tracker
    <2>4. /\ control'.pc \notin {"idle", "force", "declaration", "visit"}
          /\ control'.pc \in {"normalise", "finish"} => Top.owner = "force"
          /\ Parameter(Top) => control'.pc = "run"
      BY <1>EvaluateBody, <2>1 DEF EvaluateBody, Running, Answered, Parameter, Go, Run, ForceType, Declaration, Visit, Normalise, Finish, Return
    <2>5. QED
      BY <1>2, <2>1, <2>2, <2>3, <2>4, StaysKeeps
  <1>EvaluateBinary. CASE EvaluateBinary
    <2>1. frames # <<>> /\ control.pc # "idle" /\ (Parameter(Top) => control.pc = "run")
      BY <1>EvaluateBinary, ControlFacts, OnTop DEF EvaluateBinary, Running, Answered
    <2>2. SameStack /\ SameMarks /\ references' = references
      BY <1>EvaluateBinary, Untouched DEF EvaluateBinary, session, caches, tracker, SameMarks, ObserveCurrent
    <2>3. Len(captures') = Len(captures)
      BY <1>EvaluateBinary, TopTypes, ObserveTypes, <2>1 DEF EvaluateBinary
    <2>4. /\ control'.pc \notin {"idle", "force", "declaration", "visit"}
          /\ control'.pc \in {"normalise", "finish"} => Top.owner = "force"
          /\ Parameter(Top) => control'.pc = "run"
      BY <1>EvaluateBinary, <2>1 DEF EvaluateBinary, Running, Answered, Parameter, Go, Run, ForceType, Declaration, Visit, Normalise, Finish, Return
    <2>5. QED
      BY <1>2, <2>1, <2>2, <2>3, <2>4, StaysKeeps
  <1>DeclarationOverridden. CASE DeclarationOverridden
    <2>1. frames # <<>> /\ control.pc # "idle" /\ (Parameter(Top) => control.pc = "run")
      BY <1>DeclarationOverridden, ControlFacts, OnTop DEF DeclarationOverridden, Running, Answered
    <2>2. SameStack /\ SameMarks /\ references' = references
      BY <1>DeclarationOverridden, Untouched DEF DeclarationOverridden, session, caches, tracker, SameMarks, ObserveCurrent
    <2>3. captures' = captures
      BY <1>DeclarationOverridden DEF DeclarationOverridden, tracker
    <2>4. /\ control'.pc \notin {"idle", "force", "declaration", "visit"}
          /\ control'.pc \in {"normalise", "finish"} => Top.owner = "force"
          /\ Parameter(Top) => control'.pc = "run"
      BY <1>DeclarationOverridden, <2>1 DEF DeclarationOverridden, Running, Answered, Parameter, Go, Run, ForceType, Declaration, Visit, Normalise, Finish, Return
    <2>5. QED
      BY <1>2, <2>1, <2>2, <2>3, <2>4, StaysKeeps
  <1>DeclarationKnown. CASE DeclarationKnown
    <2>1. frames # <<>> /\ control.pc # "idle" /\ (Parameter(Top) => control.pc = "run")
      BY <1>DeclarationKnown, ControlFacts, OnTop DEF DeclarationKnown, Running, Answered
    <2>2. SameStack /\ SameMarks /\ references' = references
      BY <1>DeclarationKnown, Untouched DEF DeclarationKnown, session, caches, tracker, SameMarks, ObserveCurrent
    <2>3. captures' = captures
      BY <1>DeclarationKnown DEF DeclarationKnown, tracker
    <2>4. /\ control'.pc \notin {"idle", "force", "declaration", "visit"}
          /\ control'.pc \in {"normalise", "finish"} => Top.owner = "force"
          /\ Parameter(Top) => control'.pc = "run"
      BY <1>DeclarationKnown, <2>1 DEF DeclarationKnown, Running, Answered, Parameter, Go, Run, ForceType, Declaration, Visit, Normalise, Finish, Return
    <2>5. QED
      BY <1>2, <2>1, <2>2, <2>3, <2>4, StaysKeeps
  <1>VisitAgain. CASE VisitAgain
    <2>1. frames # <<>> /\ control.pc # "idle" /\ (Parameter(Top) => control.pc = "run")
      BY <1>VisitAgain, ControlFacts, OnTop DEF VisitAgain, Running, Answered
    <2>2. SameStack /\ SameMarks /\ references' = references
      BY <1>VisitAgain, Untouched DEF VisitAgain, session, caches, tracker, SameMarks, ObserveCurrent
    <2>3. captures' = captures
      BY <1>VisitAgain DEF VisitAgain, tracker
    <2>4. /\ control'.pc \notin {"idle", "force", "declaration", "visit"}
          /\ control'.pc \in {"normalise", "finish"} => Top.owner = "force"
          /\ Parameter(Top) => control'.pc = "run"
      BY <1>VisitAgain, <2>1 DEF VisitAgain, Running, Answered, Parameter, Go, Run, ForceType, Declaration, Visit, Normalise, Finish, Return
    <2>5. QED
      BY <1>2, <2>1, <2>2, <2>3, <2>4, StaysKeeps
  <1>EvaluateDeclaration. CASE EvaluateDeclaration
    <2> DEFINE g == [Top EXCEPT !.stage = "declaration"]
    <2>1. frames # <<>> /\ control.pc # "idle" /\ (Parameter(Top) => control.pc = "run")
          /\ Top \in Frame
      BY <1>EvaluateDeclaration, ControlFacts, OnTop, TopTypes DEF EvaluateDeclaration, Running, Answered
    <2>2. g \in Frame /\ g.owner = Top.owner /\ g.query = Top.query /\ g.base = Top.base
          /\ (Opens(g) <=> Opens(Top))
      BY <1>EvaluateDeclaration, <2>1, FrameUpdates, SameCall DEF EvaluateDeclaration, Running, Answered
    <2>3. ReplaceTop(g) /\ prog' = prog
      BY <1>EvaluateDeclaration DEF EvaluateDeclaration, session
    <2> HIDE DEF g
    <2>4. SameStack
      BY <2>1, <2>2, <2>3, Restaged
    <2>5. SameMarks /\ Len(captures') = Len(captures)
      BY <1>EvaluateDeclaration DEF EvaluateDeclaration, caches, tracker, SameMarks
    <2>6. references' = references
      BY <1>EvaluateDeclaration DEF EvaluateDeclaration
    <2>7. /\ control'.pc # "idle"
          /\ control'.pc \in {"normalise", "finish"} => Top.owner = "force"
          /\ control'.pc \in {"force", "declaration", "visit"} => control'.query \in Query
          /\ control'.pc = "visit" => Top.owner = "visit"
          /\ Parameter(Top) => control'.pc = "run"
      BY <1>EvaluateDeclaration, <2>1, TopTypes DEF EvaluateDeclaration, Running, Answered, Parameter, Go, Run, ForceType, Declaration, Visit, Normalise, Finish, Return
    <2>8. QED
      BY <1>2, <2>1, <2>4, <2>5, <2>6, <2>7, StaysKeeps
  <1>ForceOperand. CASE ForceOperand
    <2> DEFINE g == [Top EXCEPT !.next = @ + 1]
    <2>1. frames # <<>> /\ control.pc # "idle" /\ (Parameter(Top) => control.pc = "run")
          /\ Top \in Frame
      BY <1>ForceOperand, ControlFacts, OnTop, TopTypes DEF ForceOperand, Running, Answered
    <2>2. g \in Frame /\ g.owner = Top.owner /\ g.query = Top.query /\ g.base = Top.base
          /\ (Opens(g) <=> Opens(Top))
      BY <1>ForceOperand, <2>1, FrameUpdates, SameCall DEF ForceOperand, Running, Answered
    <2>3. ReplaceTop(g) /\ prog' = prog
      BY <1>ForceOperand DEF ForceOperand, session
    <2> HIDE DEF g
    <2>4. SameStack
      BY <2>1, <2>2, <2>3, Restaged
    <2>5. SameMarks /\ Len(captures') = Len(captures)
      BY <1>ForceOperand DEF ForceOperand, caches, tracker, SameMarks
    <2>6. references' = references
      BY <1>ForceOperand DEF ForceOperand
    <2>7. /\ control'.pc # "idle"
          /\ control'.pc \in {"normalise", "finish"} => Top.owner = "force"
          /\ control'.pc \in {"force", "declaration", "visit"} => control'.query \in Query
          /\ control'.pc = "visit" => Top.owner = "visit"
          /\ Parameter(Top) => control'.pc = "run"
      BY <1>ForceOperand, <2>1, TopTypes, NextOperand DEF ForceOperand, Running, Answered, Parameter, Go, Run, ForceType, Declaration, Visit, Normalise, Finish, Return
    <2>8. QED
      BY <1>2, <2>1, <2>4, <2>5, <2>6, <2>7, StaysKeeps
  <1>ForceShapeChild. CASE ForceShapeChild
    <2> DEFINE g == [Top EXCEPT !.next = @ + 1]
    <2>1. frames # <<>> /\ control.pc # "idle" /\ (Parameter(Top) => control.pc = "run")
          /\ Top \in Frame
      BY <1>ForceShapeChild, ControlFacts, OnTop, TopTypes DEF ForceShapeChild, Running, Answered
    <2>2. g \in Frame /\ g.owner = Top.owner /\ g.query = Top.query /\ g.base = Top.base
          /\ (Opens(g) <=> Opens(Top))
      BY <1>ForceShapeChild, <2>1, FrameUpdates, SameCall DEF ForceShapeChild, Running, Answered
    <2>3. ReplaceTop(g) /\ prog' = prog
      BY <1>ForceShapeChild DEF ForceShapeChild, session
    <2> HIDE DEF g
    <2>4. SameStack
      BY <2>1, <2>2, <2>3, Restaged
    <2>5. SameMarks /\ Len(captures') = Len(captures)
      BY <1>ForceShapeChild DEF ForceShapeChild, caches, tracker, SameMarks
    <2>6. Top.owner = "force" /\ Len(references') >= Floor(Top)
      <3>1. prog.operands[Top.query][Top.next] \in Query
        BY <1>ForceShapeChild, <2>1, TopTypes, NextOperand DEF ForceShapeChild
      <3>2. Len(references') = Len(references) + 1
        BY <1>ForceShapeChild, <3>1, PushSeq DEF ForceShapeChild, TypeOK
      <3>3. Len(references) \in Nat /\ Top.base \in Nat /\ Len(references) >= Floor(Top)
        BY <2>1, OnTop
      <3>4. Floor(Top) \in Nat
        BY <3>3 DEF Floor
      <3>5. QED
        BY <1>ForceShapeChild, <3>2, <3>3, <3>4 DEF ForceShapeChild, Running
    <2>7. /\ control'.pc # "idle"
          /\ control'.pc \in {"normalise", "finish"} => Top.owner = "force"
          /\ control'.pc \in {"force", "declaration", "visit"} => control'.query \in Query
          /\ control'.pc = "visit" => Top.owner = "visit"
          /\ Parameter(Top) => control'.pc = "run"
      BY <1>ForceShapeChild, <2>1, TopTypes, NextOperand DEF ForceShapeChild, Running, Answered, Parameter, Go, Run, ForceType, Declaration, Visit, Normalise, Finish, Return
    <2>8. QED
      BY <1>2, <2>1, <2>4, <2>5, <2>6, <2>7, StaysKeeps
  <1>ResumeForce. CASE ResumeForce
    <2> DEFINE g == [Top EXCEPT !.state = Combine(@, control.answer.state)]
    <2>1. frames # <<>> /\ control.pc # "idle" /\ (Parameter(Top) => control.pc = "run")
          /\ Top \in Frame
      BY <1>ResumeForce, ControlFacts, OnTop, TopTypes DEF ResumeForce, Running, Answered
    <2>2. g \in Frame /\ g.owner = Top.owner /\ g.query = Top.query /\ g.base = Top.base
          /\ (Opens(g) <=> Opens(Top))
      <3>1. Combine(Top.state, control.answer.state) \in Completion
        BY <2>1, ControlFacts, AnswerTypes, CombineVerdicts, TopTypes
      <3>2. Top.owner # "declarator"
        BY <1>ResumeForce DEF ResumeForce, Answered
      <3>3. QED
        BY <2>1, <3>1, <3>2 DEF Frame, Opens
    <2>3. ReplaceTop(g) /\ prog' = prog
      BY <1>ResumeForce DEF ResumeForce, session
    <2> HIDE DEF g
    <2>4. SameStack
      BY <2>1, <2>2, <2>3, Restaged
    <2>5. SameMarks /\ Len(captures') = Len(captures)
      BY <1>ResumeForce DEF ResumeForce, caches, tracker, SameMarks
    <2>6. \/ references' = references
          \/ Top.owner = "force" /\ Len(references') >= Floor(Top)
      BY <1>ResumeForce, <2>1, RestoreTypes, OnTop DEF ResumeForce, Answered, Floor
    <2>7. /\ control'.pc # "idle"
          /\ control'.pc \in {"normalise", "finish"} => Top.owner = "force"
          /\ control'.pc \in {"force", "declaration", "visit"} => control'.query \in Query
          /\ control'.pc = "visit" => Top.owner = "visit"
          /\ Parameter(Top) => control'.pc = "run"
      BY <1>ResumeForce, <2>1 DEF ResumeForce, Running, Answered, Parameter, Go, Run, ForceType, Declaration, Visit, Normalise, Finish, Return
    <2>8. QED
      BY <1>2, <2>1, <2>4, <2>5, <2>6, <2>7, StaysKeeps
  <1>InferOperand. CASE InferOperand
    <2> DEFINE g == [Top EXCEPT !.next = @ + 1]
    <2>1. frames # <<>> /\ control.pc # "idle" /\ (Parameter(Top) => control.pc = "run")
          /\ Top \in Frame
      BY <1>InferOperand, ControlFacts, OnTop, TopTypes DEF InferOperand, Running, Answered, Inferring
    <2>2. g \in Frame /\ g.owner = Top.owner /\ g.query = Top.query /\ g.base = Top.base
          /\ (Opens(g) <=> Opens(Top))
      BY <1>InferOperand, <2>1, FrameUpdates, SameCall DEF InferOperand, Running, Answered, Inferring
    <2>3. ReplaceTop(g) /\ prog' = prog
      BY <1>InferOperand DEF InferOperand, session
    <2> HIDE DEF g
    <2>4. SameStack
      BY <2>1, <2>2, <2>3, Restaged
    <2>5. SameMarks /\ Len(captures') = Len(captures)
      BY <1>InferOperand DEF InferOperand, caches, tracker, SameMarks
    <2>6. references' = references
      BY <1>InferOperand DEF InferOperand
    <2>7. /\ control'.pc # "idle"
          /\ control'.pc \in {"normalise", "finish"} => Top.owner = "force"
          /\ control'.pc \in {"force", "declaration", "visit"} => control'.query \in Query
          /\ control'.pc = "visit" => Top.owner = "visit"
          /\ Parameter(Top) => control'.pc = "run"
      <3>1. Top.next \in 1..Len(prog.operands[Top.query])
        BY <1>InferOperand, <2>1, TopTypes, NextOperand DEF InferOperand
      <3>2. ~Parameter(Top)
        BY <2>1, <3>1, TopTypes DEF IInv, ParametersAreLeaves, Parameter
      <3>3. prog.operands[Top.query][Top.next] \in Query
        BY <1>InferOperand, <2>1, TopTypes, NextOperand DEF InferOperand
      <3>4. QED
        BY <1>InferOperand, <3>2, <3>3 DEF InferOperand, ForceType, Go
    <2>8. QED
      BY <1>2, <2>1, <2>4, <2>5, <2>6, <2>7, StaysKeeps
  <1>VisitOperand. CASE VisitOperand
    <2> DEFINE g == [Top EXCEPT !.next = @ + 1]
    <2>1. frames # <<>> /\ control.pc # "idle" /\ (Parameter(Top) => control.pc = "run")
          /\ Top \in Frame
      BY <1>VisitOperand, ControlFacts, OnTop, TopTypes DEF VisitOperand, Running, Answered
    <2>2. g \in Frame /\ g.owner = Top.owner /\ g.query = Top.query /\ g.base = Top.base
          /\ (Opens(g) <=> Opens(Top))
      BY <1>VisitOperand, <2>1, FrameUpdates, SameCall DEF VisitOperand, Running, Answered
    <2>3. ReplaceTop(g) /\ prog' = prog
      BY <1>VisitOperand DEF VisitOperand, session
    <2> HIDE DEF g
    <2>4. SameStack
      BY <2>1, <2>2, <2>3, Restaged
    <2>5. SameMarks /\ Len(captures') = Len(captures)
      BY <1>VisitOperand DEF VisitOperand, caches, tracker, SameMarks
    <2>6. references' = references
      BY <1>VisitOperand DEF VisitOperand
    <2>7. /\ control'.pc # "idle"
          /\ control'.pc \in {"normalise", "finish"} => Top.owner = "force"
          /\ control'.pc \in {"force", "declaration", "visit"} => control'.query \in Query
          /\ control'.pc = "visit" => Top.owner = "visit"
          /\ Parameter(Top) => control'.pc = "run"
      BY <1>VisitOperand, <2>1, TopTypes, NextOperand DEF VisitOperand, Running, Answered, Parameter, Go, Run, ForceType, Declaration, Visit, Normalise, Finish, Return
    <2>8. QED
      BY <1>2, <2>1, <2>4, <2>5, <2>6, <2>7, StaysKeeps
  <1>ResumeVisit. CASE ResumeVisit
    <2> DEFINE g == [Top EXCEPT !.state = Combine(@, control.answer.state),
                               !.stage = IF @ = "result" THEN "publish" ELSE @]
    <2>1. frames # <<>> /\ control.pc # "idle" /\ (Parameter(Top) => control.pc = "run")
          /\ Top \in Frame
      BY <1>ResumeVisit, ControlFacts, OnTop, TopTypes DEF ResumeVisit, Running, Answered
    <2>2. g \in Frame /\ g.owner = Top.owner /\ g.query = Top.query /\ g.base = Top.base
          /\ (Opens(g) <=> Opens(Top))
      <3>1. Combine(Top.state, control.answer.state) \in Completion
        BY <2>1, ControlFacts, AnswerTypes, CombineVerdicts, TopTypes
      <3>2. Top.owner # "declarator"
        BY <1>ResumeVisit DEF ResumeVisit, Answered
      <3>3. QED
        BY <2>1, <3>1, <3>2 DEF Frame, Opens
    <2>3. ReplaceTop(g) /\ prog' = prog
      BY <1>ResumeVisit DEF ResumeVisit, session
    <2> HIDE DEF g
    <2>4. SameStack
      BY <2>1, <2>2, <2>3, Restaged
    <2>5. SameMarks /\ Len(captures') = Len(captures)
      BY <1>ResumeVisit DEF ResumeVisit, caches, tracker, SameMarks
    <2>6. references' = references
      BY <1>ResumeVisit DEF ResumeVisit
    <2>7. /\ control'.pc # "idle"
          /\ control'.pc \in {"normalise", "finish"} => Top.owner = "force"
          /\ control'.pc \in {"force", "declaration", "visit"} => control'.query \in Query
          /\ control'.pc = "visit" => Top.owner = "visit"
          /\ Parameter(Top) => control'.pc = "run"
      BY <1>ResumeVisit, <2>1 DEF ResumeVisit, Running, Answered, Parameter, Go, Run, ForceType, Declaration, Visit, Normalise, Finish, Return
    <2>8. QED
      BY <1>2, <2>1, <2>4, <2>5, <2>6, <2>7, StaysKeeps
  <1>VisitForce. CASE VisitForce
    <2> DEFINE g == [Top EXCEPT !.stage = "result"]
    <2>1. frames # <<>> /\ control.pc # "idle" /\ (Parameter(Top) => control.pc = "run")
          /\ Top \in Frame
      BY <1>VisitForce, ControlFacts, OnTop, TopTypes DEF VisitForce, Running, Answered
    <2>2. g \in Frame /\ g.owner = Top.owner /\ g.query = Top.query /\ g.base = Top.base
          /\ (Opens(g) <=> Opens(Top))
      BY <1>VisitForce, <2>1, FrameUpdates, SameCall DEF VisitForce, Running, Answered
    <2>3. ReplaceTop(g) /\ prog' = prog
      BY <1>VisitForce DEF VisitForce, session
    <2> HIDE DEF g
    <2>4. SameStack
      BY <2>1, <2>2, <2>3, Restaged
    <2>5. SameMarks /\ Len(captures') = Len(captures)
      BY <1>VisitForce DEF VisitForce, caches, tracker, SameMarks
    <2>6. references' = references
      BY <1>VisitForce DEF VisitForce
    <2>7. /\ control'.pc # "idle"
          /\ control'.pc \in {"normalise", "finish"} => Top.owner = "force"
          /\ control'.pc \in {"force", "declaration", "visit"} => control'.query \in Query
          /\ control'.pc = "visit" => Top.owner = "visit"
          /\ Parameter(Top) => control'.pc = "run"
      BY <1>VisitForce, <2>1, TopTypes DEF VisitForce, Running, Answered, Parameter, Go, Run, ForceType, Declaration, Visit, Normalise, Finish, Return
    <2>8. QED
      BY <1>2, <2>1, <2>4, <2>5, <2>6, <2>7, StaysKeeps
  <1>NormaliseResult. CASE NormaliseResult
    <2>1. /\ control.pc = "normalise" /\ frames # <<>> /\ Top.owner = "force" /\ Top \in Frame
          /\ ~Parameter(Top)
      BY <1>NormaliseResult, ControlFacts, TopTypes DEF NormaliseResult, Parameter
    <2>2. SameStack
      <3>1. CASE UNCHANGED frames
        BY <1>NormaliseResult, <3>1, Untouched DEF NormaliseResult, session
      <3>2. CASE ReplaceTop([Top EXCEPT !.stage = "result"])
        <4> DEFINE g == [Top EXCEPT !.stage = "result"]
        <4>1. /\ g \in Frame /\ g.owner = Top.owner /\ g.query = Top.query /\ g.base = Top.base
              /\ (Opens(g) <=> Opens(Top))
          BY <2>1, FrameUpdates, SameCall
        <4>2. ReplaceTop(g) /\ prog' = prog
          BY <1>NormaliseResult, <3>2 DEF NormaliseResult, session
        <4> HIDE DEF g
        <4>3. QED
          BY <2>1, <4>1, <4>2, Restaged
      <3>3. QED
        BY <1>NormaliseResult, <3>1, <3>2 DEF NormaliseResult
    <2>3. SameMarks /\ Len(captures') = Len(captures)
          /\ references' = references
      BY <1>NormaliseResult DEF NormaliseResult, caches, tracker, SameMarks
    <2>4. /\ control'.pc \in {"finish", "force"}
          /\ control'.pc = "force" => control'.query \in Query
      BY <1>NormaliseResult DEF NormaliseResult, Finish, ForceType, Go
    <2>5. QED
      BY <1>2, <2>1, <2>2, <2>3, <2>4, StaysKeeps
  <1>InferContexts. CASE InferContexts
    <2> DEFINE g == [Top EXCEPT !.stage = "operands"]
    <2>1. /\ frames # <<>> /\ control.pc = "run" /\ Top \in Frame
          /\ Top.stage = "contexts"
      BY <1>InferContexts, TopTypes DEF InferContexts, Inferring, Running
    <2>2. /\ g \in Frame /\ g.owner = Top.owner /\ g.query = Top.query /\ g.base = Top.base
          /\ (Opens(g) <=> Opens(Top))
      BY <2>1 DEF Frame, Opens
    <2>3. ReplaceTop(g) /\ prog' = prog
      BY <1>InferContexts DEF InferContexts, session
    <2> HIDE DEF g
    <2>4. SameStack
      BY <2>1, <2>2, <2>3, Restaged
    <2>5. \A p \in prog.contexts[Top.query] \cap Query : valueQueries[p] # Computing
      <3>1. SUFFICES ASSUME NEW p \in prog.contexts[Top.query] \cap Query,
                            valueQueries[p] = Computing
                     PROVE  FALSE
        OBVIOUS
      <3>2. Top.query \in Query
        BY <2>1, TopTypes
      <3>3. prog.kind[p] = "parameter"
        BY <3>1, <3>2 DEF IInv, ParametersAreLeaves
      <3>4. PICK i \in DOMAIN frames : Owns(i, "value", p)
        BY <3>1 DEF MarksAreActiveCalls
      <3>5. i = Len(frames)
        BY <3>3, <3>4 DEF IInv, StackDiscipline, ParametersOnTop, Owns
      <3>6. Top.query = p
        BY <3>4, <3>5 DEF Owns, Top
      <3>7. prog.contexts[p] = {}
        BY <3>1, <3>3 DEF IInv, ParametersAreLeaves
      <3>8. QED
        BY <3>1, <3>6, <3>7
    <2>6. SameMarks
      <3>1. ASSUME NEW q \in Query
            PROVE  valueQueries'[q] = Computing <=> valueQueries[q] = Computing
        <4>1. valueQueries' = valueQueries \/
              valueQueries'[q] = (IF q \in {p \in prog.contexts[Top.query] :
                                              IsCacheable(prog.context[p])}
                                  THEN Absent ELSE valueQueries[q])
          BY <1>InferContexts DEF InferContexts
        <4>2. QED
          BY <2>5, <4>1 DEF Absent, Computing
      <3>2. QED
        BY <1>InferContexts, <3>1 DEF InferContexts, SameMarks
    <2>7. /\ references' = references /\ Len(captures') = Len(captures)
          /\ control'.pc = "run"
      BY <1>InferContexts, <2>1 DEF InferContexts, tracker
    <2>8. QED
      BY <1>2, <2>1, <2>4, <2>6, <2>7, StaysKeeps
  <1>ResumeInference. CASE ResumeInference
    <2>1. /\ frames # <<>> /\ control.pc = "return" /\ Top \in Frame
          /\ Top.owner \in {"value", "declarator"} /\ ~Parameter(Top)
      BY <1>ResumeInference, TopTypes, OnTop DEF ResumeInference, Answered
    <2>2. SameStack
      <3>1. CASE UNCHANGED frames
        BY <1>ResumeInference, <3>1, Untouched DEF ResumeInference, session
      <3>2. CASE Top.stage = "relation" /\ ReplaceTop([Top EXCEPT !.stage = "publish"])
        <4> DEFINE g == [Top EXCEPT !.stage = "publish"]
        <4>1. /\ g \in Frame /\ g.owner = Top.owner /\ g.query = Top.query /\ g.base = Top.base
              /\ (Opens(g) <=> Opens(Top))
          BY <2>1, <3>2 DEF Frame, Opens
        <4>2. ReplaceTop(g) /\ prog' = prog
          BY <1>ResumeInference, <3>2 DEF ResumeInference, session
        <4> HIDE DEF g
        <4>3. QED
          BY <2>1, <4>1, <4>2, Restaged
      <3>3. QED
        BY <1>ResumeInference, <3>1, <3>2 DEF ResumeInference
    <2>3. /\ SameMarks /\ references' = references
          /\ Len(captures') = Len(captures)
      <3>1. control.answer.state \in Completion
        BY ControlFacts, AnswerTypes
      <3>2. ObserveCurrent(control.answer.state)
        BY <1>ResumeInference DEF ResumeInference
      <3>3. QED
        BY <1>ResumeInference, <3>1, <3>2, ObserveTypes DEF ResumeInference, caches, SameMarks
    <2>4. control'.pc = "run"
      BY <1>ResumeInference DEF ResumeInference, Run, Go
    <2>5. QED
      BY <1>2, <2>1, <2>2, <2>3, <2>4, StaysKeeps
  <1>FinishInitializer. CASE FinishInitializer
    <2> DEFINE related == Top.query \in prog.annotated /\ prog.body[Top.query] \in Query
               g == [Top EXCEPT !.state = Captured(captures),
                                !.stage = IF related THEN "relation" ELSE "publish"]
    <2>1. /\ frames # <<>> /\ control.pc = "run" /\ Top \in Frame /\ Top.owner = "declarator"
          /\ Top.stage = "operands"
      BY <1>FinishInitializer, TopTypes DEF FinishInitializer, Running, Inferred
    <2>2. Opens(Top) /\ captures # <<>> /\ captures \in Seq(Completion)
      <3>1. Opens(Top)
        BY <2>1 DEF Opens
      <3>2. QED
        BY <2>1, <3>1, CapturesOpen DEF TypeOK
    <2>3. Captured(captures) \in Completion /\ Len(FinishCapture(captures)) = Len(captures) - 1
      BY <2>2, FinishCaptureType
    <2>4. /\ g \in Frame /\ g.owner = Top.owner /\ g.query = Top.query /\ g.base = Top.base
          /\ ~Opens(g)
      BY <2>1, <2>3 DEF Frame, Opens
    <2>5. ReplaceTop(g) /\ prog' = prog
      BY <1>FinishInitializer DEF FinishInitializer, session
    <2> HIDE DEF g
    <2>6. /\ SameCalls
          /\ Cardinality(OpenCaptures(frames')) = Cardinality(OpenCaptures(frames)) - 1
      <3>1. Cardinality(OpenCaptures(frames)) \in Nat
        BY OpenFinite DEF TypeOK
      <3>2. QED
        BY <2>1, <2>2, <2>4, <2>5, <3>1, Restaged
    <2>7. Len(captures') = Cardinality(OpenCaptures(frames'))
      BY <1>FinishInitializer, <2>3, <2>6 DEF FinishInitializer, MarksAreActiveCalls
    <2>8. /\ SameMarks /\ references' = references
      BY <1>FinishInitializer DEF FinishInitializer, caches, SameMarks
    <2>9. /\ control'.pc \in {"run", "force"}
          /\ control'.pc = "force" => control'.query \in Query
      BY <1>FinishInitializer DEF FinishInitializer, Run, ForceType, Go
    <2>10. /\ control.pc # "idle" /\ ~Parameter(Top)
      BY <2>1, <2>8, ControlFacts DEF Parameter
    <2>11. Len(references) >= Floor(Top)
      BY <2>1, OnTop
    <2>12. GoesOn
      BY <2>1, <2>5, <2>6, <2>7, <2>8, <2>9, <2>10, <2>11 DEF GoesOn
    <2>13. QED
      BY <1>2, <2>12, GoesOnKeeps
  <1>SelectFile. ASSUME NEW f \in File, SelectFile(f) PROVE IInv'
    <2>1. /\ frames = <<>> /\ control.pc = "idle"
          /\ UNCHANGED <<prog, frames, control, references, captures>>
      BY <1>SelectFile, ControlFacts DEF SelectFile, caches, tracker, session
    <2>2. SameStack
      BY <2>1, Untouched
    <2>3. SameMarks
      BY <1>SelectFile DEF SelectFile, caches, SameMarks, Absent, Computing, Provisional
    <2>4. Len(captures') = Cardinality(OpenCaptures(frames'))
      BY <2>1 DEF MarksAreActiveCalls
    <2>5. GoesOn
      BY <2>1, <2>2, <2>3, <2>4 DEF GoesOn, SameStack
    <2>6. QED
      BY <1>2, <2>5, GoesOnKeeps
  <1>NextPass. CASE NextPass
    <2>1. /\ frames = <<>> /\ control.pc = "idle"
          /\ UNCHANGED <<prog, frames, control, references, captures>>
      BY <1>NextPass, ControlFacts DEF NextPass, caches, tracker, session
    <2>2. SameStack
      BY <2>1, Untouched
    <2>3. SameMarks
      BY <1>NextPass DEF NextPass, caches, SameMarks, Absent, Computing, Provisional
    <2>4. Len(captures') = Cardinality(OpenCaptures(frames'))
      BY <2>1 DEF MarksAreActiveCalls
    <2>5. GoesOn
      BY <2>1, <2>2, <2>3, <2>4 DEF GoesOn, SameStack
    <2>6. QED
      BY <1>2, <2>5, GoesOnKeeps
  <1>MarkProvisional. ASSUME NEW q \in Query, MarkProvisional(q) PROVE IInv'
    <2>1. /\ frames = <<>> /\ control.pc = "idle"
          /\ UNCHANGED <<prog, frames, control, references, captures>>
      BY <1>MarkProvisional, ControlFacts DEF MarkProvisional, caches, tracker, session
    <2>2. SameStack
      BY <2>1, Untouched
    <2>3. SameMarks
      BY <1>MarkProvisional DEF MarkProvisional, caches, SameMarks, Absent, Computing, Provisional
    <2>4. Len(captures') = Cardinality(OpenCaptures(frames'))
      BY <2>1 DEF MarksAreActiveCalls
    <2>5. GoesOn
      BY <2>1, <2>2, <2>3, <2>4 DEF GoesOn, SameStack
    <2>6. QED
      BY <1>2, <2>5, GoesOnKeeps
  <1>RequireTypeNode. ASSUME NEW q \in Query, RequireTypeNode(q) PROVE IInv'
    <2> DEFINE g == NewFrame("require", q, "operands", 0)
    <2>1. /\ frames = <<>> /\ references = <<>> /\ control.pc = "idle"
      BY <1>RequireTypeNode, ControlFacts DEF RequireTypeNode, StartRoot, ReferencesNest
    <2>2. /\ g \in Frame /\ g.owner = "require" /\ g.query = q
          /\ g.base = Len(references) /\ g.stage = "operands"
      <3>1. g \in Frame
        BY NewFrameType DEF Root
      <3>2. QED
        BY <3>1 DEF NewFrame
    <2>3. frames' = Append(frames, g)
      BY <1>RequireTypeNode, <2>1 DEF RequireTypeNode, StartRoot
    <2> HIDE DEF g
    <2>4. /\ UNCHANGED <<prog, references, forceQueries, valueQueries>>
          /\ Len(captures') = Len(captures) + (IF Opens(g) THEN 1 ELSE 0)
      BY <1>RequireTypeNode, <2>2, BeginCaptureType DEF RequireTypeNode, StartRoot, session, caches, Opens, TypeOK
    <2>5. /\ control'.pc \in {"run", "force", "declaration", "visit", "return"}
          /\ control'.pc \in {"force", "declaration", "visit"} => control'.query \in Query
          /\ control'.pc = "visit" => g.owner = "require"
      BY <1>RequireTypeNode, <2>2 DEF RequireTypeNode, StartRoot, Run, Visit, ForceType, Declaration, Return, Go
    <2>6. Len(references') = Floor(g)
      BY <2>1, <2>2, <2>4, EmptySeq DEF Floor
    <2>7. Calls(g)
      BY <2>1, <2>2, <2>3, <2>4, <2>5, <2>6 DEF Calls, Root, Parameter
    <2>8. QED
      BY <1>2, <2>7, CallsKeeps
  <1>DemandType. ASSUME NEW q \in Query, DemandType(q) PROVE IInv'
    <2> DEFINE g == NewFrame("demand", q, "operands", 0)
    <2>1. /\ frames = <<>> /\ references = <<>> /\ control.pc = "idle"
      BY <1>DemandType, ControlFacts DEF DemandType, StartRoot, ReferencesNest
    <2>2. /\ g \in Frame /\ g.owner = "demand" /\ g.query = q
          /\ g.base = Len(references) /\ g.stage = "operands"
      <3>1. g \in Frame
        BY NewFrameType DEF Root
      <3>2. QED
        BY <3>1 DEF NewFrame
    <2>3. frames' = Append(frames, g)
      BY <1>DemandType, <2>1 DEF DemandType, StartRoot
    <2> HIDE DEF g
    <2>4. /\ UNCHANGED <<prog, references, forceQueries, valueQueries>>
          /\ Len(captures') = Len(captures) + (IF Opens(g) THEN 1 ELSE 0)
      BY <1>DemandType, <2>2, BeginCaptureType DEF DemandType, StartRoot, session, caches, Opens, TypeOK
    <2>5. /\ control'.pc \in {"run", "force", "declaration", "visit", "return"}
          /\ control'.pc \in {"force", "declaration", "visit"} => control'.query \in Query
          /\ control'.pc = "visit" => g.owner = "require"
      BY <1>DemandType, <2>2 DEF DemandType, StartRoot, Run, Visit, ForceType, Declaration, Return, Go
    <2>6. Len(references') = Floor(g)
      BY <2>1, <2>2, <2>4, EmptySeq DEF Floor
    <2>7. Calls(g)
      BY <2>1, <2>2, <2>3, <2>4, <2>5, <2>6 DEF Calls, Root, Parameter
    <2>8. QED
      BY <1>2, <2>7, CallsKeeps
  <1>FlushOrigin. ASSUME NEW q \in Query, FlushOrigin(q) PROVE IInv'
    <2> DEFINE g == NewFrame("flush", q, "operands", 0)
    <2>1. /\ frames = <<>> /\ references = <<>> /\ control.pc = "idle"
      BY <1>FlushOrigin, ControlFacts DEF FlushOrigin, StartRoot, ReferencesNest
    <2>2. /\ g \in Frame /\ g.owner = "flush" /\ g.query = q
          /\ g.base = Len(references) /\ g.stage = "operands"
      <3>1. g \in Frame
        BY NewFrameType DEF Root
      <3>2. QED
        BY <3>1 DEF NewFrame
    <2>3. frames' = Append(frames, g)
      BY <1>FlushOrigin, <2>1 DEF FlushOrigin, StartRoot
    <2> HIDE DEF g
    <2>4. /\ UNCHANGED <<prog, references, forceQueries, valueQueries>>
          /\ Len(captures') = Len(captures) + (IF Opens(g) THEN 1 ELSE 0)
      BY <1>FlushOrigin, <2>2, BeginCaptureType DEF FlushOrigin, StartRoot, session, caches, Opens, TypeOK
    <2>5. /\ control'.pc \in {"run", "force", "declaration", "visit", "return"}
          /\ control'.pc \in {"force", "declaration", "visit"} => control'.query \in Query
          /\ control'.pc = "visit" => g.owner = "require"
      BY <1>FlushOrigin, <2>2 DEF FlushOrigin, StartRoot, Run, Visit, ForceType, Declaration, Return, Go
    <2>6. Len(references') = Floor(g)
      BY <2>1, <2>2, <2>4, EmptySeq DEF Floor
    <2>7. Calls(g)
      BY <2>1, <2>2, <2>3, <2>4, <2>5, <2>6 DEF Calls, Root, Parameter
    <2>8. QED
      BY <1>2, <2>7, CallsKeeps
  <1>SummariseValue. ASSUME NEW q \in Query, SummariseValue(q) PROVE IInv'
    <2> DEFINE g == NewFrame("summary", q, "operands", 0)
    <2>1. /\ frames = <<>> /\ references = <<>> /\ control.pc = "idle"
      BY <1>SummariseValue, ControlFacts DEF SummariseValue, StartRoot, ReferencesNest
    <2>2. /\ g \in Frame /\ g.owner = "summary" /\ g.query = q
          /\ g.base = Len(references) /\ g.stage = "operands"
      <3>1. g \in Frame
        BY NewFrameType DEF Root
      <3>2. QED
        BY <3>1 DEF NewFrame
    <2>3. frames' = Append(frames, g)
      BY <1>SummariseValue, <2>1 DEF SummariseValue, StartRoot
    <2> HIDE DEF g
    <2>4. /\ UNCHANGED <<prog, references, forceQueries, valueQueries>>
          /\ Len(captures') = Len(captures) + (IF Opens(g) THEN 1 ELSE 0)
      BY <1>SummariseValue, <2>2, BeginCaptureType DEF SummariseValue, StartRoot, session, caches, Opens, TypeOK
    <2>5. /\ control'.pc \in {"run", "force", "declaration", "visit", "return"}
          /\ control'.pc \in {"force", "declaration", "visit"} => control'.query \in Query
          /\ control'.pc = "visit" => g.owner = "require"
      BY <1>SummariseValue, <2>2 DEF SummariseValue, StartRoot, Run, Visit, ForceType, Declaration, Return, Go
    <2>6. Len(references') = Floor(g)
      BY <2>1, <2>2, <2>4, EmptySeq DEF Floor
    <2>7. Calls(g)
      BY <2>1, <2>2, <2>3, <2>4, <2>5, <2>6 DEF Calls, Root, Parameter
    <2>8. QED
      BY <1>2, <2>7, CallsKeeps
  <1>SummariseExport. ASSUME NEW q \in Query, SummariseExport(q) PROVE IInv'
    <2> DEFINE g == NewFrame("demand", q, "operands", 0)
    <2>1. /\ frames = <<>> /\ references = <<>> /\ control.pc = "idle"
      BY <1>SummariseExport, ControlFacts DEF SummariseExport, StartRoot, ReferencesNest
    <2>2. /\ g \in Frame /\ g.owner = "demand" /\ g.query = q
          /\ g.base = Len(references) /\ g.stage = "operands"
      <3>1. g \in Frame
        BY NewFrameType DEF Root
      <3>2. QED
        BY <3>1 DEF NewFrame
    <2>3. frames' = Append(frames, g)
      BY <1>SummariseExport, <2>1 DEF SummariseExport, StartRoot
    <2> HIDE DEF g
    <2>4. /\ UNCHANGED <<prog, references, forceQueries, valueQueries>>
          /\ Len(captures') = Len(captures) + (IF Opens(g) THEN 1 ELSE 0)
      BY <1>SummariseExport, <2>2, BeginCaptureType DEF SummariseExport, StartRoot, session, caches, Opens, TypeOK
    <2>5. /\ control'.pc \in {"run", "force", "declaration", "visit", "return"}
          /\ control'.pc \in {"force", "declaration", "visit"} => control'.query \in Query
          /\ control'.pc = "visit" => g.owner = "require"
      BY <1>SummariseExport, <2>2 DEF SummariseExport, StartRoot, Run, Visit, ForceType, Declaration, Return, Go
    <2>6. Len(references') = Floor(g)
      BY <2>1, <2>2, <2>4, EmptySeq DEF Floor
    <2>7. Calls(g)
      BY <2>1, <2>2, <2>3, <2>4, <2>5, <2>6 DEF Calls, Root, Parameter
    <2>8. QED
      BY <1>2, <2>7, CallsKeeps
  <1>CheckDeclarator. ASSUME NEW q \in Query, CheckDeclarator(q) PROVE IInv'
    <2> DEFINE g == NewFrame("declarator", q, "contexts", 0)
    <2>1. /\ frames = <<>> /\ references = <<>> /\ control.pc = "idle"
      BY <1>CheckDeclarator, ControlFacts DEF CheckDeclarator, StartRoot, ReferencesNest
    <2>2. /\ g \in Frame /\ g.owner = "declarator" /\ g.query = q
          /\ g.base = Len(references) /\ g.stage = "contexts"
      <3>1. g \in Frame
        BY NewFrameType DEF Root
      <3>2. QED
        BY <3>1 DEF NewFrame
    <2>3. frames' = Append(frames, g)
      BY <1>CheckDeclarator, <2>1 DEF CheckDeclarator, StartRoot
    <2> HIDE DEF g
    <2>4. /\ UNCHANGED <<prog, references, forceQueries, valueQueries>>
          /\ Len(captures') = Len(captures) + (IF Opens(g) THEN 1 ELSE 0)
      BY <1>CheckDeclarator, <2>2, BeginCaptureType DEF CheckDeclarator, StartRoot, session, caches, Opens, TypeOK
    <2>5. /\ control'.pc \in {"run", "force", "declaration", "visit", "return"}
          /\ control'.pc \in {"force", "declaration", "visit"} => control'.query \in Query
          /\ control'.pc = "visit" => g.owner = "require"
      BY <1>CheckDeclarator, <2>2 DEF CheckDeclarator, StartRoot, Run, Visit, ForceType, Declaration, Return, Go
    <2>6. Len(references') = Floor(g)
      BY <2>1, <2>2, <2>4, EmptySeq DEF Floor
    <2>7. Calls(g)
      BY <2>1, <2>2, <2>3, <2>4, <2>5, <2>6 DEF Calls, Root, Parameter
    <2>8. QED
      BY <1>2, <2>7, CallsKeeps
  <1>ForceEnter. CASE ForceEnter
    <2> DEFINE q == control.query
               g == [NewFrame("force", q, "operands", control.depth)
                          EXCEPT !.local = QueryLocal(prog, q)]
    <2>1. /\ frames # <<>> /\ control.pc = "force" /\ q \in Query
      BY <1>ForceEnter, ControlFacts DEF ForceEnter
    <2>2. /\ g \in Frame /\ g.owner = "force" /\ g.query = q /\ g.base = Len(references)
      <3>1. g \in Frame
        BY <2>1, ControlFacts, NewFrameLocal, QueryLocalType
      <3>2. QED
        BY <3>1 DEF NewFrame
    <2>3. frames' = Append(frames, g)
      BY <1>ForceEnter DEF ForceEnter
    <2> HIDE DEF g
    <2>4. /\ prog' = prog /\ control'.pc = "run"
          /\ Len(captures') = Len(captures) + (IF Opens(g) THEN 1 ELSE 0)
      BY <1>ForceEnter, <2>2, BeginCaptureType DEF ForceEnter, session, tracker, Run, Go, Opens, TypeOK
    <2>5. /\ g.owner = "force" => forceQueries[g.query] # Computing
          /\ g.owner = "value" => valueQueries[g.query] # Computing
      BY <1>ForceEnter, <2>2 DEF ForceEnter, Absent, Computing
    <2>6. ASSUME NEW r \in Query
          PROVE  /\ forceQueries'[r] = Computing
                      <=> forceQueries[r] = Computing \/ (g.owner = "force" /\ g.query = r)
                 /\ valueQueries'[r] = Computing
                      <=> valueQueries[r] = Computing \/ (g.owner = "value" /\ g.query = r)
      BY <1>ForceEnter, <2>1, <2>2 DEF ForceEnter, caches, TypeOK
    <2>7. Len(references') = Floor(g)
      BY <1>ForceEnter, <2>1, <2>2, PushSeq, LenProperties DEF ForceEnter, Floor, TypeOK
    <2>8. Calls(g)
      BY <2>1, <2>2, <2>3, <2>4, <2>5, <2>6, <2>7 DEF Calls, Root
    <2>9. QED
      BY <1>2, <2>8, CallsKeeps
  <1>DeclarationEnter. CASE DeclarationEnter
    <2> DEFINE q == control.query
               g == NewFrame("value", q, "contexts", 0)
    <2>1. /\ frames # <<>> /\ control.pc = "declaration" /\ q \in Query
      BY <1>DeclarationEnter, ControlFacts DEF DeclarationEnter
    <2>2. /\ g \in Frame /\ g.owner = "value" /\ g.query = q /\ g.base = Len(references)
      <3>1. g \in Frame
        BY <2>1, ControlFacts, NewFrameType
      <3>2. QED
        BY <3>1 DEF NewFrame
    <2>3. frames' = Append(frames, g)
      BY <1>DeclarationEnter DEF DeclarationEnter
    <2> HIDE DEF g
    <2>4. /\ prog' = prog /\ control'.pc = "run"
          /\ Len(captures') = Len(captures) + (IF Opens(g) THEN 1 ELSE 0)
      BY <1>DeclarationEnter, <2>2, BeginCaptureType DEF DeclarationEnter, session, tracker, Run, Go, Opens, TypeOK
    <2>5. /\ g.owner = "force" => forceQueries[g.query] # Computing
          /\ g.owner = "value" => valueQueries[g.query] # Computing
      BY <1>DeclarationEnter, <2>2 DEF DeclarationEnter, Absent, Computing
    <2>6. ASSUME NEW r \in Query
          PROVE  /\ forceQueries'[r] = Computing
                      <=> forceQueries[r] = Computing \/ (g.owner = "force" /\ g.query = r)
                 /\ valueQueries'[r] = Computing
                      <=> valueQueries[r] = Computing \/ (g.owner = "value" /\ g.query = r)
      BY <1>DeclarationEnter, <2>1, <2>2 DEF DeclarationEnter, caches, TypeOK
    <2>7. Len(references') = Floor(g)
      BY <1>DeclarationEnter, <2>1, <2>2, PushSeq, LenProperties DEF DeclarationEnter, Floor, TypeOK
    <2>8. Calls(g)
      BY <2>1, <2>2, <2>3, <2>4, <2>5, <2>6, <2>7 DEF Calls, Root
    <2>9. QED
      BY <1>2, <2>8, CallsKeeps
  <1>VisitEnter. CASE VisitEnter
    <2> DEFINE q == control.query
               g == NewFrame("visit", q, "operands", 0)
    <2>1. /\ frames # <<>> /\ control.pc = "visit" /\ q \in Query
      BY <1>VisitEnter, ControlFacts DEF VisitEnter
    <2>2. /\ g \in Frame /\ g.owner = "visit" /\ g.query = q /\ g.base = Len(references)
      <3>1. g \in Frame
        BY <2>1, ControlFacts, NewFrameType
      <3>2. QED
        BY <3>1 DEF NewFrame
    <2>3. frames' = Append(frames, g)
      BY <1>VisitEnter DEF VisitEnter
    <2> HIDE DEF g
    <2>4. /\ prog' = prog /\ control'.pc = "run"
          /\ Len(captures') = Len(captures) + (IF Opens(g) THEN 1 ELSE 0)
      BY <1>VisitEnter, <2>2, BeginCaptureType DEF VisitEnter, session, tracker, Run, Go, Opens, TypeOK
    <2>5. /\ g.owner = "force" => forceQueries[g.query] # Computing
          /\ g.owner = "value" => valueQueries[g.query] # Computing
      BY <1>VisitEnter, <2>2 DEF VisitEnter, Absent, Computing
    <2>6. ASSUME NEW r \in Query
          PROVE  /\ forceQueries'[r] = Computing
                      <=> forceQueries[r] = Computing \/ (g.owner = "force" /\ g.query = r)
                 /\ valueQueries'[r] = Computing
                      <=> valueQueries[r] = Computing \/ (g.owner = "value" /\ g.query = r)
      BY <1>VisitEnter, <2>1, <2>2 DEF VisitEnter, caches, TypeOK
    <2>7. Len(references') = Floor(g)
      BY <1>VisitEnter, <2>1, <2>2, PushSeq, LenProperties DEF VisitEnter, Floor, TypeOK
    <2>8. Calls(g)
      BY <2>1, <2>2, <2>3, <2>4, <2>5, <2>6, <2>7 DEF Calls, Root
    <2>9. QED
      BY <1>2, <2>8, CallsKeeps
  <1>CloseDemand. CASE CloseDemand
    <2>1. /\ frames # <<>> /\ Top.owner = "demand" /\ Top.query \in Query /\ control.pc # "idle"
      BY <1>CloseDemand, ControlFacts, TopTypes DEF CloseDemand, Running, Answered
    <2>2. /\ prog' = prog /\ frames' = Below
      BY <1>CloseDemand, ControlFacts, ObserveTypes, AnswerTypes DEF CloseDemand, session, tracker, ObserveCurrent, ObserveFile
    <2>3. control'.pc = IF Top.owner \in Root THEN "idle" ELSE "return"
      BY <1>CloseDemand, <2>1 DEF CloseDemand, Idle, Return, Go, Root
    <2>4. references \in Seq(Query) /\ references' \in Seq(Query)
      BY <1>2 DEF TypeOK
    <2>5. IF Top.owner = "force" THEN Len(references') = Top.base ELSE references' = references
      BY <1>CloseDemand, <2>1, RestoreTypes DEF CloseDemand, RestoreReferences
    <2>6. Len(captures') = Len(captures) - (IF Opens(Top) THEN 1 ELSE 0)
      <3>1. Len(captures') = Len(captures) /\ Len(captures) \in Nat
        BY <1>CloseDemand, ControlFacts, AnswerTypes, ObserveTypes, TopTypes, LenProperties DEF CloseDemand, TypeOK
      <3>2. ~Opens(Top)
        BY <2>1 DEF Opens
      <3>3. QED
        BY <3>1, <3>2
    <2>7. ASSUME NEW q \in Query
          PROVE  /\ forceQueries'[q] = Computing
                      <=> forceQueries[q] = Computing /\ ~(Top.owner = "force" /\ Top.query = q)
                 /\ valueQueries'[q] = Computing
                      <=> valueQueries[q] = Computing /\ ~(Top.owner = "value" /\ Top.query = q)
      BY <1>CloseDemand, <2>1 DEF CloseDemand, caches
    <2>8. QED
      <3>1. Returns
        BY <2>1, <2>2, <2>3, <2>4, <2>5, <2>6, <2>7 DEF Returns
      <3>2. QED
        BY <1>2, <3>1, ReturnsKeeps
  <1>CloseFlush. CASE CloseFlush
    <2>1. /\ frames # <<>> /\ Top.owner = "flush" /\ Top.query \in Query /\ control.pc # "idle"
      BY <1>CloseFlush, ControlFacts, TopTypes DEF CloseFlush, Running, Answered
    <2>2. /\ prog' = prog /\ frames' = Below
      BY <1>CloseFlush, ControlFacts, ObserveTypes, AnswerTypes DEF CloseFlush, session, tracker, ObserveCurrent, ObserveFile
    <2>3. control'.pc = IF Top.owner \in Root THEN "idle" ELSE "return"
      BY <1>CloseFlush, <2>1 DEF CloseFlush, Idle, Return, Go, Root
    <2>4. references \in Seq(Query) /\ references' \in Seq(Query)
      BY <1>2 DEF TypeOK
    <2>5. IF Top.owner = "force" THEN Len(references') = Top.base ELSE references' = references
      BY <1>CloseFlush, <2>1, RestoreTypes DEF CloseFlush, RestoreReferences
    <2>6. Len(captures') = Len(captures) - (IF Opens(Top) THEN 1 ELSE 0)
      <3>1. Len(captures') = Len(captures) /\ Len(captures) \in Nat
        <4>1. ObserveFile(captures, prog.home[Top.query], control.answer.state)
          BY <1>CloseFlush DEF CloseFlush
        <4>2. prog.home[Top.query] \in File /\ control.answer.state \in Completion
          BY <2>1, ControlFacts, AnswerTypes, TopTypes
        <4>3. captures \in Seq(Completion)
          BY DEF TypeOK
        <4>4. QED
          BY <4>1, <4>2, <4>3, ObserveTypes, LenProperties
      <3>2. ~Opens(Top)
        BY <2>1 DEF Opens
      <3>3. QED
        BY <3>1, <3>2
    <2>7. ASSUME NEW q \in Query
          PROVE  /\ forceQueries'[q] = Computing
                      <=> forceQueries[q] = Computing /\ ~(Top.owner = "force" /\ Top.query = q)
                 /\ valueQueries'[q] = Computing
                      <=> valueQueries[q] = Computing /\ ~(Top.owner = "value" /\ Top.query = q)
      BY <1>CloseFlush, <2>1 DEF CloseFlush, caches
    <2>8. QED
      <3>1. Returns
        BY <2>1, <2>2, <2>3, <2>4, <2>5, <2>6, <2>7 DEF Returns
      <3>2. QED
        BY <1>2, <3>1, ReturnsKeeps
  <1>CloseSummary. CASE CloseSummary
    <2>1. /\ frames # <<>> /\ Top.owner = "summary" /\ Top.query \in Query /\ control.pc # "idle"
      BY <1>CloseSummary, ControlFacts, TopTypes DEF CloseSummary, Running, Answered
    <2>2. /\ prog' = prog /\ frames' = Below
      BY <1>CloseSummary, ControlFacts, ObserveTypes, AnswerTypes DEF CloseSummary, session, tracker, ObserveCurrent, ObserveFile
    <2>3. control'.pc = IF Top.owner \in Root THEN "idle" ELSE "return"
      BY <1>CloseSummary, <2>1 DEF CloseSummary, Idle, Return, Go, Root
    <2>4. references \in Seq(Query) /\ references' \in Seq(Query)
      BY <1>2 DEF TypeOK
    <2>5. IF Top.owner = "force" THEN Len(references') = Top.base ELSE references' = references
      BY <1>CloseSummary, <2>1, RestoreTypes DEF CloseSummary, RestoreReferences
    <2>6. Len(captures') = Len(captures) - (IF Opens(Top) THEN 1 ELSE 0)
      <3>1. captures' = captures /\ Len(captures) \in Nat
        BY <1>CloseSummary, LenProperties DEF CloseSummary, tracker, TypeOK
      <3>2. ~Opens(Top)
        BY <1>CloseSummary, <2>1 DEF CloseSummary, Opens
      <3>3. QED
        BY <3>1, <3>2
    <2>7. ASSUME NEW q \in Query
          PROVE  /\ forceQueries'[q] = Computing
                      <=> forceQueries[q] = Computing /\ ~(Top.owner = "force" /\ Top.query = q)
                 /\ valueQueries'[q] = Computing
                      <=> valueQueries[q] = Computing /\ ~(Top.owner = "value" /\ Top.query = q)
      BY <1>CloseSummary, <2>1 DEF CloseSummary, caches
    <2>8. QED
      <3>1. Returns
        BY <2>1, <2>2, <2>3, <2>4, <2>5, <2>6, <2>7 DEF Returns
      <3>2. QED
        BY <1>2, <3>1, ReturnsKeeps
  <1>CloseRequire. CASE CloseRequire
    <2>1. /\ frames # <<>> /\ Top.owner = "require" /\ Top.query \in Query /\ control.pc # "idle"
      BY <1>CloseRequire, ControlFacts, TopTypes DEF CloseRequire, Running, Answered
    <2>2. /\ prog' = prog /\ frames' = Below
      BY <1>CloseRequire, ControlFacts, ObserveTypes, AnswerTypes DEF CloseRequire, session, tracker, ObserveCurrent, ObserveFile
    <2>3. control'.pc = IF Top.owner \in Root THEN "idle" ELSE "return"
      BY <1>CloseRequire, <2>1 DEF CloseRequire, Idle, Return, Go, Root
    <2>4. references \in Seq(Query) /\ references' \in Seq(Query)
      BY <1>2 DEF TypeOK
    <2>5. IF Top.owner = "force" THEN Len(references') = Top.base ELSE references' = references
      BY <1>CloseRequire, <2>1, RestoreTypes DEF CloseRequire, RestoreReferences
    <2>6. Len(captures') = Len(captures) - (IF Opens(Top) THEN 1 ELSE 0)
      <3>1. Len(captures') = Len(captures) /\ Len(captures) \in Nat
        BY <1>CloseRequire, ControlFacts, AnswerTypes, ObserveTypes, TopTypes, LenProperties DEF CloseRequire, TypeOK
      <3>2. ~Opens(Top)
        BY <2>1 DEF Opens
      <3>3. QED
        BY <3>1, <3>2
    <2>7. ASSUME NEW q \in Query
          PROVE  /\ forceQueries'[q] = Computing
                      <=> forceQueries[q] = Computing /\ ~(Top.owner = "force" /\ Top.query = q)
                 /\ valueQueries'[q] = Computing
                      <=> valueQueries[q] = Computing /\ ~(Top.owner = "value" /\ Top.query = q)
      BY <1>CloseRequire, <2>1 DEF CloseRequire, caches
    <2>8. QED
      <3>1. Returns
        BY <2>1, <2>2, <2>3, <2>4, <2>5, <2>6, <2>7 DEF Returns
      <3>2. QED
        BY <1>2, <3>1, ReturnsKeeps
  <1>FinishForce. CASE FinishForce
    <2>1. /\ frames # <<>> /\ Top.owner = "force" /\ Top.query \in Query /\ control.pc # "idle"
      BY <1>FinishForce, ControlFacts, TopTypes DEF FinishForce, Running, Answered
    <2>2. /\ prog' = prog /\ frames' = Below
      BY <1>FinishForce, ControlFacts, ObserveTypes, AnswerTypes DEF FinishForce, session, tracker, ObserveCurrent, ObserveFile
    <2>3. control'.pc = IF Top.owner \in Root THEN "idle" ELSE "return"
      BY <1>FinishForce, <2>1 DEF FinishForce, Idle, Return, Go, Root
    <2>4. references \in Seq(Query) /\ references' \in Seq(Query)
      BY <1>2 DEF TypeOK
    <2>5. IF Top.owner = "force" THEN Len(references') = Top.base ELSE references' = references
      BY <1>FinishForce, <2>1, RestoreTypes DEF FinishForce, RestoreReferences
    <2>6. Len(captures') = Len(captures) - (IF Opens(Top) THEN 1 ELSE 0)
      <3>1. Opens(Top)
        BY <2>1 DEF Opens
      <3>2. /\ captures # <<>> /\ captures \in Seq(Completion)
        BY <2>1, <3>1, CapturesOpen DEF TypeOK
      <3>3. /\ Captured(captures) \in Completion /\ FinishCapture(captures) \in Seq(Completion)
            /\ Len(FinishCapture(captures)) = Len(captures) - 1
        BY <3>2, FinishCaptureType
      <3>4. prog.home[Top.query] \in File
        BY <2>1, TopTypes
      <3>5. Len(captures') = Len(captures) - 1
        BY <1>FinishForce, <3>3, <3>4, ObserveTypes DEF FinishForce
      <3>6. QED
        BY <3>1, <3>5
    <2>7. ASSUME NEW q \in Query
          PROVE  /\ forceQueries'[q] = Computing
                      <=> forceQueries[q] = Computing /\ ~(Top.owner = "force" /\ Top.query = q)
                 /\ valueQueries'[q] = Computing
                      <=> valueQueries[q] = Computing /\ ~(Top.owner = "value" /\ Top.query = q)
      BY <1>FinishForce, <2>1 DEF FinishForce, TypeOK, Settled, Ready, Absent, Computing
    <2>8. QED
      <3>1. Returns
        BY <2>1, <2>2, <2>3, <2>4, <2>5, <2>6, <2>7 DEF Returns
      <3>2. QED
        BY <1>2, <3>1, ReturnsKeeps
  <1>FinishDeclaration. CASE FinishDeclaration
    <2>1. /\ frames # <<>> /\ Top.owner = "value" /\ Top.query \in Query /\ control.pc # "idle"
      BY <1>FinishDeclaration, ControlFacts, TopTypes DEF FinishDeclaration, Running, Answered
    <2>2. /\ prog' = prog /\ frames' = Below
      BY <1>FinishDeclaration, ControlFacts, ObserveTypes, AnswerTypes DEF FinishDeclaration, session, tracker, ObserveCurrent, ObserveFile
    <2>3. control'.pc = IF Top.owner \in Root THEN "idle" ELSE "return"
      BY <1>FinishDeclaration, <2>1 DEF FinishDeclaration, Idle, Return, Go, Root
    <2>4. references \in Seq(Query) /\ references' \in Seq(Query)
      BY <1>2 DEF TypeOK
    <2>5. IF Top.owner = "force" THEN Len(references') = Top.base ELSE references' = references
      BY <1>FinishDeclaration, <2>1, RestoreTypes DEF FinishDeclaration, RestoreReferences
    <2>6. Len(captures') = Len(captures) - (IF Opens(Top) THEN 1 ELSE 0)
      <3>1. Opens(Top)
        BY <2>1 DEF Opens
      <3>2. /\ captures # <<>> /\ captures \in Seq(Completion)
        BY <2>1, <3>1, CapturesOpen DEF TypeOK
      <3>3. /\ Captured(captures) \in Completion /\ FinishCapture(captures) \in Seq(Completion)
            /\ Len(FinishCapture(captures)) = Len(captures) - 1
        BY <3>2, FinishCaptureType
      <3>4. prog.home[Top.query] \in File
        BY <2>1, TopTypes
      <3>5. Len(captures') = Len(captures) - 1
        BY <1>FinishDeclaration, <3>3, <3>4, ObserveTypes DEF FinishDeclaration
      <3>6. QED
        BY <3>1, <3>5
    <2>7. ASSUME NEW q \in Query
          PROVE  /\ forceQueries'[q] = Computing
                      <=> forceQueries[q] = Computing /\ ~(Top.owner = "force" /\ Top.query = q)
                 /\ valueQueries'[q] = Computing
                      <=> valueQueries[q] = Computing /\ ~(Top.owner = "value" /\ Top.query = q)
      BY <1>FinishDeclaration, <2>1 DEF FinishDeclaration, TypeOK, Published, Ready, Absent, Computing
    <2>8. QED
      <3>1. Returns
        BY <2>1, <2>2, <2>3, <2>4, <2>5, <2>6, <2>7 DEF Returns
      <3>2. QED
        BY <1>2, <3>1, ReturnsKeeps
  <1>PublishDeclarator. CASE PublishDeclarator
    <2>1. /\ frames # <<>> /\ Top.owner = "declarator" /\ Top.query \in Query /\ control.pc # "idle"
      BY <1>PublishDeclarator, ControlFacts, TopTypes DEF PublishDeclarator, Running, Answered
    <2>2. /\ prog' = prog /\ frames' = Below
      BY <1>PublishDeclarator, ControlFacts, ObserveTypes, AnswerTypes DEF PublishDeclarator, session, tracker, ObserveCurrent, ObserveFile
    <2>3. control'.pc = IF Top.owner \in Root THEN "idle" ELSE "return"
      BY <1>PublishDeclarator, <2>1 DEF PublishDeclarator, Idle, Return, Go, Root
    <2>4. references \in Seq(Query) /\ references' \in Seq(Query)
      BY <1>2 DEF TypeOK
    <2>5. IF Top.owner = "force" THEN Len(references') = Top.base ELSE references' = references
      BY <1>PublishDeclarator, <2>1, RestoreTypes DEF PublishDeclarator, RestoreReferences
    <2>6. Len(captures') = Len(captures) - (IF Opens(Top) THEN 1 ELSE 0)
      <3>1. captures' = captures /\ Len(captures) \in Nat
        BY <1>PublishDeclarator, LenProperties DEF PublishDeclarator, tracker, TypeOK
      <3>2. ~Opens(Top)
        BY <1>PublishDeclarator, <2>1 DEF PublishDeclarator, Opens
      <3>3. QED
        BY <3>1, <3>2
    <2>7. ASSUME NEW q \in Query
          PROVE  /\ forceQueries'[q] = Computing
                      <=> forceQueries[q] = Computing /\ ~(Top.owner = "force" /\ Top.query = q)
                 /\ valueQueries'[q] = Computing
                      <=> valueQueries[q] = Computing /\ ~(Top.owner = "value" /\ Top.query = q)
      <3>1. valueQueries[Top.query] # Computing
        <4>1. Len(frames) \in DOMAIN frames /\ frames[Len(frames)] = Top
          BY <2>1, PopSeq, LenProperties DEF TypeOK, Top
        <4>2. SUFFICES ASSUME valueQueries[Top.query] = Computing PROVE FALSE
          OBVIOUS
        <4>3. PICK i \in DOMAIN frames : Owns(i, "value", Top.query)
          BY <2>1, <4>2 DEF MarksAreActiveCalls
        <4>4. QED
          <5>1. Len(frames) = 1
            BY <2>1, <4>1 DEF CallsNest, Root
          <5>2. i = 1
            BY <4>1, <4>3, <5>1, LenProperties DEF TypeOK
          <5>3. QED
            BY <2>1, <4>1, <4>3, <5>1, <5>2 DEF Owns
      <3>2. QED
        BY <1>PublishDeclarator, <2>1, <3>1 DEF PublishDeclarator, caches, TypeOK, Evicted, Published, Ready, Absent, Computing
    <2>8. QED
      <3>1. Returns
        BY <2>1, <2>2, <2>3, <2>4, <2>5, <2>6, <2>7 DEF Returns
      <3>2. QED
        BY <1>2, <3>1, ReturnsKeeps
  <1>VisitClose. CASE VisitClose
    <2>1. /\ frames # <<>> /\ Top.owner = "visit" /\ Top.query \in Query /\ control.pc # "idle"
      BY <1>VisitClose, ControlFacts, TopTypes DEF VisitClose, Running, Answered
    <2>2. /\ prog' = prog /\ frames' = Below
      BY <1>VisitClose, ControlFacts, ObserveTypes, AnswerTypes DEF VisitClose, session, tracker, ObserveCurrent, ObserveFile
    <2>3. control'.pc = IF Top.owner \in Root THEN "idle" ELSE "return"
      BY <1>VisitClose, <2>1 DEF VisitClose, Idle, Return, Go, Root
    <2>4. references \in Seq(Query) /\ references' \in Seq(Query)
      BY <1>2 DEF TypeOK
    <2>5. IF Top.owner = "force" THEN Len(references') = Top.base ELSE references' = references
      BY <1>VisitClose, <2>1, RestoreTypes DEF VisitClose, RestoreReferences
    <2>6. Len(captures') = Len(captures) - (IF Opens(Top) THEN 1 ELSE 0)
      <3>1. captures' = captures /\ Len(captures) \in Nat
        BY <1>VisitClose, LenProperties DEF VisitClose, tracker, TypeOK
      <3>2. ~Opens(Top)
        BY <1>VisitClose, <2>1 DEF VisitClose, Opens
      <3>3. QED
        BY <3>1, <3>2
    <2>7. ASSUME NEW q \in Query
          PROVE  /\ forceQueries'[q] = Computing
                      <=> forceQueries[q] = Computing /\ ~(Top.owner = "force" /\ Top.query = q)
                 /\ valueQueries'[q] = Computing
                      <=> valueQueries[q] = Computing /\ ~(Top.owner = "value" /\ Top.query = q)
      <3>1. forceQueries[Top.query] # Computing
        <4>1. Len(frames) \in DOMAIN frames /\ frames[Len(frames)] = Top
          BY <2>1, PopSeq, LenProperties DEF TypeOK, Top
        <4>2. SUFFICES ASSUME forceQueries[Top.query] = Computing PROVE FALSE
          OBVIOUS
        <4>3. PICK i \in DOMAIN frames : Owns(i, "force", Top.query)
          BY <2>1, <4>2 DEF MarksAreActiveCalls
        <4>4. QED
          BY <2>1, <4>1, <4>3 DEF IInv, StackDiscipline, VisitsComeFirst, Owns
      <3>2. QED
        BY <1>VisitClose, <2>1, <3>1 DEF VisitClose, caches, TypeOK, Evicted, Published, Ready, Absent, Computing
    <2>8. QED
      <3>1. Returns
        BY <2>1, <2>2, <2>3, <2>4, <2>5, <2>6, <2>7 DEF Returns
      <3>2. QED
        BY <1>2, <3>1, ReturnsKeeps
  <1>stutter. CASE UNCHANGED vars
    <2>1. /\ prog' = prog /\ control' = control /\ frames' = frames
          /\ forceQueries' = forceQueries /\ valueQueries' = valueQueries
          /\ references' = references /\ captures' = captures
      BY <1>stutter DEF vars
    <2>2. StackDiscipline'
      <3>1. CallsNest'
        BY <2>1 DEF IInv, StackDiscipline, CallsNest, Top
      <3>2. VisitsComeFirst'
        BY <2>1 DEF IInv, StackDiscipline, VisitsComeFirst
      <3>3. ParametersOnTop'
        BY <2>1 DEF IInv, StackDiscipline, ParametersOnTop
      <3>4. ReferencesNest'
        BY <2>1 DEF IInv, StackDiscipline, ReferencesNest, Above, Floor
      <3>5. QED
        BY <3>1, <3>2, <3>3, <3>4 DEF StackDiscipline
    <2>3. MarksAreActiveCalls' /\ ParametersAreLeaves(prog)'
      BY <2>1 DEF IInv, MarksAreActiveCalls, ParametersAreLeaves, Owns
    <2>4. QED
      BY <1>2, <2>2, <2>3 DEF IInv
  <1>3. QED
    BY <1>SelectFile, <1>NextPass, <1>RequireTypeNode, <1>MarkProvisional, <1>DemandType, <1>CheckDeclarator, <1>FlushOrigin, <1>SummariseValue, <1>SummariseExport, <1>CloseDemand, <1>CloseFlush, <1>CloseSummary, <1>CloseRequire, <1>ForceReady, <1>ForceActive, <1>ForceOverBudget, <1>ForceEnter, <1>EvaluateNonclaim, <1>EvaluateUnproductive, <1>EvaluateDeclaration, <1>ForceOperand, <1>ForceShapeChild, <1>EvaluateBody, <1>EvaluateBinary, <1>ResumeForce, <1>NormaliseResult, <1>FinishForce, <1>DeclarationOverridden, <1>DeclarationKnown, <1>DeclarationEnter, <1>InferContexts, <1>InferOperand, <1>ResumeInference, <1>FinishDeclaration, <1>FinishInitializer, <1>PublishDeclarator, <1>VisitAgain, <1>VisitEnter, <1>VisitOperand, <1>ResumeVisit, <1>VisitForce, <1>VisitClose, <1>stutter DEF Next, Evaluate, Check

-----------------------------------------------------------------------------
\* Before the first demand nothing is active.
LEMMA InitHolds == Init => IInv
  <1> SUFFICES ASSUME Init PROVE IInv
    OBVIOUS
  <1>0. phase = Passes[1]
    BY DEF Init, Passes
  <1>9. Authored \subseteq Query
    BY DEF Authored
  <1>1. TypeOK
    BY <1>0, <1>9, ProgramsAssumption, TypesAssumption
       DEF Init, TypeOK, Idle, Go, NoAnswer, Incomplete, Control, Answer, Answers, Completion
  <1>2. ParametersAreLeaves(prog)
    BY ProgramsAssumption DEF Init
  <1>3. DOMAIN frames = {} /\ Len(frames) = 0 /\ Len(captures) = 0
    BY LenProperties, EmptySeq DEF Init
  <1>4. StackDiscipline
    BY <1>3 DEF Init, StackDiscipline, CallsNest, VisitsComeFirst, ParametersOnTop,
                ReferencesNest, Idle, Go
  <1>5. OpenCaptures(frames) = {}
    BY <1>3 DEF OpenCaptures
  <1>6. Len(captures) = Cardinality(OpenCaptures(frames))
    BY <1>3, <1>5, FS_EmptySet
  <1>7. MarksAreActiveCalls
    BY <1>3, <1>6 DEF Init, MarksAreActiveCalls, Absent, Computing
  <1>8. QED
    BY <1>1, <1>2, <1>4, <1>7 DEF IInv

LEMMA Inductive == Spec => []IInv
  <1>1. Init => IInv
    BY InitHolds
  <1>2. IInv /\ [Next]_vars => IInv'
    BY StepKeeps
  <1>3. QED
    BY <1>1, <1>2, PTL DEF Spec

\* The evaluator's state keeps its types: in particular no capture, reference
\* or call is ever popped from an empty stack.
THEOREM TypeCorrect == Spec => []TypeOK
  <1>1. IInv => TypeOK
    BY DEF IInv
  <1>2. QED
    BY <1>1, Inductive, PTL

\* The calls nest as the Rust call stack does, and every evaluation leaves
\* force_reference_stack as long as it found it, for every program, budget and
\* order of demands.
THEOREM StackIsDisciplined == Spec => []StackDiscipline
  <1>1. IInv => StackDiscipline
    BY DEF IInv
  <1>2. QED
    BY <1>1, Inductive, PTL

\* force_deferred and declaration_value_type mark a query Computing exactly
\* while one call of theirs evaluates it, and each call has its own capture.
THEOREM MarksAreCalls == Spec => []MarksAreActiveCalls
  <1>1. IInv => MarksAreActiveCalls
    BY DEF IInv
  <1>2. QED
    BY <1>1, Inductive, PTL

\* When a demand has been answered no capture, no reference and no mark of it
\* is left, whichever of the early returns it took.
THEOREM NothingIsLeft == Spec => []Quiescent
  <1>1. IInv => Quiescent
    <2> SUFFICES ASSUME IInv, control.pc = "idle"
                 PROVE  frames = <<>> /\ captures = <<>> /\ references = <<>>
      BY DEF Quiescent
    <2>1. frames = <<>> /\ references = <<>>
      BY DEF IInv, StackDiscipline, CallsNest, ReferencesNest
    <2>2. OpenCaptures(frames) = {}
      BY <2>1 DEF OpenCaptures
    <2>3. Len(captures) = 0
      BY <2>2, FS_EmptySet DEF IInv, MarksAreActiveCalls
    <2>4. QED
      BY <2>1, <2>3, EmptySeq DEF IInv, TypeOK
  <1>2. QED
    BY <1>1, Inductive, PTL

-----------------------------------------------------------------------------
\* The program's verdict is the worst of its files'.
WorstOf(fs, verdict) ==
    /\ \A f \in File : Rank(fs[f]) <= Rank(verdict)
    /\ \E f \in File : fs[f] = verdict

LEMMA WorsenBoth ==
    ASSUME NEW fs \in [File -> Completion], NEW verdict \in Completion,
           WorstOf(fs, verdict), NEW f \in File, NEW c \in Completion
    PROVE  WorstOf(Worsen(fs, f, c), Combine(verdict, c))
  <1> DEFINE gs == Worsen(fs, f, c)
             w  == Combine(verdict, c)
  <1>1. /\ gs[f] = Combine(fs[f], c)
        /\ \A g \in File : g # f => gs[g] = fs[g]
    BY DEF Worsen
  <1>2. /\ \A g \in File : fs[g] \in Completion
        /\ Rank(fs[f]) <= Rank(verdict)
    BY DEF WorstOf
  <1>3. /\ Rank(Combine(fs[f], c)) <= Rank(w) /\ Rank(verdict) <= Rank(w)
        /\ \A d \in Completion : Rank(d) \in 0..3
    BY <1>2 DEF Combine, Rank, Completion
  <1> HIDE DEF gs, w
  <1>4. ASSUME NEW g \in File PROVE Rank(gs[g]) <= Rank(w)
    <2>1. CASE g = f
      BY <1>1, <1>3, <2>1
    <2>2. CASE g # f
      <3>1. Rank(fs[g]) <= Rank(verdict) /\ Rank(fs[g]) \in 0..3 /\ Rank(verdict) \in 0..3
        BY <1>2, <1>3 DEF WorstOf
      <3>2. w \in Completion
        BY CombineVerdicts DEF w
      <3>3. QED
        BY <1>1, <1>3, <2>2, <3>1, <3>2
    <2>3. QED
      BY <2>1, <2>2
  <1>5. \E g \in File : gs[g] = w
    <2>1. PICK h \in File : fs[h] = verdict
      BY DEF WorstOf
    <2>2. CASE Rank(verdict) >= Rank(c)
      <3>1. w = verdict
        BY <2>2 DEF Combine, w
      <3>2. gs[h] = verdict
        BY <1>1, <2>1, <2>2 DEF Combine
      <3>3. QED
        BY <3>1, <3>2
    <2>3. CASE ~(Rank(verdict) >= Rank(c))
      <3>1. w = c
        BY <2>3 DEF Combine, w
      <3>2. Combine(fs[f], c) = c
        BY <1>2, <2>3 DEF Combine, Rank, Completion
      <3>3. QED
        BY <1>1, <3>1, <3>2
    <2>4. QED
      BY <2>2, <2>3
  <1>6. QED
    BY <1>4, <1>5 DEF WorstOf, gs, w

LEMMA CombineTwice ==
    ASSUME NEW c \in Completion, NEW d \in Completion
    PROVE  Combine(Combine(c, d), d) = Combine(c, d)
  BY DEF Combine, Rank, Completion

\* While a pass goes over the files, an evaluation runs on behalf of one.
OnBehalf ==
    phase \in {"required", "check"} /\ control.pc # "idle" => current \in File

LEMMA OnBehalfStep ==
    ASSUME IInv, OnBehalf, [Next]_vars
    PROVE  OnBehalf'
  <1>1. ASSUME phase' = phase, current' = current, control.pc # "idle"
        PROVE  OnBehalf'
    BY <1>1 DEF OnBehalf
  <1>2. CASE Evaluate
    <2>1. phase' = phase /\ current' = current
      BY <1>2 DEF Evaluate, session, tracker, ObserveCurrent, ObserveFile, CloseDemand,
         CloseFlush, CloseSummary, CloseRequire, ResumeInference, EvaluateBinary,
         FinishDeclaration,
         ForceReady, ForceActive, ForceOverBudget, ForceEnter, EvaluateNonclaim,
         EvaluateUnproductive, EvaluateDeclaration, ForceOperand, ForceShapeChild, EvaluateBody,
         ResumeForce, NormaliseResult, FinishForce, DeclarationOverridden, DeclarationKnown,
         DeclarationEnter, InferContexts, InferOperand, FinishInitializer, PublishDeclarator,
         VisitAgain, VisitEnter, VisitOperand, ResumeVisit, VisitForce, VisitClose
    <2>2. control.pc # "idle"
      BY <1>2 DEF Evaluate, Running, Answered, Inferring, CloseDemand,
         CloseFlush, CloseSummary, CloseRequire, ResumeInference, EvaluateBinary,
         FinishDeclaration,
         ForceReady, ForceActive, ForceOverBudget, ForceEnter, EvaluateNonclaim,
         EvaluateUnproductive, EvaluateDeclaration, ForceOperand, ForceShapeChild, EvaluateBody,
         ResumeForce, NormaliseResult, FinishForce, DeclarationOverridden, DeclarationKnown,
         DeclarationEnter, InferContexts, InferOperand, FinishInitializer, PublishDeclarator,
         VisitAgain, VisitEnter, VisitOperand, ResumeVisit, VisitForce, VisitClose
    <2>3. QED
      BY <1>1, <2>1, <2>2
  <1>3. CASE Check
    <2>1. ASSUME NEW q \in Query, RequireTypeNode(q) PROVE OnBehalf'
      <3>1. prog.home[q] \in File
        BY CacheFacts DEF IInv
      <3>2. QED
        BY <2>1, <3>1 DEF RequireTypeNode, StartRoot, OnBehalf
    <2>2. ASSUME NEW q \in Query, MarkProvisional(q) PROVE OnBehalf'
      BY <2>2 DEF MarkProvisional, OnBehalf, session, tracker
    <2>3. ASSUME NEW q \in Query, DemandType(q) PROVE OnBehalf'
      BY <2>3 DEF DemandType, StartRoot, OnBehalf
    <2>4. ASSUME NEW q \in Query, CheckDeclarator(q) PROVE OnBehalf'
      <3>1. prog.home[q] \in File
        BY CacheFacts DEF IInv
      <3>2. QED
        BY <2>4, <3>1 DEF CheckDeclarator, StartRoot, OnBehalf
    <2>5. ASSUME NEW q \in Query, FlushOrigin(q) \/ SummariseValue(q) \/ SummariseExport(q)
          PROVE  OnBehalf'
      BY <2>5 DEF FlushOrigin, SummariseValue, SummariseExport, StartRoot, OnBehalf, session
    <2>6. ASSUME NEW f \in File, SelectFile(f) PROVE OnBehalf'
      BY <2>6 DEF SelectFile, OnBehalf
    <2>7. ASSUME NextPass PROVE OnBehalf'
      BY <2>7 DEF NextPass, OnBehalf
    <2>8. QED
      BY <1>3, <2>1, <2>2, <2>3, <2>4, <2>5, <2>6, <2>7 DEF Check
  <1>4. CASE UNCHANGED vars
    BY <1>4 DEF vars, OnBehalf
  <1>5. QED
    BY <1>2, <1>3, <1>4 DEF Next

\* No observation makes a file's verdict worse than the program's.
LEMMA NoFileIsWorse ==
    ASSUME NEW fs \in [File -> Completion], NEW verdict \in Completion,
           \A g \in File : Rank(fs[g]) <= Rank(verdict), NEW f, NEW c \in Completion
    PROVE  \A g \in File : Rank(Worsen(fs, f, c)[g]) <= Rank(Combine(verdict, c))
  <1> SUFFICES ASSUME NEW g \in File
               PROVE  Rank(Worsen(fs, f, c)[g]) <= Rank(Combine(verdict, c))
    OBVIOUS
  <1>1. \/ Worsen(fs, f, c)[g] = Combine(fs[g], c)
        \/ Worsen(fs, f, c)[g] = fs[g]
    BY DEF Worsen
  <1>2. /\ Rank(Combine(fs[g], c)) <= Rank(Combine(verdict, c))
        /\ Rank(fs[g]) <= Rank(Combine(verdict, c))
    BY DEF Combine, Rank, Completion
  <1>3. QED
    BY <1>1, <1>2

\* An observation worsens the program and, if one is current, the file alike.
LEMMA ObservedWorst ==
    ASSUME TypeOK, ProgramIsWorstFile, NEW c \in Completion, phase' = phase,
           phase \in {"required", "check"} => current \in File
    PROVE  /\ ObserveCurrent(c) => ProgramIsWorstFile'
           /\ \A caps : \A f \in File : ObserveFile(caps, f, c) => ProgramIsWorstFile'
  <1>1. /\ files \in [File -> Completion] /\ programCompletion \in Completion
        /\ \A f \in File : Rank(files[f]) <= Rank(programCompletion)
        /\ phase \in {"required", "check"} => WorstOf(files, programCompletion)
    BY DEF ProgramIsWorstFile, WorstOf, TypeOK
  <1>2. ASSUME ObserveCurrent(c) PROVE ProgramIsWorstFile'
    <2>1. \A f \in File :
            Rank(Worsen(files, current, c)[f]) <= Rank(Combine(programCompletion, c))
      BY <1>1, NoFileIsWorse
    <2>2. phase \in {"required", "check"}
            => WorstOf(Worsen(files, current, c), Combine(programCompletion, c))
      BY <1>1, WorsenBoth
    <2>3. QED
      BY <1>2, <2>1, <2>2 DEF ObserveCurrent, ProgramIsWorstFile, WorstOf
  <1>3. ASSUME NEW caps, NEW f \in File, ObserveFile(caps, f, c) PROVE ProgramIsWorstFile'
    <2> DEFINE fs == Worsen(files, f, c)
               verdict == Combine(programCompletion, c)
    <2>1. /\ fs \in [File -> Completion] /\ verdict \in Completion
          /\ Combine(verdict, c) = verdict
      BY <1>1, WorsenType, CombineVerdicts, CombineTwice
    <2>2. \A g \in File : Rank(fs[g]) <= Rank(verdict)
      BY <1>1, NoFileIsWorse
    <2>3. phase \in {"required", "check"} => WorstOf(fs, verdict)
      BY <1>1, WorsenBoth
    <2>4. files' = Worsen(fs, current, c) /\ programCompletion' = verdict
      BY <1>3 DEF ObserveFile
    <2> HIDE DEF fs, verdict
    <2>5. \A g \in File : Rank(Worsen(fs, current, c)[g]) <= Rank(verdict)
      BY <2>1, <2>2, NoFileIsWorse
    <2>6. phase \in {"required", "check"} => WorstOf(Worsen(fs, current, c), verdict)
      BY <2>1, <2>3, WorsenBoth
    <2>7. QED
      BY <2>4, <2>5, <2>6 DEF ProgramIsWorstFile, WorstOf
  <1>4. QED
    BY <1>2, <1>3

LEMMA WorstStep ==
    ASSUME IInv, OnBehalf, ProgramIsWorstFile, [Next]_vars
    PROVE  ProgramIsWorstFile'
  <1>1. TypeOK /\ CallsNest /\ MarksAreActiveCalls
    BY DEF IInv, StackDiscipline
  <1>2. control.answer.state \in Completion
    BY <1>1, ControlFacts, AnswerTypes
  <1>3. ASSUME files' = files, programCompletion' = programCompletion,
               phase' = phase \/ phase' \notin {"required", "check"} \/ NextPass
        PROVE  ProgramIsWorstFile'
    BY <1>3 DEF ProgramIsWorstFile, NextPass, Passes
  <1>4. CASE CloseDemand \/ CloseRequire \/ ResumeInference
    <2>1. ObserveCurrent(control.answer.state) /\ control.pc # "idle" /\ phase' = phase
      BY <1>4 DEF CloseDemand, CloseRequire, ResumeInference, Answered, session
    <2>2. QED
      BY <1>1, <1>2, <2>1, ObservedWorst DEF OnBehalf
  <1>5. CASE EvaluateBinary
    <2>1. ObserveCurrent(Top.state) /\ control.pc # "idle" /\ frames # <<>> /\ phase' = phase
      BY <1>5 DEF EvaluateBinary, Running, session
    <2>2. QED
      BY <1>1, <2>1, TopTypes, ObservedWorst DEF OnBehalf
  <1>6. CASE FinishDeclaration
    <2>1. frames # <<>> /\ Opens(Top) /\ control.pc # "idle" /\ phase' = phase
      BY <1>6 DEF FinishDeclaration, Running, Opens, session
    <2>2. Captured(captures) \in Completion
      BY <1>1, <2>1, CapturesOpen, FinishCaptureType DEF TypeOK
    <2>3. prog.home[Top.query] \in File
      BY <1>1, <2>1, TopTypes
    <2>4. ObserveFile(FinishCapture(captures), prog.home[Top.query], Captured(captures))
      BY <1>6 DEF FinishDeclaration
    <2>5. QED
      BY <1>1, <2>1, <2>2, <2>3, <2>4, ObservedWorst DEF OnBehalf
  <1>7. CASE CloseFlush
    <2>1. /\ ObserveFile(captures, prog.home[Top.query], control.answer.state)
          /\ frames # <<>> /\ control.pc # "idle" /\ phase' = phase
      BY <1>7 DEF CloseFlush, Answered, session
    <2>2. prog.home[Top.query] \in File
      BY <1>1, <2>1, TopTypes
    <2>3. QED
      BY <1>1, <1>2, <2>1, <2>2, ObservedWorst DEF OnBehalf
  <1>8. ASSUME ~(CloseDemand \/ CloseRequire \/ ResumeInference \/ EvaluateBinary
                   \/ FinishDeclaration \/ CloseFlush)
        PROVE  /\ files' = files /\ programCompletion' = programCompletion
               /\ phase' = phase \/ NextPass
    <2>1. ASSUME Evaluate
          PROVE  files' = files /\ programCompletion' = programCompletion /\ phase' = phase
      BY <1>8, <2>1 DEF Evaluate, tracker, session, CloseSummary,
         ForceReady, ForceActive, ForceOverBudget, ForceEnter, EvaluateNonclaim,
         EvaluateUnproductive, EvaluateDeclaration, ForceOperand, ForceShapeChild, EvaluateBody,
         ResumeForce, NormaliseResult, FinishForce, DeclarationOverridden, DeclarationKnown,
         DeclarationEnter, InferContexts, InferOperand, FinishInitializer, PublishDeclarator,
         VisitAgain, VisitEnter, VisitOperand, ResumeVisit, VisitForce, VisitClose
    <2>2. ASSUME Check
          PROVE  /\ files' = files /\ programCompletion' = programCompletion
                 /\ phase' = phase \/ NextPass
      BY <2>2 DEF Check, tracker, session, StartRoot, SelectFile, NextPass, RequireTypeNode,
                  MarkProvisional, DemandType, CheckDeclarator, FlushOrigin, SummariseValue,
                  SummariseExport
    <2>3. QED
      BY <1>8, <2>1, <2>2 DEF Next, vars
  <1>9. QED
    BY <1>3, <1>4, <1>5, <1>6, <1>7, <1>8

\* However an evaluation ends, its calls unwind completely (force_deferred,
\* declaration_value_type, finish_capture).
THEOREM EveryCallUnwinds == Spec => []CallsUnwind
  <1>1. StackDiscipline /\ MarksAreActiveCalls /\ Quiescent => CallsUnwind
    BY DEF CallsUnwind
  <1>2. QED
    BY <1>1, StackIsDisciplined, MarksAreCalls, NothingIsLeft, PTL

\* CompletionTracker: no file's verdict is worse than the program's, and until
\* the last file has been checked no verdict comes from outside a file.
THEOREM ProgramVerdict == Spec => []ProgramIsWorstFile
  <1>1. Init => ProgramIsWorstFile /\ OnBehalf
    BY FileAssumption DEF Init, ProgramIsWorstFile, OnBehalf, Rank, Idle, Go
  <1>2. IInv /\ OnBehalf /\ [Next]_vars => OnBehalf'
    BY OnBehalfStep
  <1>3. IInv /\ OnBehalf /\ ProgramIsWorstFile /\ [Next]_vars => ProgramIsWorstFile'
    BY WorstStep
  <1>4. QED
    BY <1>1, <1>2, <1>3, Inductive, PTL DEF Spec

-----------------------------------------------------------------------------
\* The answers a demand may rely on.

\* The calls of the eager walk are made by the required-type pass alone.
VisitsAreRequired ==
    \A i \in DOMAIN frames : frames[i].owner \in {"visit", "require"} => phase = "required"

\* How a step of the evaluator moves the stack, as far as the owners go.
Restacked ==
    \/ frames' = frames
    \/ frames # <<>> /\ frames' = Below
    \/ \E g \in Frame : frames # <<>> /\ ReplaceTop(g) /\ g.owner = Top.owner
    \/ \E g \in Frame : /\ frames' = Append(frames, g)
                        /\ g.owner \in {"visit", "require"} => control.pc = "visit"

LEMMA RestackedKeeps ==
    ASSUME IInv, VisitsAreRequired, Restacked, phase' = phase
    PROVE  VisitsAreRequired'
  <1>1. frames \in Seq(Frame) /\ DOMAIN frames = 1..Len(frames) /\ Len(frames) \in Nat
    BY LenProperties DEF IInv, TypeOK
  <1>2. control.pc = "visit" => phase = "required"
    <2>1. SUFFICES ASSUME control.pc = "visit" PROVE phase = "required"
      OBVIOUS
    <2>2. frames # <<>>
      BY <2>1 DEF IInv, StackDiscipline, CallsNest
    <2>3. Len(frames) \in DOMAIN frames
      BY <1>1, <2>2, EmptySeq
    <2>4. QED
      BY <2>1, <2>3 DEF IInv, StackDiscipline, VisitsComeFirst, VisitsAreRequired
  <1>3. CASE frames' = frames
    BY <1>3 DEF VisitsAreRequired
  <1>4. CASE frames # <<>> /\ frames' = Below
    BY <1>1, <1>4, PopSeq DEF VisitsAreRequired, Below
  <1>5. ASSUME NEW g \in Frame, frames # <<>>, ReplaceTop(g), g.owner = Top.owner
        PROVE  VisitsAreRequired'
    BY <1>1, <1>5, ReplaceSeq DEF VisitsAreRequired, ReplaceTop, Top
  <1>6. ASSUME NEW g \in Frame, frames' = Append(frames, g),
               g.owner \in {"visit", "require"} => control.pc = "visit"
        PROVE  VisitsAreRequired'
    <2>1. /\ DOMAIN frames' = 1..(Len(frames) + 1)
          /\ \A i \in 1..Len(frames) : frames'[i] = frames[i]
          /\ frames'[Len(frames) + 1] = g
      BY <1>1, <1>6, PushSeq
    <2>2. ASSUME NEW i \in 1..(Len(frames) + 1), frames'[i].owner \in {"visit", "require"}
          PROVE  phase = "required"
      <3>1. CASE i \in 1..Len(frames)
        BY <1>1, <2>1, <2>2, <3>1 DEF VisitsAreRequired
      <3>2. CASE i = Len(frames) + 1
        BY <1>2, <1>6, <2>1, <2>2, <3>2
      <3>3. QED
        BY <1>1, <3>1, <3>2
    <2>3. QED
      BY <2>1, <2>2 DEF VisitsAreRequired
  <1>7. QED
    BY <1>3, <1>4, <1>5, <1>6 DEF Restacked

\* Every step of an evaluation moves the stack in one of these ways.
LEMMA EvaluateRestacks ==
    ASSUME IInv, Evaluate
    PROVE  Restacked /\ phase' = phase
  <1>1. TypeOK /\ CallsNest /\ MarksAreActiveCalls
    BY DEF IInv, StackDiscipline
  <1>2. phase' = phase
    BY DEF Evaluate, session, CloseDemand, CloseFlush, CloseSummary, CloseRequire,
       ResumeInference, EvaluateBinary, FinishDeclaration,
       ForceReady, ForceActive, ForceOverBudget, ForceEnter, EvaluateNonclaim,
       EvaluateUnproductive, EvaluateDeclaration, ForceOperand, ForceShapeChild, EvaluateBody,
       ResumeForce, NormaliseResult, FinishForce, DeclarationOverridden, DeclarationKnown,
       DeclarationEnter, InferContexts, InferOperand, FinishInitializer, PublishDeclarator,
       VisitAgain, VisitEnter, VisitOperand, ResumeVisit, VisitForce, VisitClose
  <1> SUFFICES Restacked
    BY <1>2
  <1>3. CASE \/ ForceReady \/ ForceActive \/ ForceOverBudget \/ EvaluateNonclaim
             \/ EvaluateUnproductive \/ EvaluateBody \/ EvaluateBinary
             \/ DeclarationOverridden \/ DeclarationKnown \/ VisitAgain
    BY <1>3 DEF Restacked, ForceReady, ForceActive, ForceOverBudget, EvaluateNonclaim,
       EvaluateUnproductive, EvaluateBody, EvaluateBinary, DeclarationOverridden,
       DeclarationKnown, VisitAgain
  <1>4. CASE \/ CloseDemand \/ CloseFlush \/ CloseSummary \/ CloseRequire \/ FinishForce
             \/ FinishDeclaration \/ PublishDeclarator \/ VisitClose
    <2>1. frames' = Below
      BY <1>4 DEF CloseDemand, CloseFlush, CloseSummary, CloseRequire, FinishForce,
         FinishDeclaration, PublishDeclarator, VisitClose
    <2>2. control.pc # "idle"
      BY <1>4 DEF CloseDemand, CloseFlush, CloseSummary, CloseRequire, FinishForce,
         FinishDeclaration, PublishDeclarator, VisitClose, Running, Answered
    <2>3. QED
      BY <2>1, <2>2 DEF Restacked, IInv, StackDiscipline, CallsNest
  <1>5. ASSUME NEW g, frames # <<>>, ReplaceTop(g), g \in Frame, g.owner = Top.owner
        PROVE  Restacked
    BY <1>5 DEF Restacked
  <1>6. frames # <<>> => Top \in Frame
    BY <1>1, TopTypes
  <1>7. ASSUME NEW stage \in {"operands", "declaration", "result", "relation", "publish"},
               frames # <<>>, ReplaceTop([Top EXCEPT !.stage = stage])
        PROVE  Restacked
    BY <1>5, <1>6, <1>7, FrameUpdates, SameCall
  <1>8. ASSUME frames # <<>>, ReplaceTop([Top EXCEPT !.next = @ + 1])
        PROVE  Restacked
    BY <1>5, <1>6, <1>8, FrameUpdates, SameCall
  <1>9. ASSUME NEW c \in Completion, NEW stage \in {"relation", "publish", Top.stage},
               frames # <<>>,
               \/ ReplaceTop([Top EXCEPT !.state = c])
               \/ ReplaceTop([Top EXCEPT !.state = c, !.stage = stage])
        PROVE  Restacked
    <2>1. CASE ReplaceTop([Top EXCEPT !.state = c])
      <3> DEFINE g == [Top EXCEPT !.state = c]
      <3>1. Top \in Frame
        BY <1>6, <1>9
      <3>2. g \in Frame /\ g.owner = Top.owner
        BY <3>1 DEF Frame
      <3>3. frames # <<>> /\ ReplaceTop(g)
        BY <1>9, <2>1
      <3> HIDE DEF g
      <3>4. QED
        BY <1>5, <3>2, <3>3
    <2>2. CASE ReplaceTop([Top EXCEPT !.state = c, !.stage = stage])
      <3> DEFINE g == [Top EXCEPT !.state = c, !.stage = stage]
      <3>1. Top \in Frame
        BY <1>6, <1>9
      <3>2. g \in Frame
        BY <1>9, <3>1, FrameUpdates
      <3>3. g.owner = Top.owner
        BY <3>1 DEF Frame
      <3>4. frames # <<>> /\ ReplaceTop(g)
        BY <1>9, <2>2
      <3> HIDE DEF g
      <3>5. QED
        BY <1>5, <3>2, <3>3, <3>4
    <2>3. QED
      BY <1>9, <2>1, <2>2
  <1>10. CASE EvaluateDeclaration
    BY <1>7, <1>10 DEF EvaluateDeclaration, Running
  <1>11. CASE ForceOperand \/ ForceShapeChild \/ VisitOperand \/ InferOperand
    BY <1>8, <1>11 DEF ForceOperand, ForceShapeChild, VisitOperand, InferOperand, Inferring,
       Running
  <1>12. CASE ResumeForce
    <2>1. frames # <<>> /\ ReplaceTop([Top EXCEPT !.state = Combine(@, control.answer.state)])
      BY <1>12 DEF ResumeForce, Answered
    <2>2. control.answer.state \in Completion /\ Top.state \in Completion
      BY <1>1, <2>1, ControlFacts, AnswerTypes, TopTypes
    <2>3. QED
      BY <1>9, <2>1, <2>2, CombineVerdicts
  <1>13. CASE ResumeVisit
    <2> DEFINE c == Combine(Top.state, control.answer.state)
               stage == IF Top.stage = "result" THEN "publish" ELSE Top.stage
    <2>1. frames # <<>> /\ ReplaceTop([Top EXCEPT !.state = c, !.stage = stage])
      BY <1>13 DEF ResumeVisit, Answered
    <2>2. c \in Completion
      BY <1>1, <2>1, ControlFacts, AnswerTypes, TopTypes, CombineVerdicts
    <2>3. stage \in {"relation", "publish", Top.stage}
      OBVIOUS
    <2> HIDE DEF c, stage
    <2>4. QED
      BY <1>9, <2>1, <2>2, <2>3
  <1>14. CASE NormaliseResult
    <2>1. frames # <<>>
      BY <1>14 DEF NormaliseResult, IInv, StackDiscipline, CallsNest
    <2>2. frames' = frames \/ ReplaceTop([Top EXCEPT !.stage = "result"])
      BY <1>14 DEF NormaliseResult
    <2>3. QED
      BY <1>7, <2>1, <2>2 DEF Restacked
  <1>15. CASE InferContexts
    BY <1>7, <1>15 DEF InferContexts, Inferring, Running
  <1>16. CASE ResumeInference
    <2>1. frames # <<>>
      BY <1>16 DEF ResumeInference, Answered
    <2>2. frames' = frames \/ ReplaceTop([Top EXCEPT !.stage = "publish"])
      BY <1>16 DEF ResumeInference
    <2>3. QED
      BY <1>7, <2>1, <2>2 DEF Restacked
  <1>17. CASE FinishInitializer
    <2> DEFINE c == Captured(captures)
               stage == IF Top.query \in prog.annotated /\ prog.body[Top.query] \in Query
                        THEN "relation" ELSE "publish"
    <2>1. frames # <<>> /\ Opens(Top) /\ ReplaceTop([Top EXCEPT !.state = c, !.stage = stage])
      BY <1>17 DEF FinishInitializer, Running, Inferred, Opens
    <2>2. c \in Completion
      BY <1>1, <2>1, OnTop, CapturesOpen, FinishCaptureType DEF TypeOK
    <2>3. stage \in {"relation", "publish", Top.stage}
      OBVIOUS
    <2> HIDE DEF c, stage
    <2>4. QED
      BY <1>9, <2>1, <2>2, <2>3
  <1>18. CASE VisitForce
    BY <1>7, <1>18 DEF VisitForce, Running
  <1>19. CASE ForceEnter
    <2> DEFINE g == [NewFrame("force", control.query, "operands", control.depth)
                        EXCEPT !.local = QueryLocal(prog, control.query)]
    <2>1. control.query \in Query /\ control.depth \in Nat /\ frames' = Append(frames, g)
      BY <1>1, <1>19, OnTop, ControlFacts DEF ForceEnter, IInv, StackDiscipline, CallsNest
    <2>2. g \in Frame
      BY <1>1, <2>1, QueryLocalType, NewFrameLocal
    <2>3. g.owner = "force"
      BY DEF NewFrame
    <2> HIDE DEF g
    <2>4. QED
      BY <2>1, <2>2, <2>3 DEF Restacked
  <1>20. CASE DeclarationEnter
    <2>1. control.query \in Query
      BY <1>20 DEF DeclarationEnter, IInv, StackDiscipline, CallsNest
    <2>2. NewFrame("value", control.query, "contexts", 0) \in Frame
      BY <1>1, <2>1, NewFrameType
    <2>3. NewFrame("value", control.query, "contexts", 0).owner = "value"
      BY DEF NewFrame
    <2>4. QED
      BY <1>20, <2>2, <2>3 DEF DeclarationEnter, Restacked
  <1>21. CASE VisitEnter
    <2>1. control.query \in Query
      BY <1>21 DEF VisitEnter, IInv, StackDiscipline, CallsNest
    <2>2. NewFrame("visit", control.query, "operands", 0) \in Frame
      BY <1>1, <2>1, NewFrameType
    <2>3. QED
      BY <1>21, <2>2 DEF VisitEnter, Restacked
  <1>22. QED
    BY <1>3, <1>4, <1>10, <1>11, <1>12, <1>13, <1>14, <1>15, <1>16, <1>17, <1>18,
       <1>19, <1>20, <1>21 DEF Evaluate

LEMMA VisitsAreRequiredStep ==
    ASSUME IInv, VisitsAreRequired, [Next]_vars
    PROVE  VisitsAreRequired'
  <1>1. CASE Evaluate
    BY <1>1, EvaluateRestacks, RestackedKeeps
  <1>2. CASE Check
    <2>1. ASSUME NEW owner, NEW q, NEW stage, NEW step, StartRoot(owner, q, stage, step),
                 owner = "require" => phase = "required",
                 owner \in Root
          PROVE  VisitsAreRequired'
      <3>1. frames' = <<NewFrame(owner, q, stage, 0)>> /\ phase' = phase
        BY <2>1 DEF StartRoot, session
      <3>2. DOMAIN frames' = {1} /\ frames'[1].owner = owner
        BY <3>1 DEF NewFrame
      <3>3. QED
        BY <2>1, <3>1, <3>2 DEF VisitsAreRequired, Root
    <2>2. ASSUME NEW q \in Query,
                 \/ RequireTypeNode(q) \/ DemandType(q) \/ CheckDeclarator(q)
                 \/ FlushOrigin(q) \/ SummariseValue(q) \/ SummariseExport(q)
          PROVE  VisitsAreRequired'
      BY <2>1, <2>2 DEF RequireTypeNode, DemandType, CheckDeclarator, FlushOrigin,
         SummariseValue, SummariseExport, Root
    <2>3. ASSUME \/ \E f \in File : SelectFile(f)
                 \/ \E q \in Query : MarkProvisional(q)
                 \/ NextPass
          PROVE  VisitsAreRequired'
      <3>1. frames' = frames /\ control.pc = "idle"
        BY <2>3 DEF SelectFile, MarkProvisional, NextPass
      <3>2. frames = <<>>
        BY <3>1 DEF IInv, StackDiscipline, CallsNest
      <3>3. DOMAIN frames = {}
        BY <3>2
      <3>4. QED
        BY <3>1, <3>3 DEF VisitsAreRequired
    <2>4. QED
      BY <1>2, <2>2, <2>3 DEF Check
  <1>3. CASE UNCHANGED vars
    BY <1>3 DEF vars, VisitsAreRequired
  <1>4. QED
    BY <1>1, <1>2, <1>3 DEF Next

\* A step that drops or replaces a definitive answer is the end of a visit.
LEMMA AnswerStaysStep ==
    ASSUME IInv, VisitsAreRequired, [Next]_vars,
           NEW q \in Query, forceQueries[q].state = "ready", forceQueries'[q] # forceQueries[q]
    PROVE  /\ forceQueries'[q] = Absent
           /\ phase = "required"
           /\ Running("visit") /\ Top.query = q /\ Top.state # "complete"
  <1>1. TypeOK /\ forceQueries[q] \notin {Absent, Computing}
    BY DEF IInv, Absent, Computing
  <1>2. forceQueries' # forceQueries
    OBVIOUS
  <1>3. ForceEnter \/ FinishForce \/ VisitClose
    BY <1>2 DEF Next, vars, Check, Evaluate, caches, StartRoot, SelectFile, NextPass,
       RequireTypeNode, MarkProvisional, DemandType, CheckDeclarator, FlushOrigin,
       SummariseValue, SummariseExport, CloseDemand, CloseFlush, CloseSummary, CloseRequire,
       ResumeInference, EvaluateBinary, FinishDeclaration, ForceReady, ForceActive,
       ForceOverBudget, EvaluateNonclaim, EvaluateUnproductive, EvaluateDeclaration,
       ForceOperand, ForceShapeChild, EvaluateBody, ResumeForce, NormaliseResult,
       DeclarationOverridden, DeclarationKnown, DeclarationEnter, InferContexts, InferOperand,
       FinishInitializer, PublishDeclarator, VisitAgain, VisitEnter, VisitOperand,
       ResumeVisit, VisitForce
  <1>4. ~ForceEnter
    BY <1>1 DEF ForceEnter, TypeOK
  <1>5. ASSUME FinishForce PROVE FALSE
    <2>1. frames # <<>> /\ Top.owner = "force"
      BY <1>5 DEF FinishForce, IInv, StackDiscipline, CallsNest
    <2>2. Len(frames) \in DOMAIN frames /\ Top = frames[Len(frames)] /\ Top.query \in Query
      BY <1>1, <2>1, PopSeq, LenProperties, TopTypes DEF TypeOK, Top
    <2>3. forceQueries[Top.query] = Computing
      BY <2>1, <2>2 DEF IInv, MarksAreActiveCalls, Owns
    <2>4. q # Top.query
      BY <1>1, <2>3
    <2>5. QED
      BY <1>1, <1>5, <2>4 DEF FinishForce, TypeOK
  <1>6. ASSUME VisitClose
        PROVE  /\ forceQueries'[q] = Absent
               /\ phase = "required"
               /\ Running("visit") /\ Top.query = q /\ Top.state # "complete"
    <2>1. /\ Running("visit") /\ frames # <<>> /\ Top.owner = "visit"
          /\ forceQueries' = Evicted(Top.query, Top.state)
      BY <1>6 DEF VisitClose, Running
    <2>2. Top.state # "complete" /\ q = Top.query /\ forceQueries'[q] = Absent
      BY <1>1, <1>2, <2>1 DEF Evicted, TypeOK
    <2>3. Len(frames) \in DOMAIN frames /\ Top = frames[Len(frames)]
      BY <1>1, <2>1, PopSeq, LenProperties DEF TypeOK, Top
    <2>4. phase = "required"
      BY <2>1, <2>3 DEF VisitsAreRequired
    <2>5. QED
      BY <2>1, <2>2, <2>4
  <1>7. QED
    BY <1>3, <1>4, <1>5, <1>6

\* force_deferred never evaluates a query that has a definitive answer, and only
\* the visit that found an operand of the same query incomplete drops it
\* (visit_required_deferred): after the required-type pass every answer stays.
THEOREM AnswersStay == Spec => ReadyAnswersStay
  <1>1. Init => VisitsAreRequired
    BY DEF Init, VisitsAreRequired
  <1>2. IInv /\ VisitsAreRequired /\ [Next]_vars => VisitsAreRequired'
    BY VisitsAreRequiredStep
  <1>3. IInv /\ VisitsAreRequired /\ [Next]_vars
          => [\A q \in Query :
                forceQueries[q].state = "ready" /\ forceQueries'[q] # forceQueries[q] =>
                    /\ forceQueries'[q] = Absent
                    /\ phase = "required"
                    /\ Running("visit") /\ Top.query = q /\ Top.state # "complete"]_vars
    BY AnswerStaysStep
  <1>4. QED
    BY <1>1, <1>2, <1>3, Inductive, PTL DEF Spec, ReadyAnswersStay

-----------------------------------------------------------------------------
(***************************************************************************)
(* The caches are pure.  An answer is a meaning if every capture it was      *)
(* computed under is clean, so the invariant says of every call on the stack *)
(* what it has been given so far, and of the call on top what it is about    *)
(* to answer.                                                               *)
(***************************************************************************)

\* The meaning of a query: the rules its definition closes under, and what it takes to
\* keep it.

\* The queries with a meaning.
Known(p, o) == {r \in Query : HasMeaning(p, o, r)}

\* All that the evaluation of q needs has a meaning.
Founded(p, o, q) == Grounded(p, Known(p, o), q)

LEMMA MeaningRule ==
    ASSUME NEW p, NEW o, NEW q \in Query, Founded(p, o, q),
           Yield(p, o, q) \in Known(p, o) \cup (Plain \cup Faulty)
    PROVE  HasMeaning(p, o, q)
  <1> SUFFICES ASSUME NEW S \in SUBSET Query,
                      \A r \in Query : Grounded(p, S, r) /\ Yield(p, o, r) \in S \cup (Plain \cup Faulty)
                                          => r \in S
               PROVE  q \in S
    BY DEF HasMeaning
  <1>1. Known(p, o) \subseteq S
    BY DEF Known, HasMeaning
  <1>2. Grounded(p, S, q)
    BY <1>1 DEF Founded, Grounded
  <1> QED BY <1>1, <1>2

LEMMA LeadsRule ==
    ASSUME NEW p, NEW o, NEW q \in Query, NEW t,
           Yield(p, o, q) = t \/ (Yield(p, o, q) \in Query /\ Leads(p, o, Yield(p, o, q), t))
    PROVE  Leads(p, o, q, t)
  BY DEF Leads

\* Whatever types contexts give to parameters, the same queries have a meaning.
LEMMA MeaningStays ==
    ASSUME NEW p, NEW o, NEW u, NEW q \in Query, HasMeaning(p, o, q),
           \A r \in Query : p.kind[r] = "parameter" =>
               Yield(p, o, r) \in Plain /\ Yield(p, u, r) \in Plain
    PROVE  HasMeaning(p, u, q)
  <1> SUFFICES ASSUME NEW S \in SUBSET Query,
                      \A r \in Query : Grounded(p, S, r) /\ Yield(p, u, r) \in S \cup (Plain \cup Faulty)
                                          => r \in S
               PROVE  q \in S
    BY DEF HasMeaning
  <1>1. ASSUME NEW r \in Query, Grounded(p, S, r), Yield(p, o, r) \in S \cup (Plain \cup Faulty)
        PROVE  r \in S
    <2>1. CASE p.kind[r] = "parameter"
      BY <1>1, <2>1
    <2>2. CASE p.kind[r] # "parameter"
      BY <1>1, <2>2 DEF Yield
    <2> QED BY <2>1, <2>2
  <1> QED BY <1>1 DEF HasMeaning

\* ... and what yields no type of such a parameter leads where it led.
LEMMA LeadsStays ==
    ASSUME NEW p, NEW o, NEW u, NEW q \in Query, NEW t, Leads(p, o, q, t),
           Query \cap Plain = {},
           ~YieldsContextual(p, q),
           \A r \in Query : p.kind[r] = "parameter" => Yield(p, o, r) \in Plain,
           \A r \in Query : r \notin Contextual(p) => u[r] = o[r]
    PROVE  Leads(p, u, q, t)
  <1> DEFINE W == {r \in Query : YieldsContextual(p, r) \/ Leads(p, u, r, t)}
  <1>1. ASSUME NEW r \in Query, Yield(p, o, r) \in W \cup {t}
        PROVE  r \in W
    <2>1. CASE YieldsContextual(p, r)
      BY <2>1
    <2>2. CASE ~YieldsContextual(p, r)
      <3>1. r \notin Contextual(p)
        BY <2>2 DEF YieldsContextual
      <3>2. Yield(p, u, r) = Yield(p, o, r)
        BY <3>1 DEF Yield, ParameterType
      <3>3. CASE Yield(p, o, r) = t
        BY <3>2, <3>3, LeadsRule
      <3>4. CASE Yield(p, o, r) \in W
        <4>1. Yield(p, o, r) = p.body[r] /\ p.body[r] \in Query
          BY <3>4 DEF Yield
        <4>2. ~YieldsContextual(p, p.body[r])
          BY <2>2, <4>1 DEF YieldsContextual
        <4>3. Leads(p, u, p.body[r], t)
          BY <3>4, <4>1, <4>2
        <4> QED BY <3>2, <4>1, <4>3, LeadsRule
      <3> QED BY <1>1, <3>3, <3>4
    <2> QED BY <2>1, <2>2
  <1>2. q \in W
    <2> HIDE DEF W
    <2>1. W \in SUBSET Query
      BY DEF W
    <2> QED BY <1>1, <2>1 DEF Leads
  <1> QED BY <1>2

-----------------------------------------------------------------------------
LEMMA IntervalSize ==
    ASSUME NEW a \in Int, NEW b \in Int, a <= b + 1
    PROVE  IsFiniteSet(a..b) /\ Cardinality(a..b) = b - a + 1
  <1>1. IsFiniteSet(a..b) /\ Cardinality(a..b) = IF a > b THEN 0 ELSE b - a + 1
    BY FS_Interval
  <1>2. a > b => b - a + 1 = 0
    OBVIOUS
  <1> QED BY <1>1, <1>2

\* The open captures are those of the calls on top.
LEMMA Alignment ==
    ASSUME IInv
    PROVE  /\ Len(captures) \in Nat /\ Len(frames) \in Nat /\ Len(captures) <= Len(frames)
           /\ DOMAIN frames = 1..Len(frames) /\ DOMAIN captures = 1..Len(captures)
           /\ \A i \in 1..Len(frames) : Opens(frames[i]) <=> i > Len(frames) - Len(captures)
  <1> DEFINE n == Len(frames)
             S == OpenCaptures(frames)
             c == Len(captures)
  <1>1. /\ frames \in Seq(Frame) /\ captures \in Seq(Completion)
        /\ DOMAIN frames = 1..n /\ n \in Nat /\ c \in Nat /\ DOMAIN captures = 1..c
    BY LenProperties DEF IInv, TypeOK
  <1>2. S \subseteq 1..n /\ IsFiniteSet(S) /\ Cardinality(S) \in Nat /\ c = Cardinality(S)
    BY <1>1, OpenFinite DEF OpenCaptures, IInv, MarksAreActiveCalls
  <1>3. \A i \in 1..n : i \in S <=> Opens(frames[i])
    BY <1>1 DEF OpenCaptures
  <1>4. ASSUME NEW i \in 1..n, NEW j \in 1..n, Opens(frames[i]), i < j
        PROVE  Opens(frames[j])
    <2>1. frames[j].owner \notin Root /\ frames[j] \in Frame
      BY <1>1, <1>4, ElementOfSeq DEF IInv, StackDiscipline, CallsNest
    <2>2. frames[j].owner # "visit"
      <3>1. frames[i].owner \notin {"visit", "require"}
        BY <1>4 DEF Opens
      <3>2. i \in 1..j
        BY <1>4
      <3> QED BY <1>1, <3>1, <3>2 DEF IInv, StackDiscipline, VisitsComeFirst
    <2> QED BY <2>1, <2>2 DEF Frame, Opens
  <1> HIDE DEF n, S, c
  <1>5. ASSUME NEW i \in 1..n, i \in S
        PROVE  i > n - c
    <2>1. i..n \subseteq S
      BY <1>1, <1>3, <1>4, <1>5
    <2>2. Cardinality(i..n) = n - i + 1
      BY <1>1, IntervalSize
    <2>3. Cardinality(i..n) <= Cardinality(S)
      BY <1>2, <2>1, FS_Subset
    <2> QED BY <1>1, <1>2, <2>2, <2>3
  <1>6. ASSUME NEW i \in 1..n, i \notin S
        PROVE  ~(i > n - c)
    <2>1. S \subseteq (i + 1)..n
      <3> SUFFICES ASSUME NEW j \in S PROVE j \in (i + 1)..n
        OBVIOUS
      <3>1. j \in 1..n /\ Opens(frames[j]) /\ ~Opens(frames[i])
        BY <1>2, <1>3, <1>6
      <3>2. i # j /\ ~(j < i)
        BY <1>4, <3>1
      <3> QED BY <1>1, <3>1, <3>2
    <2>2. IsFiniteSet((i + 1)..n) /\ Cardinality((i + 1)..n) = n - i
      <3>1. i + 1 \in Int /\ n \in Int /\ i + 1 <= n + 1 /\ n - (i + 1) + 1 = n - i
        BY <1>1
      <3> QED BY <3>1, IntervalSize
    <2>3. Cardinality(S) <= n - i
      BY <2>1, <2>2, FS_Subset
    <2> QED BY <1>1, <1>2, <2>3
  <1>7. c <= n
    <2>1. IsFiniteSet(1..n) /\ Cardinality(1..n) = n
      <3>1. n \in Int /\ 1 <= n + 1 /\ n - 1 + 1 = n
        BY <1>1
      <3> QED BY <3>1, IntervalSize
    <2>2. Cardinality(S) <= Cardinality(1..n)
      BY <1>2, <2>1, FS_Subset
    <2> QED BY <1>2, <2>1, <2>2
  <1> QED BY <1>1, <1>3, <1>5, <1>6, <1>7 DEF n, c, S

-----------------------------------------------------------------------------
(***************************************************************************)
(* The inductive invariant of the caches.  Its parts are predicates of the   *)
(* program p, the contextual types o, the set K of queries with a meaning,   *)
(* the calls fs and the captures caps, so that a step which changes none of  *)
(* them keeps the part.                                                      *)
(***************************************************************************)

\* A call uses the answer it waits for; a visit, a summary and a relation only look at
\* its verdict.
Uses(f) ==
    \/ f.owner \in {"demand", "flush", "force", "value"}
    \/ f.owner = "declarator" /\ f.stage \in {"contexts", "operands"}

Declares(f) == f.owner = "force" /\ f.stage = "declaration"

\* The query a call waits for.
Awaits(p, f, q) ==
    \/ f.owner \in {"demand", "flush"} /\ q = f.query
    \/ Declares(f) /\ q = f.query
    \/ f.owner = "force" /\ f.stage = "result" /\ q = p.body[f.query]
    \/ /\ f.owner \in {"force", "value", "declarator"} /\ f.stage = "operands"
       /\ f.next - 1 \in DOMAIN p.operands[f.query]
       /\ q = p.operands[f.query][f.next - 1]

\* Each call was made for what the call below waits for.
Linked(p, fs) ==
    \A i \in 1..(Len(fs) - 1) : Uses(fs[i]) =>
        /\ fs[i + 1].owner = IF Declares(fs[i]) THEN "value" ELSE "force"
        /\ Awaits(p, fs[i], fs[i + 1].query)

\* What the owner, the stage and the query of a call say of each other.
WellStaged(p, o, f) ==
    /\ f.owner = "force" =>
          /\ f.local = QueryLocal(p, f.query)
          /\ f.stage \in {"operands", "declaration", "result"}
          /\ f.stage = "declaration" => p.kind[f.query] \in {"value", "parameter"}
          /\ f.stage = "result" => p.kind[f.query] # "parameter"
    /\ f.owner = "value" =>
          /\ p.kind[f.query] \in {"value", "parameter"}
          /\ f.stage \in {"contexts", "operands"}
          /\ p.kind[f.query] = "parameter" => o[f.query] = None
    /\ f.owner = "declarator" =>
          /\ p.kind[f.query] = "value"
          /\ f.stage \in {"contexts", "operands", "relation", "publish"}
    /\ f.stage = "contexts" => f.next = 1

\* As long as its capture is clean, a call has had the meaning of every operand before n.
Gathered(p, K, f, clean, n) ==
    /\ /\ f.owner \in {"force", "value", "declarator"} /\ f.stage \in {"contexts", "operands"} /\ clean
       /\ f.owner = "force" /\ p.kind[f.query] = "binary" => f.state = "complete"
       => \A j \in DOMAIN p.operands[f.query] : j < n => p.operands[f.query][j] \in K
    /\ f.owner = "force" /\ f.stage = "result" /\ clean => Grounded(p, K, f.query)
    /\ f.owner = "declarator" /\ f.stage \in {"relation", "publish"} /\ f.state = "complete"
       => Grounded(p, K, f.query)

Clean(fs, caps, i) == Opens(fs[i]) /\ caps[i - (Len(fs) - Len(caps))] = "complete"
Seen(f, running) == IF running THEN f.next ELSE f.next - 1

Gathering(p, K, fs, caps, running) ==
    \A i \in 1..Len(fs) :
        Gathered(p, K, fs[i], Clean(fs, caps, i), Seen(fs[i], i = Len(fs) /\ running))

CallsAreSound(p, o, K, fs, caps, running) ==
    /\ Linked(p, fs)
    /\ \A i \in 1..Len(fs) : WellStaged(p, o, fs[i])
    /\ Gathering(p, K, fs, caps, running)

\* The captures are those of the calls on top of the stack.
Aligned(fs, caps) ==
    /\ Len(caps) <= Len(fs)
    /\ \A i \in 1..Len(fs) : Opens(fs[i]) <=> i > Len(fs) - Len(caps)

-----------------------------------------------------------------------------
\* How the three ways to move the stack keep it sound.

LEMMA ReplaceKeeps ==
    ASSUME NEW p, NEW o, NEW K, NEW fs \in Seq(Frame), NEW caps \in Seq(Completion),
           NEW running \in BOOLEAN, CallsAreSound(p, o, K, fs, caps, running), Aligned(fs, caps),
           fs # <<>>, NEW g \in Frame, NEW after \in Seq(Completion), NEW runs \in BOOLEAN,
           g.owner = fs[Len(fs)].owner, g.query = fs[Len(fs)].query,
           Len(after) = Len(caps), \A k \in 1..(Len(caps) - 1) : after[k] = caps[k],
           WellStaged(p, o, g),
           Gathered(p, K, g, Opens(g) /\ after[Len(after)] = "complete", Seen(g, runs))
    PROVE  CallsAreSound(p, o, K, [fs EXCEPT ![Len(fs)] = g], after, runs)
  <1> DEFINE n == Len(fs)
             c == Len(caps)
             gs == [fs EXCEPT ![n] = g]
  <1>1. /\ n \in Nat \ {0} /\ c \in Nat /\ Len(gs) = n /\ Len(after) = c
        /\ \A i \in 1..(n - 1) : gs[i] = fs[i]
        /\ gs[n] = g /\ gs \in Seq(Frame)
    BY ReplaceSeq, LenProperties
  <1>2. /\ g.owner = fs[n].owner /\ g.query = fs[n].query
        /\ \A i \in 1..n : Opens(fs[i]) <=> i > n - c
        /\ c <= n
    BY DEF Aligned
  <1> HIDE DEF n, c, gs
  <1>3. Linked(p, gs)
    <2> SUFFICES ASSUME NEW i \in 1..(n - 1), Uses(gs[i])
                 PROVE  /\ gs[i + 1].owner = IF Declares(gs[i]) THEN "value" ELSE "force"
                        /\ Awaits(p, gs[i], gs[i + 1].query)
      BY <1>1 DEF Linked
    <2>1. gs[i + 1].owner = fs[i + 1].owner /\ gs[i + 1].query = fs[i + 1].query
      <3>1. i + 1 \in 1..(n - 1) \/ i + 1 = n
        BY <1>1
      <3> QED BY <1>1, <1>2, <3>1
    <2>2. gs[i] = fs[i]
      BY <1>1
    <2> QED BY <2>1, <2>2 DEF CallsAreSound, Linked, n
  <1>4. ASSUME NEW i \in 1..n PROVE WellStaged(p, o, gs[i])
    <2>1. CASE i = n
      BY <1>1, <2>1
    <2>2. CASE i # n
      BY <1>1, <2>2 DEF CallsAreSound, n
    <2> QED BY <2>1, <2>2
  <1>5. ASSUME NEW i \in 1..n
        PROVE  Gathered(p, K, gs[i], Clean(gs, after, i), Seen(gs[i], i = n /\ runs))
    <2>1. CASE i = n
      <3>1. i - (n - c) = c
        BY <1>1, <2>1
      <3>2. Clean(gs, after, i) = (Opens(g) /\ after[Len(after)] = "complete")
        BY <1>1, <2>1, <3>1 DEF Clean
      <3>3. Seen(gs[i], i = n /\ runs) = Seen(g, runs)
        BY <1>1, <2>1 DEF Seen
      <3> QED BY <1>1, <2>1, <3>2, <3>3
    <2>2. CASE i # n
      <3>1. gs[i] = fs[i]
        BY <1>1, <2>2
      <3>2. Opens(fs[i]) => i - (n - c) \in 1..(c - 1)
        BY <1>1, <1>2, <2>2
      <3>3. Clean(gs, after, i) = Clean(fs, caps, i)
        <4>1. Opens(fs[i]) => after[i - (n - c)] = caps[i - (n - c)]
          BY <3>2 DEF c
        <4> QED BY <1>1, <3>1, <4>1 DEF Clean, n, c
      <3>4. Gathered(p, K, fs[i], Clean(fs, caps, i), Seen(fs[i], i = n /\ running))
        BY DEF CallsAreSound, Gathering, n
      <3>5. Seen(gs[i], i = n /\ runs) = Seen(fs[i], i = n /\ running)
        BY <2>2, <3>1 DEF Seen
      <3> QED BY <3>1, <3>3, <3>4, <3>5
    <2> QED BY <2>1, <2>2
  <1>6. Gathering(p, K, gs, after, runs)
    BY <1>1, <1>5 DEF Gathering
  <1> QED BY <1>1, <1>3, <1>4, <1>6 DEF CallsAreSound, gs, n

\* What a call has seen of its operands holds of fewer.
LEMMA GatheredBefore ==
    ASSUME NEW p, NEW K, NEW f \in Frame, NEW clean, Gathered(p, K, f, clean, f.next),
           p.operands[f.query] \in Seq(Query)
    PROVE  Gathered(p, K, f, clean, f.next - 1)
  <1>1. f.next \in Nat
    BY DEF Frame
  <1>2. DOMAIN p.operands[f.query] \subseteq Nat
    BY LenProperties
  <1>3. \A j \in DOMAIN p.operands[f.query] : j < f.next - 1 => j < f.next
    BY <1>1, <1>2
  <1> QED BY <1>3 DEF Gathered

LEMMA SeenBefore ==
    ASSUME NEW p, NEW K, NEW f \in Frame, NEW clean, NEW running \in BOOLEAN,
           Gathered(p, K, f, clean, Seen(f, running)), p.operands[f.query] \in Seq(Query)
    PROVE  Gathered(p, K, f, clean, Seen(f, FALSE))
  BY GatheredBefore DEF Seen

\* A call that waits, or answers, has gone past one operand less than one that runs.
LEMMA WaitsKeeps ==
    ASSUME NEW p, NEW o, NEW K, NEW fs \in Seq(Frame), NEW caps,
           NEW running \in BOOLEAN, CallsAreSound(p, o, K, fs, caps, running),
           \A q \in Query : p.operands[q] \in Seq(Query)
    PROVE  CallsAreSound(p, o, K, fs, caps, FALSE)
  <1>1. ASSUME NEW i \in 1..Len(fs)
        PROVE  Gathered(p, K, fs[i], Clean(fs, caps, i), Seen(fs[i], i = Len(fs) /\ FALSE))
    <2>1. Gathered(p, K, fs[i], Clean(fs, caps, i), Seen(fs[i], i = Len(fs) /\ running))
      BY DEF CallsAreSound, Gathering
    <2>2. fs[i] \in Frame
      BY ElementOfSeq
    <2>a. p.operands[fs[i].query] \in Seq(Query)
      BY <2>2 DEF Frame
    <2>3. (i = Len(fs) /\ running) \in BOOLEAN /\ (i = Len(fs) /\ FALSE) = FALSE
      OBVIOUS
    <2> QED BY <2>1, <2>2, <2>a, <2>3, SeenBefore
  <1> QED BY <1>1 DEF CallsAreSound, Gathering

LEMMA PushKeeps ==
    ASSUME NEW p, NEW o, NEW K, NEW fs \in Seq(Frame), NEW caps \in Seq(Completion),
           CallsAreSound(p, o, K, fs, caps, FALSE), Aligned(fs, caps),
           NEW g \in Frame, NEW after \in Seq(Completion), NEW runs \in BOOLEAN,
           fs # <<>> /\ Uses(fs[Len(fs)]) =>
               /\ g.owner = IF Declares(fs[Len(fs)]) THEN "value" ELSE "force"
               /\ Awaits(p, fs[Len(fs)], g.query),
           IF Opens(g) THEN after = Append(caps, "complete") ELSE after = caps /\ caps = <<>>,
           WellStaged(p, o, g),
           Gathered(p, K, g, Opens(g), Seen(g, runs))
    PROVE  CallsAreSound(p, o, K, Append(fs, g), after, runs)
  <1> DEFINE n == Len(fs)
             c == Len(caps)
             gs == Append(fs, g)
  <1>1. /\ n \in Nat /\ c \in Nat /\ Len(gs) = n + 1
        /\ \A i \in 1..n : gs[i] = fs[i]
        /\ gs[n + 1] = g /\ gs \in Seq(Frame)
    BY PushSeq, LenProperties
  <1>2. c <= n /\ \A i \in 1..n : Opens(fs[i]) <=> i > n - c
    BY DEF Aligned
  <1>3. Opens(g) => Len(after) = c + 1 /\ after[c + 1] = "complete" /\ \A k \in 1..c : after[k] = caps[k]
    BY PushSeq DEF Completion
  <1>4. ~Opens(g) => Len(after) = 0 /\ c = 0
    OBVIOUS
  <1>5. n # 0 => fs # <<>>
    OBVIOUS
  <1> HIDE DEF n, c, gs
  <1>6. Linked(p, gs)
    <2> SUFFICES ASSUME NEW i \in 1..n, Uses(gs[i])
                 PROVE  /\ gs[i + 1].owner = IF Declares(gs[i]) THEN "value" ELSE "force"
                        /\ Awaits(p, gs[i], gs[i + 1].query)
      BY <1>1 DEF Linked
    <2>1. gs[i] = fs[i]
      BY <1>1
    <2>2. CASE i = n
      <3>1. gs[i] = fs[Len(fs)] /\ gs[i + 1] = g /\ fs # <<>>
        BY <1>1, <1>5, <2>1, <2>2 DEF n
      <3> QED BY <3>1
    <2>3. CASE i # n
      <3>1. i \in 1..(n - 1) /\ gs[i + 1] = fs[i + 1]
        BY <1>1, <2>3
      <3> QED BY <2>1, <3>1 DEF CallsAreSound, Linked, n
    <2> QED BY <2>2, <2>3
  <1>7. ASSUME NEW i \in 1..(n + 1) PROVE WellStaged(p, o, gs[i])
    <2>1. CASE i = n + 1
      BY <1>1, <2>1
    <2>2. CASE i # n + 1
      <3>1. i \in 1..n
        BY <1>1, <2>2
      <3> QED BY <1>1, <3>1 DEF CallsAreSound, n
    <2> QED BY <2>1, <2>2
  <1>8. ASSUME NEW i \in 1..(n + 1)
        PROVE  Gathered(p, K, gs[i], Clean(gs, after, i), Seen(gs[i], i = n + 1 /\ runs))
    <2>1. CASE i = n + 1
      <3>1. Opens(g) => i - ((n + 1) - Len(after)) = c + 1
        BY <1>1, <1>3, <2>1
      <3>2. Clean(gs, after, i) = Opens(g)
        BY <1>1, <1>3, <2>1, <3>1 DEF Clean, Opens
      <3>3. Seen(gs[i], i = n + 1 /\ runs) = Seen(g, runs)
        BY <1>1, <2>1 DEF Seen
      <3> QED BY <1>1, <2>1, <3>2, <3>3
    <2>2. CASE i # n + 1
      <3>1. i \in 1..n /\ gs[i] = fs[i]
        BY <1>1, <2>2
      <3>2. Clean(gs, after, i) = Clean(fs, caps, i)
        <4>1. CASE Opens(fs[i])
          <5>0. i \in Nat /\ n \in Nat /\ c \in Nat /\ i <= n /\ i > n - c
            BY <1>1, <1>2, <3>1, <4>1
          <5>1. i - (n - c) \in 1..c
            BY <5>0
          <5>2. Opens(g)
            <6>1. c # 0
              BY <5>0
            <6> QED BY <1>4, <6>1
          <5>3. i - ((n + 1) - Len(after)) = i - (n - c)
            <6>1. Len(after) = c + 1
              BY <1>3, <5>2
            <6> QED BY <5>0, <6>1
          <5>4. after[i - (n - c)] = caps[i - (n - c)]
            BY <1>3, <5>1, <5>2
          <5> QED BY <1>1, <3>1, <5>3, <5>4 DEF Clean, n, c
        <4>2. CASE ~Opens(fs[i])
          BY <3>1, <4>2 DEF Clean
        <4> QED BY <4>1, <4>2
      <3>3. Gathered(p, K, fs[i], Clean(fs, caps, i), Seen(fs[i], i = n /\ FALSE))
        BY <3>1 DEF CallsAreSound, Gathering, n
      <3>4. Seen(gs[i], i = n + 1 /\ runs) = Seen(fs[i], i = n /\ FALSE)
        BY <2>2, <3>1 DEF Seen
      <3> QED BY <3>1, <3>2, <3>3, <3>4
    <2> QED BY <2>1, <2>2
  <1>9. Gathering(p, K, gs, after, runs)
    BY <1>1, <1>8 DEF Gathering
  <1> QED BY <1>1, <1>6, <1>7, <1>9 DEF CallsAreSound, gs, n

\* What a call returns to has at least the taint of its own capture.
LEMMA PopKeeps ==
    ASSUME NEW p, NEW o, NEW K, NEW fs \in Seq(Frame), NEW caps \in Seq(Completion),
           CallsAreSound(p, o, K, fs, caps, FALSE), Aligned(fs, caps), fs # <<>>,
           NEW after \in Seq(Completion),
           Len(after) = IF Opens(fs[Len(fs)]) THEN Len(caps) - 1 ELSE Len(caps),
           \A k \in 1..Len(after) : after[k] = "complete" => caps[k] = "complete"
    PROVE  CallsAreSound(p, o, K, SubSeq(fs, 1, Len(fs) - 1), after, FALSE)
  <1> DEFINE n == Len(fs)
             c == Len(caps)
             gs == SubSeq(fs, 1, n - 1)
  <1>1. /\ n \in Nat \ {0} /\ c \in Nat /\ Len(gs) = n - 1 /\ Len(after) \in Nat
        /\ \A i \in 1..(n - 1) : gs[i] = fs[i]
    BY PopSeq, LenProperties
  <1>2. c <= n /\ \A i \in 1..n : Opens(fs[i]) <=> i > n - c
    BY DEF Aligned
  <1>3. Len(after) = IF Opens(fs[n]) THEN c - 1 ELSE c
    OBVIOUS
  <1> HIDE DEF n, c, gs
  <1>4. Linked(p, gs)
    <2> SUFFICES ASSUME NEW i \in 1..(n - 1 - 1), Uses(gs[i])
                 PROVE  /\ gs[i + 1].owner = IF Declares(gs[i]) THEN "value" ELSE "force"
                        /\ Awaits(p, gs[i], gs[i + 1].query)
      BY <1>1 DEF Linked
    <2>1. i \in 1..(n - 1) /\ gs[i] = fs[i] /\ gs[i + 1] = fs[i + 1]
      BY <1>1
    <2> QED BY <2>1 DEF CallsAreSound, Linked, n
  <1>5. ASSUME NEW i \in 1..(n - 1) PROVE WellStaged(p, o, gs[i])
    <2>1. i \in 1..n /\ gs[i] = fs[i]
      BY <1>1
    <2> QED BY <2>1 DEF CallsAreSound, n
  <1>6. ASSUME NEW i \in 1..(n - 1)
        PROVE  Gathered(p, K, gs[i], Clean(gs, after, i), Seen(gs[i], i = n - 1 /\ FALSE))
    <2>1. i \in 1..n /\ gs[i] = fs[i]
      BY <1>1
    <2>2. Clean(gs, after, i) => Clean(fs, caps, i)
      <3> SUFFICES ASSUME Clean(gs, after, i) PROVE Clean(fs, caps, i)
        OBVIOUS
      <3>1. Opens(fs[i]) /\ after[i - (n - 1 - Len(after))] = "complete"
        BY <1>1, <2>1 DEF Clean
      <3>0. i \in Nat /\ n \in Nat /\ c \in Nat /\ i <= n /\ n \in 1..n
        BY <1>1, <2>1
      <3>a. i > n - c
        BY <1>2, <2>1, <3>1
      <3>2. i > n - c /\ n > n - c
        BY <3>0, <3>a
      <3>3. Len(after) = c - 1
        BY <1>2, <1>3, <3>0, <3>2
      <3>4. i - (n - 1 - Len(after)) = i - (n - c) /\ i - (n - c) \in 1..Len(after)
        <4>1. i > n - c /\ i <= n - 1 /\ i \in Nat
          BY <1>1, <3>2
        <4>2. n - 1 - Len(after) = n - c
          <5>1. n - 1 - (c - 1) = n - c
            BY <3>0
          <5> QED BY <3>3, <5>1
        <4>3. i - (n - c) \in 1..(c - 1)
          BY <3>0, <4>1
        <4> QED BY <3>3, <4>2, <4>3
      <3>5. caps[i - (n - c)] = "complete"
        BY <3>1, <3>4
      <3> QED BY <3>1, <3>5 DEF Clean, n, c
    <2>3. Gathered(p, K, fs[i], Clean(fs, caps, i), Seen(fs[i], i = n /\ FALSE))
      BY <2>1 DEF CallsAreSound, Gathering, n
    <2>4. Seen(gs[i], i = n - 1 /\ FALSE) = Seen(fs[i], i = n /\ FALSE)
      BY <2>1 DEF Seen
    <2> QED BY <2>1, <2>2, <2>3, <2>4 DEF Gathered
  <1>7. Gathering(p, K, gs, after, FALSE)
    BY <1>1, <1>6 DEF Gathering
  <1> QED BY <1>1, <1>4, <1>5, <1>7 DEF CallsAreSound, gs, n

-----------------------------------------------------------------------------
\* What the call on top of the stack has seen is untainted.
Untainted(caps, verdict) == IF caps = <<>> THEN verdict = "complete" ELSE Captured(caps) = "complete"

\* A taint shows in the verdict under which the demand was made.
TaintsShow(caps, verdict) == verdict = "complete" => \A k \in 1..Len(caps) : caps[k] = "complete"

\* What the evaluator does next for the call f on top, where clean says that f is untainted.
ControlIsSound(p, o, f, c, clean) ==
    /\ c.pc \in {"force", "declaration"} /\ Uses(f) =>
          c.pc = (IF Declares(f) THEN "declaration" ELSE "force") /\ Awaits(p, f, c.query)
    /\ c.pc = "run" /\ f.owner = "force" => f.stage = "operands"
    /\ c.pc = "declaration" => p.kind[c.query] \in {"value", "parameter"}
    /\ c.pc = "normalise" /\ IsComplete(c.answer) =>
          /\ c.answer.type = Yield(p, o, f.query)
          /\ clean => Founded(p, o, f.query)
    /\ c.pc = "finish" /\ IsComplete(c.answer) /\ clean => Means(p, o, f.query, c.answer.type)
    /\ c.pc = "return" /\ Uses(f) =>
          \E q \in Query :
              /\ Awaits(p, f, q)
              /\ IsComplete(c.answer) /\ Declares(f) =>
                    c.answer.type = Yield(p, o, q) /\ (clean => Founded(p, o, q))
              /\ IsComplete(c.answer) /\ ~Declares(f) /\ clean => Means(p, o, q, c.answer.type)

\* Only parameters have contextual types, and none of these is deferred.
OverridesAreSound(p, o) ==
    \A q \in Query : o[q] # None => p.kind[q] = "parameter" /\ o[q] \in Plain

\* What is remembered of a declaration is what it yields, and all it needs has a meaning.
ValuesAreSound(p, o, values) ==
    \A q \in Query :
        /\ values[q].state = "provisional" => p.kind[q] = "parameter"
        /\ values[q].state = "ready" =>
              /\ p.kind[q] \in {"value", "parameter"}
              /\ values[q].type = p.body[q] /\ p.body[q] \in Plain
              /\ Founded(p, o, q)

\* What is remembered of a query is its meaning, and no context can change it.
ForcesAreSound(p, o, forces) ==
    \A q \in Query : forces[q].state = "ready" =>
        /\ forces[q].type \in Plain /\ Means(p, o, q, forces[q].type)
        /\ ~QueryLocal(p, q)

Pure ==
    /\ ContextualTypesAreLocal(prog)
    /\ OverridesAreSound(prog, parameterOverrides)
    /\ ValuesAreSound(prog, parameterOverrides, valueQueries)
    /\ ForcesAreSound(prog, parameterOverrides, forceQueries)
    /\ TaintsShow(captures, Verdict)
    /\ CallsAreSound(prog, parameterOverrides, Known(prog, parameterOverrides), frames, captures,
                     control.pc = "run")
    /\ frames # <<>> =>
          ControlIsSound(prog, parameterOverrides, Top, control, Untainted(captures, Verdict))

-----------------------------------------------------------------------------
\* The captures and the verdict together.

LEMMA CombineClean ==
    ASSUME NEW c \in Completion, NEW d \in Completion
    PROVE  Combine(c, d) = "complete" <=> c = "complete" /\ d = "complete"
  BY DEF Combine, Rank, Completion

LEMMA CaptureClean ==
    ASSUME NEW caps \in Seq(Completion), NEW c \in Completion
    PROVE  /\ Capture(caps, c) \in Seq(Completion) /\ Len(Capture(caps, c)) = Len(caps)
           /\ \A k \in 1..(Len(caps) - 1) : Capture(caps, c)[k] = caps[k]
           /\ caps # <<>> => (Captured(Capture(caps, c)) = "complete"
                                <=> Captured(caps) = "complete" /\ c = "complete")
           /\ \A k \in 1..Len(caps) : /\ Capture(caps, c)[k] = "complete" => caps[k] = "complete"
                                      /\ caps[k] = "complete" /\ c = "complete"
                                           => Capture(caps, c)[k] = "complete"
  <1>1. CASE caps = <<>>
    BY <1>1 DEF Capture
  <1>2. CASE caps # <<>>
    <2> DEFINE n == Len(caps)
               d == Combine(caps[n], c)
               after == [caps EXCEPT ![n] = d]
    <2>1. n \in Nat \ {0} /\ caps[n] \in Completion
      BY <1>2, ReplaceSeq, CombineVerdicts
    <2>2. d \in Completion /\ (d = "complete" <=> caps[n] = "complete" /\ c = "complete")
      BY <2>1, CombineClean, CombineVerdicts
    <2> HIDE DEF d
    <2>3. /\ after \in Seq(Completion) /\ Len(after) = n /\ after[n] = d
          /\ \A k \in 1..(n - 1) : after[k] = caps[k]
      BY <1>2, <2>2, ReplaceSeq
    <2>4. Capture(caps, c) = after
      BY <1>2 DEF Capture, d
    <2> HIDE DEF n, after
    <2>5. Captured(after) = d /\ Captured(caps) = caps[n]
      BY <2>3 DEF Captured, n
    <2>6. \A k \in 1..n : k = n \/ k \in 1..(n - 1)
      BY <2>1
    <2>7. \A k \in 1..n : /\ after[k] = "complete" => caps[k] = "complete"
                          /\ caps[k] = "complete" /\ c = "complete" => after[k] = "complete"
      BY <2>2, <2>3, <2>6
    <2> QED BY <2>2, <2>3, <2>4, <2>5, <2>7 DEF n
  <1> QED BY <1>1, <1>2

LEMMA FinishClean ==
    ASSUME NEW caps \in Seq(Completion), caps # <<>>, NEW verdict, TaintsShow(caps, verdict)
    PROVE  /\ FinishCapture(caps) \in Seq(Completion) /\ Len(FinishCapture(caps)) = Len(caps) - 1
           /\ Captured(caps) \in Completion
           /\ TaintsShow(FinishCapture(caps), verdict)
           /\ Untainted(FinishCapture(caps), verdict) => Captured(caps) = "complete"
           /\ \A k \in 1..(Len(caps) - 1) : FinishCapture(caps)[k] = "complete" => caps[k] = "complete"
  <1> DEFINE below == SubSeq(caps, 1, Len(caps) - 1)
             c == Captured(caps)
  <1>1. /\ below \in Seq(Completion) /\ Len(below) = Len(caps) - 1 /\ Len(caps) \in Nat \ {0}
        /\ c \in Completion /\ c = caps[Len(caps)]
        /\ \A k \in 1..(Len(caps) - 1) : below[k] = caps[k]
    BY PopSeq DEF Captured
  <1>2. FinishCapture(caps) = Capture(below, c)
    BY DEF FinishCapture
  <1> HIDE DEF below, c
  <1>3. /\ Capture(below, c) \in Seq(Completion) /\ Len(Capture(below, c)) = Len(caps) - 1
        /\ below # <<>> => (Captured(Capture(below, c)) = "complete"
                              <=> Captured(below) = "complete" /\ c = "complete")
        /\ \A k \in 1..(Len(caps) - 1) : /\ Capture(below, c)[k] = "complete" => below[k] = "complete"
                                         /\ below[k] = "complete" /\ c = "complete"
                                              => Capture(below, c)[k] = "complete"
    <2>1. 1..Len(below) = 1..(Len(caps) - 1)
      BY <1>1
    <2>2. /\ Capture(below, c) \in Seq(Completion) /\ Len(Capture(below, c)) = Len(below)
          /\ below # <<>> => (Captured(Capture(below, c)) = "complete"
                                <=> Captured(below) = "complete" /\ c = "complete")
          /\ \A k \in 1..Len(below) : /\ Capture(below, c)[k] = "complete" => below[k] = "complete"
                                      /\ below[k] = "complete" /\ c = "complete"
                                           => Capture(below, c)[k] = "complete"
      BY <1>1, CaptureClean
    <2> QED BY <1>1, <2>1, <2>2
  <1>4. verdict = "complete" => c = "complete" /\ \A k \in 1..(Len(caps) - 1) : caps[k] = "complete"
    BY <1>1 DEF TaintsShow
  <1>5. TaintsShow(Capture(below, c), verdict)
    BY <1>1, <1>3, <1>4 DEF TaintsShow
  <1>6. Untainted(Capture(below, c), verdict) => c = "complete"
    <2>1. CASE below = <<>>
      BY <1>4, <2>1 DEF Untainted, Capture
    <2>2. CASE below # <<>>
      <3>1. Capture(below, c) # <<>>
        BY <1>1, <1>3, <2>2, EmptySeq
      <3> QED BY <1>3, <2>2, <3>1 DEF Untainted
    <2> QED BY <2>1, <2>2
  <1> QED BY <1>1, <1>2, <1>3, <1>5, <1>6 DEF c

LEMMA BeginClean ==
    ASSUME NEW caps \in Seq(Completion), NEW verdict, TaintsShow(caps, verdict)
    PROVE  TaintsShow(BeginCapture(caps), verdict) /\ BeginCapture(caps) \in Seq(Completion)
  BY PushSeq DEF TaintsShow, BeginCapture, Completion

\* An observation that leaves the verdict complete was complete itself.
LEMMA WorsenClean ==
    ASSUME NEW fs \in [File -> Completion], NEW f, NEW g \in File, NEW c \in Completion
    PROVE  /\ Worsen(fs, f, c) \in [File -> Completion]
           /\ Worsen(fs, f, c)[g] = "complete" => fs[g] = "complete" /\ (f = g => c = "complete")
  BY CombineClean, CombineVerdicts DEF Worsen

LEMMA ObservedClean ==
    ASSUME TypeOK, NEW c \in Completion, NEW caps, NEW f,
           ObserveCurrent(c) \/ ObserveFile(caps, f, c)
    PROVE  Verdict' = "complete" => Verdict = "complete" /\ c = "complete"
  <1>1. /\ files \in [File -> Completion] /\ programCompletion \in Completion
        /\ current' = current /\ programCompletion' = Combine(programCompletion, c)
    BY DEF TypeOK, ObserveCurrent, ObserveFile
  <1>2. CASE current \in File
    <2>1. \/ files' = Worsen(files, current, c)
          \/ files' = Worsen(Worsen(files, f, c), current, c)
      BY DEF ObserveCurrent, ObserveFile
    <2>2. files'[current] = "complete" => files[current] = "complete" /\ c = "complete"
      <3>1. CASE files' = Worsen(files, current, c)
        BY <1>1, <1>2, <3>1, WorsenClean
      <3>2. CASE files' = Worsen(Worsen(files, f, c), current, c)
        <4> DEFINE gs == Worsen(files, f, c)
        <4>1. gs \in [File -> Completion] /\ (gs[current] = "complete" => files[current] = "complete")
          BY <1>1, <1>2, WorsenClean
        <4> HIDE DEF gs
        <4>2. Worsen(gs, current, c)[current] = "complete" => gs[current] = "complete" /\ c = "complete"
          BY <1>2, <4>1, WorsenClean
        <4> QED BY <3>2, <4>1, <4>2 DEF gs
      <3> QED BY <2>1, <3>1, <3>2
    <2> QED BY <1>1, <1>2, <2>2 DEF Verdict
  <1>3. CASE current \notin File
    BY <1>1, <1>3, CombineClean DEF Verdict
  <1> QED BY <1>2, <1>3

\* What an observation does to the captures and the verdict.
LEMMA ObserveCurrentClean ==
    ASSUME TypeOK, TaintsShow(captures, Verdict), NEW c \in Completion, ObserveCurrent(c)
    PROVE  /\ captures' \in Seq(Completion) /\ Len(captures') = Len(captures)
           /\ \A k \in 1..(Len(captures) - 1) : captures'[k] = captures[k]
           /\ TaintsShow(captures', Verdict')
           /\ Untainted(captures', Verdict') => Untainted(captures, Verdict) /\ c = "complete"
           /\ captures # <<>> => (Captured(captures') = "complete"
                                    <=> Captured(captures) = "complete" /\ c = "complete")
  <1>1. captures \in Seq(Completion) /\ captures' = Capture(captures, c)
    BY DEF TypeOK, ObserveCurrent
  <1>2. Verdict' = "complete" => Verdict = "complete" /\ c = "complete"
    BY ObservedClean
  <1>3. /\ captures' \in Seq(Completion) /\ Len(captures') = Len(captures)
        /\ \A k \in 1..(Len(captures) - 1) : captures'[k] = captures[k]
        /\ captures # <<>> => (Captured(captures') = "complete"
                                 <=> Captured(captures) = "complete" /\ c = "complete")
        /\ \A k \in 1..Len(captures) : captures[k] = "complete" /\ c = "complete"
                                          => captures'[k] = "complete"
    BY <1>1, CaptureClean
  <1>4. TaintsShow(captures', Verdict')
    BY <1>2, <1>3 DEF TaintsShow
  <1>5. captures' = <<>> <=> captures = <<>>
    BY <1>1, <1>3, EmptySeq
  <1>6. Untainted(captures', Verdict') => Untainted(captures, Verdict) /\ c = "complete"
    BY <1>2, <1>3, <1>5 DEF Untainted
  <1> QED BY <1>3, <1>4, <1>6

-----------------------------------------------------------------------------
\* What the invariants say of the call on top, and how a step that moves the stack in
\* one of the three ways keeps them.

LEMMA TopSound ==
    ASSUME IInv, Pure, frames # <<>>
    PROVE  /\ frames \in Seq(Frame) /\ captures \in Seq(Completion) /\ Top \in Frame
           /\ Aligned(frames, captures)
           /\ Opens(Top) <=> captures # <<>>
           /\ WellStaged(prog, parameterOverrides, Top)
           /\ Gathered(prog, Known(prog, parameterOverrides), Top,
                       Opens(Top) /\ Untainted(captures, Verdict), Seen(Top, control.pc = "run"))
           /\ ControlIsSound(prog, parameterOverrides, Top, control, Untainted(captures, Verdict))
  <1> DEFINE n == Len(frames)
             c == Len(captures)
  <1>1. /\ frames \in Seq(Frame) /\ captures \in Seq(Completion) /\ Top \in Frame
        /\ n \in Nat \ {0} /\ c \in Nat /\ Top = frames[n]
    BY PopSeq, LenProperties DEF IInv, TypeOK, Top
  <1>2. Aligned(frames, captures) /\ (Opens(Top) <=> n > n - c) /\ n \in 1..n
    BY <1>1, Alignment DEF Aligned
  <1>3. c = 0 <=> captures = <<>>
    BY <1>1, EmptySeq
  <1> HIDE DEF n, c
  <1>4. n > n - c <=> c # 0
    BY <1>1
  <1>5. Opens(Top) <=> captures # <<>>
    BY <1>2, <1>3, <1>4
  <1>6. WellStaged(prog, parameterOverrides, Top)
    BY <1>1, <1>2 DEF Pure, CallsAreSound, n
  <1>7. Gathered(prog, Known(prog, parameterOverrides), Top,
                 Clean(frames, captures, n), Seen(Top, n = n /\ control.pc = "run"))
    BY <1>1, <1>2 DEF Pure, CallsAreSound, Gathering, n
  <1>8. Clean(frames, captures, n) = (Opens(Top) /\ Untainted(captures, Verdict))
    <2>1. n - (n - c) = c
      BY <1>1
    <2> QED BY <1>1, <1>5, <2>1 DEF Clean, Untainted, Captured, n, c, Opens
  <1>9. Seen(Top, n = n /\ control.pc = "run") = Seen(Top, control.pc = "run")
    BY DEF Seen
  <1> QED BY <1>1, <1>2, <1>5, <1>6, <1>7, <1>8, <1>9 DEF Pure

\* The call on top goes on.
LEMMA StayStep ==
    ASSUME IInv, Pure, frames # <<>>, UNCHANGED <<prog, caches>>,
           NEW g \in Frame, ReplaceTop(g), g.owner = Top.owner, g.query = Top.query,
           captures' \in Seq(Completion), Len(captures') = Len(captures),
           \A k \in 1..(Len(captures) - 1) : captures'[k] = captures[k],
           TaintsShow(captures', Verdict'),
           WellStaged(prog, parameterOverrides, g),
           Gathered(prog, Known(prog, parameterOverrides), g,
                    Opens(g) /\ Captured(captures') = "complete", Seen(g, control'.pc = "run")),
           ControlIsSound(prog, parameterOverrides, g, control', Untainted(captures', Verdict'))
    PROVE  Pure'
  <1> DEFINE K == Known(prog, parameterOverrides)
             gs == [frames EXCEPT ![Len(frames)] = g]
             was == control.pc = "run"
             runs == control'.pc = "run"
  <1>1. /\ frames \in Seq(Frame) /\ captures \in Seq(Completion) /\ Aligned(frames, captures)
        /\ CallsAreSound(prog, parameterOverrides, K, frames, captures, was)
    BY TopSound DEF Pure
  <1>2. was \in BOOLEAN /\ runs \in BOOLEAN
    OBVIOUS
  <1>3. g.owner = frames[Len(frames)].owner /\ g.query = frames[Len(frames)].query
    BY DEF Top
  <1>4. Gathered(prog, K, g, Opens(g) /\ captures'[Len(captures')] = "complete",
                 Seen(g, runs))
    BY DEF Captured
  <1> HIDE DEF K, was, runs
  <1>5. CallsAreSound(prog, parameterOverrides, K, gs, captures', runs)
    BY <1>1, <1>2, <1>3, <1>4, ReplaceKeeps
  <1>6. frames' = gs /\ Top' = g /\ frames' # <<>>
    BY <1>1, ReplaceSeq DEF ReplaceTop, Top
  <1> HIDE DEF gs
  <1>7. /\ prog' = prog /\ parameterOverrides' = parameterOverrides
        /\ forceQueries' = forceQueries /\ valueQueries' = valueQueries
    BY DEF caches
  <1> QED BY <1>5, <1>6, <1>7 DEF Pure, K, runs

\* The evaluator is told what to do next, and nothing else happens.
LEMMA ControlStep ==
    ASSUME IInv, Pure, frames # <<>>, UNCHANGED <<prog, frames, caches, tracker>>,
           control'.pc # "run",
           ControlIsSound(prog, parameterOverrides, Top, control', Untainted(captures, Verdict))
    PROVE  Pure'
  <1> DEFINE K == Known(prog, parameterOverrides)
  <1>1. /\ frames \in Seq(Frame)
        /\ CallsAreSound(prog, parameterOverrides, K, frames, captures, control.pc = "run")
    BY TopSound DEF Pure
  <1>2. \A q \in Query : prog.operands[q] \in Seq(Query)
    BY CacheFacts DEF IInv
  <1>3. (control.pc = "run") \in BOOLEAN
    OBVIOUS
  <1> HIDE DEF K
  <1>4. CallsAreSound(prog, parameterOverrides, K, frames, captures, FALSE)
    BY <1>1, <1>2, <1>3, WaitsKeeps
  <1>5. (control'.pc = "run") = FALSE
    OBVIOUS
  <1>6. /\ prog' = prog /\ frames' = frames /\ parameterOverrides' = parameterOverrides
        /\ forceQueries' = forceQueries /\ valueQueries' = valueQueries
        /\ captures' = captures /\ Verdict' = Verdict /\ Top' = Top
    BY DEF caches, tracker, Verdict, Top
  <1> QED BY <1>4, <1>5, <1>6 DEF Pure, K

\* The call on top calls another, or the session makes the first call.
LEMMA PushStep ==
    ASSUME IInv, Pure, UNCHANGED <<prog, parameterOverrides, current, files, programCompletion>>,
           NEW g \in Frame, frames' = Append(frames, g), g.next = 1, g.stage \in {"contexts", "operands"},
           frames # <<>> /\ Uses(Top) =>
               g.owner = (IF Declares(Top) THEN "value" ELSE "force") /\ Awaits(prog, Top, g.query),
           IF Opens(g) THEN captures' = BeginCapture(captures) ELSE captures' = captures /\ captures = <<>>,
           WellStaged(prog, parameterOverrides, g),
           ValuesAreSound(prog, parameterOverrides, valueQueries'),
           ForcesAreSound(prog, parameterOverrides, forceQueries'),
           ControlIsSound(prog, parameterOverrides, g, control', Untainted(captures', Verdict))
    PROVE  Pure'
  <1> DEFINE K == Known(prog, parameterOverrides)
             gs == Append(frames, g)
  <1>1. /\ frames \in Seq(Frame) /\ captures \in Seq(Completion)
        /\ CallsAreSound(prog, parameterOverrides, K, frames, captures, control.pc = "run")
    BY DEF IInv, TypeOK, Pure
  <1>2. \A q \in Query : prog.operands[q] \in Seq(Query)
    BY CacheFacts DEF IInv
  <1>3. (control.pc = "run") \in BOOLEAN /\ (control'.pc = "run") \in BOOLEAN
    OBVIOUS
  <1>4. Aligned(frames, captures)
    BY Alignment DEF Aligned
  <1>5. Gathered(prog, K, g, Opens(g), Seen(g, control'.pc = "run"))
    <2>1. g.query \in Query
      BY DEF Frame
    <2>2. \A j \in DOMAIN prog.operands[g.query] : j \in Nat /\ j >= 1
      BY <1>2, <2>1, LenProperties
    <2>3. Seen(g, control'.pc = "run") \in {0, 1}
      BY DEF Seen
    <2>4. \A j \in DOMAIN prog.operands[g.query] : ~(j < Seen(g, control'.pc = "run"))
      BY <2>2, <2>3
    <2> QED BY <2>4 DEF Gathered
  <1>6. captures' \in Seq(Completion) /\ TaintsShow(captures', Verdict)
    BY <1>1, BeginClean DEF Pure
  <1>7. /\ IF Opens(g) THEN captures' = Append(captures, "complete")
                       ELSE captures' = captures /\ captures = <<>>
        /\ frames # <<>> /\ Uses(frames[Len(frames)]) =>
             /\ g.owner = IF Declares(frames[Len(frames)]) THEN "value" ELSE "force"
             /\ Awaits(prog, frames[Len(frames)], g.query)
    BY DEF BeginCapture, Top
  <1> HIDE DEF K
  <1>8. CallsAreSound(prog, parameterOverrides, K, frames, captures, FALSE)
    BY <1>1, <1>2, <1>3, WaitsKeeps
  <1>9. CallsAreSound(prog, parameterOverrides, K, gs, captures', control'.pc = "run")
    BY <1>1, <1>3, <1>4, <1>5, <1>6, <1>7, <1>8, PushKeeps
  <1>10. frames' = gs /\ Top' = g /\ Verdict' = Verdict
    BY <1>1, PushSeq DEF Top, Verdict
  <1> HIDE DEF gs
  <1> QED BY <1>6, <1>9, <1>10 DEF Pure, K

\* The call on top returns to the one below.
LEMMA PopStep ==
    ASSUME IInv, Pure, frames # <<>>, frames' = Below, control'.pc # "run",
           UNCHANGED <<prog, parameterOverrides>>,
           captures' \in Seq(Completion), TaintsShow(captures', Verdict'),
           Len(captures') = IF Opens(Top) THEN Len(captures) - 1 ELSE Len(captures),
           \A k \in 1..Len(captures') : captures'[k] = "complete" => captures[k] = "complete",
           ValuesAreSound(prog, parameterOverrides, valueQueries'),
           ForcesAreSound(prog, parameterOverrides, forceQueries'),
           Len(frames) > 1 =>
               ControlIsSound(prog, parameterOverrides, frames[Len(frames) - 1], control',
                              Untainted(captures', Verdict'))
    PROVE  Pure'
  <1> DEFINE K == Known(prog, parameterOverrides)
             gs == SubSeq(frames, 1, Len(frames) - 1)
  <1>1. /\ frames \in Seq(Frame) /\ captures \in Seq(Completion) /\ Aligned(frames, captures)
        /\ CallsAreSound(prog, parameterOverrides, K, frames, captures, control.pc = "run")
    BY TopSound DEF Pure
  <1>2. \A q \in Query : prog.operands[q] \in Seq(Query)
    BY CacheFacts DEF IInv
  <1>3. (control.pc = "run") \in BOOLEAN
    OBVIOUS
  <1>4. Len(captures') = IF Opens(frames[Len(frames)]) THEN Len(captures) - 1 ELSE Len(captures)
    BY DEF Top
  <1> HIDE DEF K
  <1>5. CallsAreSound(prog, parameterOverrides, K, frames, captures, FALSE)
    BY <1>1, <1>2, <1>3, WaitsKeeps
  <1>6. CallsAreSound(prog, parameterOverrides, K, gs, captures', FALSE)
    BY <1>1, <1>4, <1>5, PopKeeps
  <1>7. frames' = gs /\ (control'.pc = "run") = FALSE
    BY DEF Below
  <1>8. gs # <<>> => Len(frames) > 1 /\ gs[Len(gs)] = frames[Len(frames) - 1]
    <2>1. /\ Len(gs) = Len(frames) - 1 /\ Len(frames) \in Nat \ {0} /\ gs \in Seq(Frame)
          /\ \A i \in 1..(Len(frames) - 1) : gs[i] = frames[i]
      BY <1>1, PopSeq
    <2> HIDE DEF gs
    <2>2. gs # <<>> => Len(gs) # 0
      BY <2>1, EmptySeq
    <2> QED BY <2>1, <2>2
  <1> HIDE DEF gs
  <1> QED BY <1>6, <1>7, <1>8 DEF Pure, K, Top

\* Between demands there is nothing to say of calls and captures.
LEMMA RestStep ==
    ASSUME Pure, frames' = <<>>, captures' = <<>>, UNCHANGED <<prog, parameterOverrides>>,
           ValuesAreSound(prog, parameterOverrides, valueQueries'),
           ForcesAreSound(prog, parameterOverrides, forceQueries')
    PROVE  Pure'
  <1>1. ASSUME NEW p, NEW o, NEW K, NEW running
        PROVE  CallsAreSound(p, o, K, <<>>, <<>>, running)
    BY DEF CallsAreSound, Linked, Gathering
  <1>2. TaintsShow(<<>>, Verdict')
    BY DEF TaintsShow
  <1> QED BY <1>1, <1>2 DEF Pure

-----------------------------------------------------------------------------
\* The session: it makes and ends the root calls.

LEMMA RootAlone ==
    ASSUME IInv, Pure, frames # <<>>, Top.owner \in Root, ~Opens(Top)
    PROVE  Below = <<>> /\ captures = <<>>
  <1>1. frames \in Seq(Frame) /\ Len(frames) \in Nat \ {0} /\ Len(frames) \in DOMAIN frames
    BY PopSeq, LenProperties DEF IInv, TypeOK
  <1>2. Len(frames) = 1
    BY <1>1 DEF IInv, StackDiscipline, CallsNest, Top
  <1>3. Below \in Seq(Frame) /\ Len(Below) = 0
    BY <1>1, <1>2, PopSeq DEF Below
  <1> QED BY <1>3, TopSound, EmptySeq

LEMMA IdleEmpty ==
    ASSUME IInv, control.pc = "idle"
    PROVE  frames = <<>> /\ captures = <<>>
  <1>1. frames = <<>>
    BY DEF IInv, StackDiscipline, CallsNest
  <1>2. Len(captures) = 0 /\ captures \in Seq(Completion)
    BY <1>1, Alignment, LenProperties DEF IInv, TypeOK
  <1> QED BY <1>1, <1>2, EmptySeq

LEMMA PureSessions ==
    ASSUME IInv, Pure,
           \/ \E f \in File : SelectFile(f)
           \/ NextPass
           \/ \E q \in Query : MarkProvisional(q)
    PROVE  Pure'
  <1>1. /\ control.pc = "idle" /\ frames' = frames /\ captures' = captures
        /\ UNCHANGED <<prog, parameterOverrides, forceQueries>>
    BY DEF SelectFile, NextPass, MarkProvisional, session, caches, tracker
  <1>2. ValuesAreSound(prog, parameterOverrides, valueQueries')
    <2>1. CASE valueQueries' = valueQueries
      BY <2>1 DEF Pure
    <2>2. CASE \E q \in Query : MarkProvisional(q)
      <3>1. PICK q \in Query : MarkProvisional(q)
        BY <2>2
      <3>2. /\ prog.kind[q] = "parameter"
            /\ \A r \in Query : valueQueries'[r] = IF r = q THEN Provisional ELSE valueQueries[r]
        BY <3>1 DEF MarkProvisional, IInv, TypeOK
      <3> QED BY <3>2 DEF Pure, ValuesAreSound, Provisional
    <2> QED BY <2>1, <2>2 DEF SelectFile, NextPass, caches
  <1>3. ForcesAreSound(prog, parameterOverrides, forceQueries')
    BY <1>1 DEF Pure
  <1> QED BY <1>1, <1>2, <1>3, IdleEmpty, RestStep

LEMMA PureCloses ==
    ASSUME IInv, Pure, CloseDemand \/ CloseFlush \/ CloseSummary \/ CloseRequire
    PROVE  Pure'
  <1>1. /\ frames # <<>> /\ Top.owner \in {"demand", "flush", "summary", "require"}
        /\ frames' = Below /\ UNCHANGED <<prog, caches>>
    BY DEF CloseDemand, CloseFlush, CloseSummary, CloseRequire, Answered, session
  <1>2. Below = <<>> /\ captures = <<>>
    BY <1>1, RootAlone DEF Root, Opens
  <1>3. captures' = <<>>
    BY <1>2 DEF CloseDemand, CloseFlush, CloseSummary, CloseRequire, ObserveCurrent, ObserveFile,
       Capture, tracker
  <1>4. /\ ValuesAreSound(prog, parameterOverrides, valueQueries')
        /\ ForcesAreSound(prog, parameterOverrides, forceQueries')
        /\ UNCHANGED <<prog, parameterOverrides>>
    BY <1>1 DEF Pure, caches
  <1> QED BY <1>1, <1>2, <1>3, <1>4, RestStep

\* A declarator publishes its value only if all its initializer needs has a meaning, or
\* under an annotation, where nothing of the initializer is needed.
LEMMA PurePublishDeclarator ==
    ASSUME IInv, Pure, PublishDeclarator
    PROVE  Pure'
  <1> DEFINE q == Top.query
  <1>1. /\ frames # <<>> /\ Top.owner = "declarator" /\ Top.stage = "publish"
        /\ frames' = Below /\ captures' = captures
        /\ UNCHANGED <<prog, parameterOverrides, forceQueries>>
    BY DEF PublishDeclarator, Running, session, tracker
  <1>2. Below = <<>> /\ captures = <<>>
    BY <1>1, RootAlone DEF Root, Opens
  <1>3. q \in Query /\ prog.kind[q] = "value"
    BY <1>1, TopSound DEF Frame, WellStaged
  <1>4. \/ valueQueries' = valueQueries
        \/ /\ q \in prog.annotated \/ Top.state = "complete"
           /\ valueQueries' = [valueQueries EXCEPT ![q] = Published(prog.body[q], "complete")]
    BY DEF PublishDeclarator
  <1>5. q \in prog.annotated \/ Top.state = "complete" => Founded(prog, parameterOverrides, q)
    <2>1. CASE q \in prog.annotated
      BY <1>3, <2>1 DEF Founded, Grounded, Needed, Meaningful
    <2>2. CASE Top.state = "complete"
      BY <1>1, <2>2, TopSound DEF Gathered, Founded
    <2> QED BY <2>1, <2>2
  <1>6. ValuesAreSound(prog, parameterOverrides, valueQueries')
    <2>1. CASE valueQueries' = valueQueries
      BY <2>1 DEF Pure
    <2>2. CASE valueQueries' # valueQueries
      <3>1. /\ Founded(prog, parameterOverrides, q)
            /\ \A r \in Query : valueQueries'[r] =
                  IF r = q THEN Published(prog.body[q], "complete") ELSE valueQueries[r]
        BY <1>3, <1>4, <1>5, <2>2 DEF IInv, TypeOK
      <3> HIDE DEF q
      <3> QED BY <1>3, <3>1 DEF Pure, ValuesAreSound, Published, Ready, Absent, IsCacheable
    <2> QED BY <2>1, <2>2
  <1>7. ForcesAreSound(prog, parameterOverrides, forceQueries')
    BY <1>1 DEF Pure
  <1> QED BY <1>1, <1>2, <1>6, <1>7, RestStep

LEMMA NewFrameFields ==
    ASSUME NEW owner, NEW q, NEW stage, NEW d
    PROVE  LET g == NewFrame(owner, q, stage, d)
           IN  /\ g.owner = owner /\ g.query = q /\ g.stage = stage /\ g.depth = d /\ g.next = 1
               /\ g.local = FALSE /\ g.base = Len(references) /\ g.state = "complete"
  BY DEF NewFrame

LEMMA PureRoots ==
    ASSUME IInv, Pure, NEW q \in Query,
           \/ RequireTypeNode(q) \/ DemandType(q) \/ CheckDeclarator(q)
           \/ FlushOrigin(q) \/ SummariseValue(q) \/ SummariseExport(q)
    PROVE  Pure'
  <1>1. ASSUME NEW owner \in Root, NEW stage \in {"contexts", "operands"}, NEW step,
               StartRoot(owner, q, stage, step), control' = step,
               stage = "contexts" <=> owner = "declarator",
               IF owner = "declarator" THEN captures' = BeginCapture(captures) ELSE captures' = captures,
               owner = "declarator" => prog.kind[q] = "value",
               \/ owner = "require" /\ step.pc \in {"visit", "return"}
               \/ owner \in {"demand", "flush"} /\ step = ForceType(q, 0)
               \/ owner = "declarator" /\ step = Run
               \/ owner = "summary" /\ step = Declaration(q) /\ prog.kind[q] = "value"
        PROVE  Pure'
    <2> DEFINE g == NewFrame(owner, q, stage, 0)
    <2>1. /\ frames = <<>> /\ captures = <<>> /\ frames' = Append(frames, g)
          /\ UNCHANGED <<prog, caches, current, files, programCompletion>>
      <3>1. control.pc = "idle" /\ frames' = <<g>>
        BY <1>1 DEF StartRoot
      <3>2. frames = <<>> /\ captures = <<>>
        BY <3>1, IdleEmpty
      <3>3. frames' = Append(frames, g)
        BY <3>1, <3>2
      <3> QED BY <1>1, <3>2, <3>3 DEF StartRoot, session
    <2>2. g \in Frame
      BY NewFrameType DEF IInv
    <2>3. g.owner = owner /\ g.query = q /\ g.stage = stage /\ g.next = 1
      BY DEF NewFrame
    <2> HIDE DEF g
    <2>4. IF Opens(g) THEN captures' = BeginCapture(captures) ELSE captures' = captures /\ captures = <<>>
      BY <1>1, <2>1, <2>3 DEF Opens, Root
    <2>5. WellStaged(prog, parameterOverrides, g)
      BY <1>1, <2>3 DEF WellStaged, Root
    <2>6. /\ ValuesAreSound(prog, parameterOverrides, valueQueries')
          /\ ForcesAreSound(prog, parameterOverrides, forceQueries')
          /\ UNCHANGED <<prog, parameterOverrides, current, files, programCompletion>>
      BY <2>1 DEF Pure, caches
    <2>7. ControlIsSound(prog, parameterOverrides, g, step, Untainted(captures', Verdict))
      <3>1. CASE owner = "require" /\ step.pc \in {"visit", "return"}
        BY <2>3, <3>1 DEF ControlIsSound, Uses
      <3>2. CASE owner \in {"demand", "flush"} /\ step = ForceType(q, 0)
        BY <2>3, <3>2 DEF ControlIsSound, Uses, Declares, Awaits, ForceType, Go
      <3>3. CASE owner = "declarator" /\ step = Run
        BY <2>3, <3>3 DEF ControlIsSound, Run, Go
      <3>4. CASE owner = "summary" /\ step = Declaration(q) /\ prog.kind[q] = "value"
        BY <2>3, <3>4 DEF ControlIsSound, Uses, Declaration, Go
      <3> QED BY <1>1, <3>1, <3>2, <3>3, <3>4
    <2> QED BY <1>1, <2>1, <2>2, <2>3, <2>4, <2>5, <2>6, <2>7, PushStep
  <1>2. CASE RequireTypeNode(q)
    <2> DEFINE step == IF prog.body[q] \in Query THEN Visit(prog.body[q])
                       ELSE Return(Complete(prog.body[q]))
    <2>1. StartRoot("require", q, "operands", step) /\ captures' = captures
      BY <1>2 DEF RequireTypeNode
    <2>2. step.pc \in {"visit", "return"}
      BY DEF Visit, Return, Go
    <2>3. control' = step
      BY <2>1 DEF StartRoot
    <2> HIDE DEF step
    <2> QED BY <1>1, <2>1, <2>2, <2>3 DEF Root
  <1>3. CASE DemandType(q) \/ FlushOrigin(q) \/ SummariseExport(q)
    <2>1. /\ \/ StartRoot("demand", q, "operands", ForceType(q, 0))
             \/ StartRoot("flush", q, "operands", ForceType(q, 0))
          /\ captures' = captures
      BY <1>3 DEF DemandType, FlushOrigin, SummariseExport
    <2>2. control' = ForceType(q, 0)
      BY <2>1 DEF StartRoot
    <2> QED BY <1>1, <2>1, <2>2 DEF Root
  <1>4. CASE CheckDeclarator(q)
    <2>1. StartRoot("declarator", q, "contexts", Run) /\ captures' = BeginCapture(captures)
          /\ prog.kind[q] = "value"
      BY <1>4 DEF CheckDeclarator
    <2>2. control' = Run
      BY <2>1 DEF StartRoot
    <2> QED BY <1>1, <2>1, <2>2 DEF Root
  <1>5. CASE SummariseValue(q)
    <2>1. StartRoot("summary", q, "operands", Declaration(q)) /\ captures' = captures
          /\ prog.kind[q] = "value"
      BY <1>5 DEF SummariseValue
    <2>2. control' = Declaration(q)
      BY <2>1 DEF StartRoot
    <2> QED BY <1>1, <2>1, <2>2 DEF Root
  <1> QED BY <1>2, <1>3, <1>4, <1>5

-----------------------------------------------------------------------------
\* The evaluator goes on, with the call on top or with its answer.

LEMMA FoundedRule ==
    ASSUME NEW p, NEW o, NEW q, Meaningful(p, q),
           \A j \in DOMAIN p.operands[q] : p.operands[q][j] \in Known(p, o)
    PROVE  Founded(p, o, q)
  BY DEF Founded, Grounded, Needed

\* A parameter needs nothing.
LEMMA ParameterFounded ==
    ASSUME NEW p, NEW o, NEW q, p.kind[q] = "parameter"
    PROVE  Founded(p, o, q)
  BY DEF Founded, Grounded, Needed, Meaningful

\* What the call on top waits for is being forced, and the answer is known.
LEMMA AnswerSound ==
    ASSUME IInv, Pure, frames # <<>>, control.pc \in {"force", "declaration"}, NEW a \in Answer,
           UNCHANGED <<prog, frames, caches, tracker>>, control' = Return(a),
           IsComplete(a) /\ control.pc = "force" =>
               Means(prog, parameterOverrides, control.query, a.type),
           IsComplete(a) /\ control.pc = "declaration" =>
               /\ a.type = Yield(prog, parameterOverrides, control.query)
               /\ Founded(prog, parameterOverrides, control.query)
    PROVE  Pure'
  <1>1. ControlIsSound(prog, parameterOverrides, Top, control, Untainted(captures, Verdict))
    BY TopSound
  <1>2. control.query \in Query
    BY DEF IInv, StackDiscipline, CallsNest
  <1>3. control'.pc = "return" /\ control'.answer = a
    BY DEF Return, Go
  <1>4. Uses(Top) => /\ Declares(Top) <=> control.pc = "declaration"
                     /\ Awaits(prog, Top, control.query)
    BY <1>1 DEF ControlIsSound
  <1>5. ControlIsSound(prog, parameterOverrides, Top, control', Untainted(captures, Verdict))
    BY <1>2, <1>3, <1>4 DEF ControlIsSound
  <1> QED BY <1>3, <1>5, ControlStep

LEMMA PureForceGuards ==
    ASSUME IInv, Pure, ForceReady \/ ForceActive \/ ForceOverBudget
    PROVE  Pure'
  <1>1. /\ control.pc = "force" /\ frames # <<>> /\ control.query \in Query /\ TypeOK
        /\ UNCHANGED <<prog, frames, caches, tracker>>
    BY DEF ForceReady, ForceActive, ForceOverBudget, session, IInv, StackDiscipline, CallsNest
  <1>2. CASE ForceReady
    <2> DEFINE t == forceQueries[control.query].type
    <2>1. /\ control' = Return(Complete(t)) /\ t \in Type
          /\ Means(prog, parameterOverrides, control.query, t)
      BY <1>1, <1>2, CacheFacts DEF ForceReady, Pure, ForcesAreSound
    <2> HIDE DEF t
    <2>2. Complete(t) \in Answer /\ Complete(t).type = t
      BY <1>1, <2>1, ControlTypes DEF Complete
    <2> QED BY <1>1, <2>1, <2>2, AnswerSound
  <1>3. CASE ForceActive \/ ForceOverBudget
    <2>1. PICK c \in {"cycle", "limit"} : control' = Return(Incomplete(c))
      BY <1>3 DEF ForceActive, ForceOverBudget
    <2>2. Incomplete(c) \in Answer /\ ~IsComplete(Incomplete(c))
      BY <1>1, ControlTypes DEF Incomplete, IsComplete, Completion
    <2> QED BY <1>1, <2>1, <2>2, AnswerSound
  <1> QED BY <1>2, <1>3

LEMMA PureDeclarationGuards ==
    ASSUME IInv, Pure, DeclarationOverridden \/ DeclarationKnown
    PROVE  Pure'
  <1> DEFINE q == control.query
             o == parameterOverrides
  <1>1. /\ control.pc = "declaration" /\ frames # <<>> /\ q \in Query /\ TypeOK
        /\ UNCHANGED <<prog, frames, caches, tracker>>
    BY DEF DeclarationOverridden, DeclarationKnown, session, IInv, StackDiscipline, CallsNest
  <1>2. ASSUME NEW t, t = Yield(prog, o, q), Founded(prog, o, q), t \in Type,
               control' = Return(Complete(t))
        PROVE  Pure'
    <2>1. Complete(t) \in Answer /\ Complete(t).type = t
      BY <1>1, <1>2, ControlTypes DEF Complete
    <2> QED BY <1>1, <1>2, <2>1, AnswerSound
  <1>3. ASSUME NEW c \in {"deferred", "cycle"}, control' = Return(Incomplete(c))
        PROVE  Pure'
    <2>1. Incomplete(c) \in Answer /\ ~IsComplete(Incomplete(c))
      BY <1>1, ControlTypes DEF Incomplete, IsComplete, Completion
    <2> QED BY <1>1, <1>3, <2>1, AnswerSound
  <1>4. CASE DeclarationOverridden
    <2>1. o[q] # None
      BY <1>4 DEF DeclarationOverridden
    <2>2. prog.kind[q] = "parameter" /\ o[q] \in Plain
      BY <1>1, <2>1 DEF Pure, OverridesAreSound
    <2>3. control' = Return(Complete(o[q]))
      BY <1>4, <2>2 DEF DeclarationOverridden, IsCacheable
    <2>4. o[q] = Yield(prog, o, q) /\ Founded(prog, o, q) /\ o[q] \in Type
      BY <2>1, <2>2, ParameterFounded DEF Yield, ParameterType, Type
    <2> QED BY <1>2, <2>3, <2>4
  <1>5. CASE DeclarationKnown
    <2> DEFINE entry == valueQueries[q]
    <2>1. o[q] = None /\ entry.state \in {"computing", "provisional", "ready"}
      BY <1>1, <1>5, CacheFacts DEF DeclarationKnown
    <2>2. CASE entry.state = "computing"
      BY <1>3, <1>5, <2>2 DEF DeclarationKnown
    <2>3. CASE entry.state = "provisional"
      <3>1. prog.kind[q] = "parameter"
        BY <1>1, <2>3 DEF Pure, ValuesAreSound
      <3>2. Any = Yield(prog, o, q) /\ Founded(prog, o, q) /\ Any \in Type
        BY <2>1, <3>1, ParameterFounded, TypesAssumption DEF Yield, ParameterType, Type
      <3>3. control' = Return(Complete(Any))
        BY <1>5, <2>3 DEF DeclarationKnown
      <3> QED BY <1>2, <3>2, <3>3
    <2>4. CASE entry.state = "ready"
      <3>1. /\ prog.kind[q] \in {"value", "parameter"} /\ entry.type = prog.body[q]
            /\ Founded(prog, o, q) /\ prog.body[q] \in Plain
        BY <1>1, <2>4 DEF Pure, ValuesAreSound
      <3>2. prog.kind[q] = "parameter" => prog.body[q] = Any
        BY <1>1 DEF IInv, ParametersAreLeaves
      <3>3. prog.body[q] = Yield(prog, o, q) /\ prog.body[q] \in Type
        BY <2>1, <3>1, <3>2 DEF Yield, ParameterType, Type
      <3>4. control' = Return(Complete(prog.body[q]))
        BY <1>5, <2>4, <3>1 DEF DeclarationKnown
      <3> QED BY <1>2, <3>1, <3>3, <3>4
    <2> QED BY <2>1, <2>2, <2>3, <2>4
  <1> QED BY <1>4, <1>5

LEMMA PureFinishes ==
    ASSUME IInv, Pure, EvaluateNonclaim \/ EvaluateUnproductive
    PROVE  Pure'
  <1>1. /\ frames # <<>> /\ UNCHANGED <<prog, frames, caches, tracker>>
        /\ control'.pc = "finish" /\ ~IsComplete(control'.answer)
    BY DEF EvaluateNonclaim, EvaluateUnproductive, Running, session, Finish, Incomplete, IsComplete, Go
  <1>2. ControlIsSound(prog, parameterOverrides, Top, control', Untainted(captures, Verdict))
    BY <1>1 DEF ControlIsSound
  <1> QED BY <1>1, <1>2, ControlStep

LEMMA PureEvaluateBody ==
    ASSUME IInv, Pure, EvaluateBody
    PROVE  Pure'
  <1> DEFINE q == Top.query
             o == parameterOverrides
  <1>1. /\ control.pc = "run" /\ frames # <<>> /\ Top.owner = "force"
        /\ UNCHANGED <<prog, frames, caches, tracker>>
        /\ prog.kind[q] \in {"reference", "operation", "flow"} /\ q \notin prog.unproductive
        /\ Top.next > Len(prog.operands[q])
        /\ control'.pc = "normalise" /\ control'.answer.type = prog.body[q]
    BY DEF EvaluateBody, Running, session, Normalise, Complete, Go
  <1>2. /\ prog.operands[q] \in Seq(Query) /\ Top.next \in Nat
        /\ Len(prog.operands[q]) \in Nat /\ DOMAIN prog.operands[q] = 1..Len(prog.operands[q])
    BY <1>1, TopTypes, LenProperties DEF IInv
  <1>3. ASSUME Untainted(captures, Verdict)
        PROVE  Founded(prog, o, q)
    <2>1. Top.stage = "operands" /\ Opens(Top)
      BY <1>1, TopSound DEF ControlIsSound, Opens
    <2>2. \A j \in DOMAIN prog.operands[q] : j < Top.next => prog.operands[q][j] \in Known(prog, o)
      BY <1>1, <1>3, <2>1, TopSound DEF Gathered, Seen
    <2>3. \A j \in DOMAIN prog.operands[q] : j < Top.next
      BY <1>1, <1>2
    <2>4. Meaningful(prog, q)
      BY <1>1 DEF Meaningful
    <2> QED BY <2>2, <2>3, <2>4, FoundedRule
  <1>4. prog.body[q] = Yield(prog, o, q)
    BY <1>1 DEF Yield
  <1>5. ControlIsSound(prog, o, Top, control', Untainted(captures, Verdict))
    BY <1>1, <1>3, <1>4 DEF ControlIsSound
  <1> QED BY <1>1, <1>5, ControlStep

LEMMA PureVisitAgain ==
    ASSUME IInv, Pure, VisitAgain
    PROVE  Pure'
  <1>1. /\ control.pc = "visit" /\ frames # <<>> /\ UNCHANGED <<prog, frames, caches, tracker>>
        /\ control'.pc = "return"
    BY DEF VisitAgain, session, IInv, StackDiscipline, CallsNest, Return, Go
  <1>2. Len(frames) \in DOMAIN frames
    BY <1>1, PopSeq, LenProperties DEF IInv, TypeOK
  <1>3. ~Uses(Top)
    BY <1>1, <1>2 DEF IInv, StackDiscipline, VisitsComeFirst, Top, Uses
  <1>4. ControlIsSound(prog, parameterOverrides, Top, control', Untainted(captures, Verdict))
    BY <1>1, <1>3 DEF ControlIsSound
  <1> QED BY <1>1, <1>4, ControlStep

\* The call on top goes on and observes nothing.
LEMMA Stays ==
    ASSUME IInv, Pure, frames # <<>>, UNCHANGED <<prog, caches, tracker>>,
           NEW g \in Frame, ReplaceTop(g), g.owner = Top.owner, g.query = Top.query,
           Opens(g) => Opens(Top),
           WellStaged(prog, parameterOverrides, g),
           Gathered(prog, Known(prog, parameterOverrides), g,
                    Opens(g) /\ Untainted(captures, Verdict), Seen(g, control'.pc = "run")),
           ControlIsSound(prog, parameterOverrides, g, control', Untainted(captures, Verdict))
    PROVE  Pure'
  <1>1. captures' = captures /\ Verdict' = Verdict
    BY DEF tracker, Verdict
  <1>2. captures \in Seq(Completion) /\ TaintsShow(captures, Verdict)
    BY DEF IInv, TypeOK, Pure
  <1>3. Opens(g) => (Untainted(captures, Verdict) = (Captured(captures') = "complete"))
    BY <1>1, TopSound DEF Untainted
  <1>4. Gathered(prog, Known(prog, parameterOverrides), g,
                 Opens(g) /\ Captured(captures') = "complete", Seen(g, control'.pc = "run"))
    BY <1>3 DEF Gathered
  <1> QED BY <1>1, <1>2, <1>4, StayStep

LEMMA PureNextOperand ==
    ASSUME IInv, Pure, frames # <<>>, UNCHANGED <<prog, caches, tracker>>,
           control.pc = "run", Top.owner \in {"force", "value", "declarator"}, Top.stage = "operands",
           Top.next <= Len(prog.operands[Top.query]),
           ReplaceTop([Top EXCEPT !.next = @ + 1]),
           control'.pc = "force", control'.query = prog.operands[Top.query][Top.next]
    PROVE  Pure'
  <1> DEFINE g == [Top EXCEPT !.next = @ + 1]
             n == Top.next
  <1>1. /\ Top \in Frame /\ n \in Nat \ {0} /\ prog.operands[Top.query] \in Seq(Query)
        /\ n \in DOMAIN prog.operands[Top.query]
    BY TopTypes, NextOperand, LenProperties DEF IInv
  <1>2. /\ g \in Frame /\ g.owner = Top.owner /\ g.query = Top.query /\ g.stage = Top.stage
        /\ g.next = n + 1 /\ g.local = Top.local /\ g.state = Top.state
    BY <1>1 DEF Frame
  <1>3. ReplaceTop(g)
    OBVIOUS
  <1> HIDE DEF g, n
  <1>4. Opens(g) <=> Opens(Top)
    BY <1>2 DEF Opens
  <1>5. WellStaged(prog, parameterOverrides, g)
    BY <1>2, TopSound DEF WellStaged
  <1>6. Seen(g, control'.pc = "run") = n /\ Seen(Top, control.pc = "run") = n
    <2>1. g.next = n + 1 /\ n \in Nat
      BY <1>1, <1>2
    <2>2. g.next - 1 = n
      BY <2>1
    <2>3. Top.next = n
      BY DEF n
    <2> QED BY <2>2, <2>3 DEF Seen
  <1>7. Gathered(prog, Known(prog, parameterOverrides), g,
                 Opens(g) /\ Untainted(captures, Verdict), Seen(g, control'.pc = "run"))
    BY <1>2, <1>4, <1>6, TopSound DEF Gathered
  <1>8. Awaits(prog, g, control'.query)
    <2>1. g.next - 1 = n
      BY <1>1, <1>2
    <2> QED BY <1>1, <1>2, <2>1 DEF Awaits, n
  <1>9. ControlIsSound(prog, parameterOverrides, g, control', Untainted(captures, Verdict))
    BY <1>2, <1>8 DEF ControlIsSound, Declares
  <1> QED BY <1>2, <1>3, <1>4, <1>5, <1>7, <1>9, Stays

LEMMA PureOperands ==
    ASSUME IInv, Pure, ForceOperand \/ ForceShapeChild \/ InferOperand
    PROVE  Pure'
  <1>1. /\ frames # <<>> /\ UNCHANGED <<prog, caches, tracker>>
        /\ control.pc = "run" /\ Top.owner \in {"force", "value", "declarator"}
        /\ Top.next <= Len(prog.operands[Top.query])
        /\ ReplaceTop([Top EXCEPT !.next = @ + 1])
        /\ control'.pc = "force" /\ control'.query = prog.operands[Top.query][Top.next]
    BY DEF ForceOperand, ForceShapeChild, InferOperand, Inferring, Running, session, ForceType, Go
  <1>2. Top.stage = "operands"
    <2>1. CASE Top.owner = "force"
      BY <1>1, <2>1, TopSound DEF ControlIsSound
    <2>2. CASE Top.owner # "force"
      BY <2>2 DEF ForceOperand, ForceShapeChild, InferOperand, Running
    <2> QED BY <2>1, <2>2
  <1> QED BY <1>1, <1>2, PureNextOperand

LEMMA PureEvaluateDeclaration ==
    ASSUME IInv, Pure, EvaluateDeclaration
    PROVE  Pure'
  <1> DEFINE g == [Top EXCEPT !.stage = "declaration"]
  <1>1. /\ frames # <<>> /\ UNCHANGED <<prog, caches, tracker>> /\ Top.owner = "force"
        /\ prog.kind[Top.query] \in {"value", "parameter"} /\ ReplaceTop(g)
        /\ control'.pc = "declaration" /\ control'.query = Top.query
    BY DEF EvaluateDeclaration, Running, session, Declaration, Go
  <1>2. Top \in Frame
    BY <1>1, TopTypes DEF IInv
  <1>3. /\ g \in Frame /\ g.owner = Top.owner /\ g.query = Top.query /\ g.stage = "declaration"
        /\ g.next = Top.next /\ g.local = Top.local /\ g.state = Top.state
    BY <1>2 DEF Frame
  <1> HIDE DEF g
  <1>4. Opens(g) => Opens(Top)
    BY <1>1 DEF Opens
  <1>5. WellStaged(prog, parameterOverrides, g)
    BY <1>1, <1>3, TopSound DEF WellStaged
  <1>6. Gathered(prog, Known(prog, parameterOverrides), g,
                 Opens(g) /\ Untainted(captures, Verdict), Seen(g, control'.pc = "run"))
    BY <1>1, <1>3 DEF Gathered
  <1>7. ControlIsSound(prog, parameterOverrides, g, control', Untainted(captures, Verdict))
    BY <1>1, <1>3 DEF ControlIsSound, Declares, Awaits, Uses
  <1> QED BY <1>1, <1>3, <1>4, <1>5, <1>6, <1>7, Stays

\* Where the answer to the operand forced last is a meaning, so are all before n.
LEMMA OneMoreOperand ==
    ASSUME NEW p, NEW o, NEW f \in Frame, NEW q \in Query, NEW t,
           p.operands[f.query] \in Seq(Query),
           f.owner \in {"force", "value", "declarator"}, f.stage = "operands",
           Awaits(p, f, q), Means(p, o, q, t),
           \A j \in DOMAIN p.operands[f.query] : j < f.next - 1 => p.operands[f.query][j] \in Known(p, o)
    PROVE  \A j \in DOMAIN p.operands[f.query] : j < f.next => p.operands[f.query][j] \in Known(p, o)
  <1>1. q = p.operands[f.query][f.next - 1] /\ q \in Known(p, o)
    BY DEF Awaits, Declares, Known, Means
  <1>2. f.next \in Nat /\ DOMAIN p.operands[f.query] \subseteq Nat
    BY LenProperties DEF Frame
  <1>3. ASSUME NEW j \in DOMAIN p.operands[f.query], j < f.next
        PROVE  j < f.next - 1 \/ j = f.next - 1
    BY <1>2, <1>3
  <1> QED BY <1>1, <1>3

LEMMA PureResumeForce ==
    ASSUME IInv, Pure, ResumeForce
    PROVE  Pure'
  <1> DEFINE q == Top.query
             o == parameterOverrides
             a == control.answer
             clean == Untainted(captures, Verdict)
             g == [Top EXCEPT !.state = Combine(@, a.state)]
  <1>1. /\ frames # <<>> /\ UNCHANGED <<prog, caches, tracker>> /\ Top.owner = "force"
        /\ control.pc = "return" /\ ReplaceTop(g)
        /\ control' = CASE Top.stage = "operands" /\ (IsComplete(a) \/ prog.kind[q] = "binary") -> Run
                        [] Top.stage = "declaration" -> Normalise(a)
                        [] OTHER -> Finish(a)
    BY DEF ResumeForce, Answered, session
  <1>2. /\ Top \in Frame /\ q \in Query /\ Top.state \in Completion /\ a \in Answer
        /\ a.state \in Completion /\ Combine(Top.state, a.state) \in Completion
    BY <1>1, TopTypes, CombineVerdicts, ControlFacts, AnswerTypes DEF IInv, StackDiscipline
  <1>3. /\ g.owner = Top.owner /\ g.query = q /\ g.stage = Top.stage
        /\ g.next = Top.next /\ g.local = Top.local /\ g.state = Combine(Top.state, a.state)
        /\ g \in Frame
    BY <1>2 DEF Frame
  <1>4. g.state = "complete" => Top.state = "complete" /\ IsComplete(a)
    BY <1>2, <1>3, CombineClean DEF IsComplete
  <1> HIDE DEF g, a, clean
  <1>5. Opens(g) /\ Opens(Top) /\ Uses(Top) /\ Seen(Top, control.pc = "run") = Top.next - 1
    BY <1>1, <1>3 DEF Opens, Uses, Seen
  <1>6. /\ WellStaged(prog, o, Top) /\ ControlIsSound(prog, o, Top, control, clean)
        /\ Gathered(prog, Known(prog, o), Top, clean, Top.next - 1)
    BY <1>1, <1>5, TopSound DEF clean, Gathered
  <1>7. PICK r \in Query :
           /\ Awaits(prog, Top, r)
           /\ IsComplete(a) /\ Declares(Top) => a.type = Yield(prog, o, r) /\ (clean => Founded(prog, o, r))
           /\ IsComplete(a) /\ ~Declares(Top) /\ clean => Means(prog, o, r, a.type)
    BY <1>1, <1>5, <1>6 DEF ControlIsSound, a
  <1>8. WellStaged(prog, o, g)
    BY <1>1, <1>3, <1>6 DEF WellStaged
  <1>9. ASSUME Gathered(prog, Known(prog, o), g, clean, Seen(g, control'.pc = "run")),
               ControlIsSound(prog, o, g, control', clean)
        PROVE  Pure'
    <2>1. Gathered(prog, Known(prog, o), g, Opens(g) /\ clean, Seen(g, control'.pc = "run"))
      BY <1>5, <1>9 DEF Gathered
    <2> QED BY <1>1, <1>3, <1>5, <1>8, <1>9, <2>1, Stays DEF clean
  <1>10. CASE Top.stage = "operands" /\ (IsComplete(a) \/ prog.kind[q] = "binary")
    <2>1. control'.pc = "run"
      BY <1>1, <1>10 DEF Run, Go
    <2>2. ASSUME clean, prog.kind[q] = "binary" => g.state = "complete"
          PROVE  \A j \in DOMAIN prog.operands[q] : j < Top.next => prog.operands[q][j] \in Known(prog, o)
      <3>1. IsComplete(a) /\ ~Declares(Top) /\ Means(prog, o, r, a.type)
        BY <1>4, <1>7, <1>10, <2>2 DEF Declares
      <3>2. prog.operands[Top.query] \in Seq(Query)
        BY <1>1, TopTypes DEF IInv
      <3>3. \A j \in DOMAIN prog.operands[q] : j < Top.next - 1 => prog.operands[q][j] \in Known(prog, o)
        BY <1>1, <1>4, <1>6, <1>10, <2>2 DEF Gathered
      <3> QED BY <1>1, <1>2, <1>7, <1>10, <3>1, <3>2, <3>3, OneMoreOperand
    <2>3. Gathered(prog, Known(prog, o), g, clean, Seen(g, control'.pc = "run"))
      BY <1>1, <1>3, <1>10, <2>1, <2>2 DEF Gathered, Seen
    <2>4. ControlIsSound(prog, o, g, control', clean)
      BY <1>3, <1>10, <2>1 DEF ControlIsSound
    <2> QED BY <1>9, <2>3, <2>4
  <1>11. CASE Top.stage = "declaration"
    <2>1. control'.pc = "normalise" /\ control'.answer = a
      BY <1>1, <1>11 DEF Normalise, Go
    <2>2. Declares(Top) /\ r = q
      BY <1>1, <1>7, <1>11 DEF Declares, Awaits
    <2>3. ControlIsSound(prog, o, g, control', clean)
      BY <1>3, <1>7, <2>1, <2>2 DEF ControlIsSound
    <2>4. Gathered(prog, Known(prog, o), g, clean, Seen(g, control'.pc = "run"))
      BY <1>1, <1>3, <1>11 DEF Gathered
    <2> QED BY <1>9, <2>3, <2>4
  <1>12. CASE Top.stage = "operands" /\ ~(IsComplete(a) \/ prog.kind[q] = "binary")
    <2>1. control'.pc = "finish" /\ control'.answer = a
      BY <1>1, <1>12 DEF Finish, Go
    <2>2. ControlIsSound(prog, o, g, control', clean)
      BY <1>12, <2>1 DEF ControlIsSound
    <2>3. Seen(g, control'.pc = "run") = Top.next - 1
      BY <1>3, <2>1 DEF Seen
    <2>4. Gathered(prog, Known(prog, o), g, clean, Top.next - 1)
      BY <1>1, <1>3, <1>4, <1>6, <1>12 DEF Gathered
    <2> QED BY <1>9, <2>2, <2>3, <2>4
  <1>13. CASE Top.stage = "result"
    <2>1. control'.pc = "finish" /\ control'.answer = a
      BY <1>1, <1>13 DEF Finish, Go
    <2>2. ~Declares(Top) /\ r = prog.body[q] /\ prog.kind[q] # "parameter"
      BY <1>1, <1>6, <1>7, <1>13 DEF Declares, Awaits, WellStaged
    <2>3. Yield(prog, o, q) = r
      BY <2>2 DEF Yield
    <2>4. clean => Founded(prog, o, q)
      BY <1>1, <1>6, <1>13 DEF Gathered, Founded
    <2>5. ASSUME clean, IsComplete(a)
          PROVE  Means(prog, o, q, a.type)
      <3>1. Means(prog, o, r, a.type)
        BY <1>7, <2>2, <2>5
      <3>2. HasMeaning(prog, o, q)
        BY <1>2, <2>3, <2>4, <2>5, <3>1, MeaningRule DEF Means, Known
      <3>3. Leads(prog, o, q, a.type)
        BY <1>2, <2>3, <3>1, LeadsRule DEF Means
      <3> QED BY <3>1, <3>2, <3>3 DEF Means
    <2>6. ControlIsSound(prog, o, g, control', clean)
      BY <1>3, <2>1, <2>5 DEF ControlIsSound
    <2>7. Gathered(prog, Known(prog, o), g, clean, Seen(g, control'.pc = "run"))
      BY <1>1, <1>3, <1>13, <2>4 DEF Gathered, Founded
    <2> QED BY <1>9, <2>6, <2>7
  <1> QED BY <1>1, <1>6, <1>10, <1>11, <1>12, <1>13 DEF WellStaged

\* What a query yields that is not a parameter is its body: no parameter yields a query.
LEMMA YieldsQuery ==
    ASSUME NEW p, NEW o, OverridesAreSound(p, o), NEW q \in Query, Yield(p, o, q) \in Query
    PROVE  p.kind[q] # "parameter" /\ Yield(p, o, q) = p.body[q]
  BY TypesAssumption DEF OverridesAreSound, Yield, ParameterType

LEMMA PureNormaliseResult ==
    ASSUME IInv, Pure, NormaliseResult
    PROVE  Pure'
  <1> DEFINE q == Top.query
             o == parameterOverrides
             a == control.answer
             clean == Untainted(captures, Verdict)
  <1>1. /\ control.pc = "normalise" /\ frames # <<>> /\ Top.owner = "force"
        /\ UNCHANGED <<prog, caches, tracker>> /\ Top \in Frame /\ q \in Query /\ a \in Answer
    BY TopTypes, ControlFacts DEF NormaliseResult, session, IInv, StackDiscipline, CallsNest
  <1>2. IsComplete(a) => a.type \in Type /\ a.type = Yield(prog, o, q) /\ (clean => Founded(prog, o, q))
    BY <1>1, TopSound, AnswerTypes DEF ControlIsSound
  <1> HIDE DEF a, clean
  <1>3. ASSUME frames' = frames, NEW b, control' = Finish(b),
               IsComplete(b) => b = a /\ a.type \notin Query
        PROVE  Pure'
    <2>1. control'.pc = "finish" /\ control'.answer = b
      BY <1>3 DEF Finish, Go
    <2>2. ASSUME IsComplete(b), clean
          PROVE  Means(prog, o, q, b.type)
      <3>1. /\ b.type = Yield(prog, o, q) /\ b.type \in Plain \cup Faulty /\ Founded(prog, o, q)
        BY <1>2, <1>3, <2>2 DEF Type
      <3>2. HasMeaning(prog, o, q) /\ Leads(prog, o, q, b.type)
        BY <1>1, <3>1, MeaningRule, LeadsRule
      <3> QED BY <3>1, <3>2 DEF Means
    <2>3. ControlIsSound(prog, o, Top, control', clean)
      BY <2>1, <2>2 DEF ControlIsSound
    <2> QED BY <1>1, <1>3, <2>1, <2>3, ControlStep DEF clean
  <1>4. CASE ~IsComplete(a) \/ a.type \notin Query
    <2>1. control' = Finish(a) /\ frames' = frames
      BY <1>4 DEF NormaliseResult, a
    <2> QED BY <1>3, <1>4, <2>1
  <1>5. CASE IsComplete(a) /\ a.type \in Query /\ ProvisionalEdge(q, a.type)
    <2>1. control' = Finish(Incomplete("deferred")) /\ frames' = frames
      BY <1>5 DEF NormaliseResult, a
    <2>2. ~IsComplete(Incomplete("deferred"))
      BY DEF Incomplete, IsComplete
    <2> QED BY <1>3, <2>1, <2>2
  <1>6. CASE IsComplete(a) /\ a.type \in Query /\ ~ProvisionalEdge(q, a.type)
    <2> DEFINE g == [Top EXCEPT !.stage = "result"]
    <2>1. control'.pc = "force" /\ control'.query = a.type /\ ReplaceTop(g)
      BY <1>6 DEF NormaliseResult, a, ForceType, Go
    <2>2. /\ g \in Frame /\ g.owner = Top.owner /\ g.query = q /\ g.stage = "result"
          /\ g.next = Top.next /\ g.local = Top.local /\ g.state = Top.state
      BY <1>1 DEF Frame
    <2> HIDE DEF g
    <2>3. prog.kind[q] # "parameter" /\ a.type = prog.body[q]
      BY <1>1, <1>2, <1>6, YieldsQuery DEF Pure
    <2>4. Opens(g) => Opens(Top)
      BY <1>1 DEF Opens
    <2>5. WellStaged(prog, o, g)
      BY <1>1, <2>2, <2>3, TopSound DEF WellStaged
    <2>6. Gathered(prog, Known(prog, o), g, Opens(g) /\ clean, Seen(g, control'.pc = "run"))
      BY <1>1, <1>2, <1>6, <2>2 DEF Gathered, Founded
    <2>7. ControlIsSound(prog, o, g, control', clean)
      BY <1>1, <2>1, <2>2, <2>3 DEF ControlIsSound, Declares, Awaits
    <2> QED BY <1>1, <2>1, <2>2, <2>4, <2>5, <2>6, <2>7, Stays DEF clean
  <1> QED BY <1>4, <1>5, <1>6

LEMMA SameTop ==
    ASSUME IInv, frames # <<>>, frames' = frames
    PROVE  ReplaceTop(Top)
  <1>1. frames \in Seq(Frame) /\ Len(frames) \in DOMAIN frames
    BY PopSeq, LenProperties DEF IInv, TypeOK
  <1> QED BY <1>1 DEF ReplaceTop, Top

LEMMA PureEvaluateBinary ==
    ASSUME IInv, Pure, EvaluateBinary
    PROVE  Pure'
  <1> DEFINE q == Top.query
             o == parameterOverrides
  <1>1. /\ control.pc = "run" /\ frames # <<>> /\ Top.owner = "force" /\ TypeOK
        /\ UNCHANGED <<prog, caches, frames>> /\ ObserveCurrent(Top.state)
        /\ prog.kind[q] = "binary" /\ Top.next > Len(prog.operands[q])
        /\ control' = IF Top.state = "complete" \/ q \in prog.decided
                      THEN Normalise(Complete(prog.body[q])) ELSE Finish(Incomplete(Top.state))
    BY DEF EvaluateBinary, Running, session, IInv
  <1>2. /\ prog.operands[q] \in Seq(Query) /\ Top.next \in Nat /\ Top.state \in Completion
        /\ Len(prog.operands[q]) \in Nat /\ DOMAIN prog.operands[q] = 1..Len(prog.operands[q])
        /\ Top \in Frame /\ ReplaceTop(Top)
    BY <1>1, TopTypes, LenProperties, SameTop
  <1>3. /\ captures' \in Seq(Completion) /\ Len(captures') = Len(captures)
        /\ \A k \in 1..(Len(captures) - 1) : captures'[k] = captures[k]
        /\ TaintsShow(captures', Verdict')
        /\ Untainted(captures', Verdict') => Untainted(captures, Verdict) /\ Top.state = "complete"
        /\ captures # <<>> => (Captured(captures') = "complete"
                                 <=> Captured(captures) = "complete" /\ Top.state = "complete")
    BY <1>1, <1>2, ObserveCurrentClean DEF Pure
  <1>4. /\ WellStaged(prog, o, Top) /\ Top.stage = "operands" /\ Opens(Top) /\ captures # <<>>
        /\ Gathered(prog, Known(prog, o), Top, Captured(captures) = "complete", Top.next)
    BY <1>1, TopSound DEF ControlIsSound, Opens, Seen, Untainted
  <1>5. /\ control'.pc \in {"normalise", "finish"}
        /\ control'.pc = "normalise" => control'.answer.type = prog.body[q]
        /\ control'.pc = "finish" => ~IsComplete(control'.answer)
    BY <1>1 DEF Normalise, Finish, Go, Complete, Incomplete, IsComplete
  <1>6. Gathered(prog, Known(prog, o), Top, Opens(Top) /\ Captured(captures') = "complete",
                 Seen(Top, control'.pc = "run"))
    <2>1. Gathered(prog, Known(prog, o), Top, Captured(captures) = "complete", Top.next - 1)
      BY <1>2, <1>4, GatheredBefore
    <2>2. Seen(Top, control'.pc = "run") = Top.next - 1
      BY <1>5 DEF Seen
    <2> QED BY <1>3, <1>4, <2>1, <2>2 DEF Gathered
  <1>7. ASSUME Untainted(captures', Verdict')
        PROVE  Founded(prog, o, q)
    <2>1. Captured(captures) = "complete" /\ Top.state = "complete"
      BY <1>3, <1>4, <1>7 DEF Untainted
    <2>2. \A j \in DOMAIN prog.operands[q] : j < Top.next => prog.operands[q][j] \in Known(prog, o)
      BY <1>1, <1>4, <2>1 DEF Gathered
    <2>3. \A j \in DOMAIN prog.operands[q] : j < Top.next
      BY <1>1, <1>2
    <2>4. Meaningful(prog, q)
      BY <1>1 DEF Meaningful
    <2> QED BY <2>2, <2>3, <2>4, FoundedRule
  <1>8. prog.body[q] = Yield(prog, o, q)
    BY <1>1 DEF Yield
  <1>9. ControlIsSound(prog, o, Top, control', Untainted(captures', Verdict'))
    BY <1>5, <1>7, <1>8 DEF ControlIsSound
  <1> QED BY <1>1, <1>2, <1>3, <1>4, <1>6, <1>9, StayStep

LEMMA PureResumeInference ==
    ASSUME IInv, Pure, ResumeInference
    PROVE  Pure'
  <1> DEFINE q == Top.query
             o == parameterOverrides
             a == control.answer
             g == [Top EXCEPT !.stage = "publish"]
  <1>1. /\ control.pc = "return" /\ frames # <<>> /\ Top.owner \in {"value", "declarator"} /\ TypeOK
        /\ UNCHANGED <<prog, caches>> /\ ObserveCurrent(a.state) /\ control'.pc = "run"
        /\ IF Top.stage = "relation" THEN ReplaceTop(g) ELSE frames' = frames
    BY DEF ResumeInference, Answered, session, IInv, Run, Go
  <1>2. /\ prog.operands[q] \in Seq(Query) /\ a.state \in Completion /\ Top \in Frame /\ q \in Query
    BY <1>1, TopTypes, ControlFacts, AnswerTypes DEF IInv, StackDiscipline
  <1>3. /\ captures' \in Seq(Completion) /\ Len(captures') = Len(captures)
        /\ \A k \in 1..(Len(captures) - 1) : captures'[k] = captures[k]
        /\ TaintsShow(captures', Verdict')
        /\ captures # <<>> => (Captured(captures') = "complete"
                                 <=> Captured(captures) = "complete" /\ a.state = "complete")
    BY <1>1, <1>2, ObserveCurrentClean DEF Pure
  <1>4. /\ WellStaged(prog, o, Top)
        /\ Opens(Top) <=> captures # <<>>
        /\ Gathered(prog, Known(prog, o), Top, Opens(Top) /\ Untainted(captures, Verdict), Top.next - 1)
        /\ ControlIsSound(prog, o, Top, control, Untainted(captures, Verdict))
    BY <1>1, TopSound DEF Seen
  <1>5. /\ g \in Frame /\ g.owner = Top.owner /\ g.query = q /\ g.stage = "publish"
        /\ g.state = Top.state
    BY <1>2 DEF Frame
  <1> HIDE DEF g
  <1>6. CASE Top.stage = "relation"
    <2>1. Top.owner = "declarator"
      BY <1>1, <1>4, <1>6 DEF WellStaged
    <2>2. WellStaged(prog, o, g)
      BY <1>4, <1>5, <2>1 DEF WellStaged
    <2>3. Gathered(prog, Known(prog, o), g, Opens(g) /\ Captured(captures') = "complete",
                   Seen(g, control'.pc = "run"))
      BY <1>4, <1>5, <1>6, <2>1 DEF Gathered
    <2>4. ControlIsSound(prog, o, g, control', Untainted(captures', Verdict'))
      BY <1>1, <1>5, <2>1 DEF ControlIsSound
    <2> QED BY <1>1, <1>3, <1>5, <1>6, <2>2, <2>3, <2>4, StayStep
  <1>7. CASE Top.stage # "relation"
    <2>1. frames' = frames /\ ReplaceTop(Top)
      BY <1>1, <1>7, SameTop
    <2>2. Seen(Top, control'.pc = "run") = Top.next
      BY <1>1 DEF Seen
    <2>3. ASSUME Top.stage \in {"contexts", "operands"}, Opens(Top), Captured(captures') = "complete"
          PROVE  \A j \in DOMAIN prog.operands[q] : j < Top.next => prog.operands[q][j] \in Known(prog, o)
      <3>1. Uses(Top) /\ ~Declares(Top)
        BY <1>1, <2>3 DEF Uses, Declares
      <3>2. PICK r \in Query :
               /\ Awaits(prog, Top, r)
               /\ IsComplete(a) /\ ~Declares(Top) /\ Untainted(captures, Verdict)
                    => Means(prog, o, r, a.type)
        BY <1>1, <1>4, <3>1 DEF ControlIsSound
      <3>3. Top.stage = "operands"
        BY <1>1, <2>3, <3>1, <3>2 DEF Awaits, Declares
      <3>4. Untainted(captures, Verdict) /\ IsComplete(a)
        BY <1>3, <1>4, <2>3 DEF Untainted, IsComplete
      <3>5. Means(prog, o, r, a.type)
        BY <3>1, <3>2, <3>4
      <3>6. \A j \in DOMAIN prog.operands[q] : j < Top.next - 1 => prog.operands[q][j] \in Known(prog, o)
        BY <1>1, <1>4, <2>3, <3>4 DEF Gathered
      <3> HIDE DEF a, o
      <3> QED BY <1>1, <1>2, <3>2, <3>3, <3>5, <3>6, OneMoreOperand
    <2>4. Gathered(prog, Known(prog, o), Top, Opens(Top) /\ Captured(captures') = "complete",
                   Seen(Top, control'.pc = "run"))
      BY <1>1, <1>4, <2>2, <2>3 DEF Gathered
    <2>5. ControlIsSound(prog, o, Top, control', Untainted(captures', Verdict'))
      BY <1>1 DEF ControlIsSound
    <2> QED BY <1>1, <1>2, <1>3, <1>4, <2>1, <2>4, <2>5, StayStep
  <1> QED BY <1>6, <1>7

LEMMA PureVisits ==
    ASSUME IInv, Pure, VisitOperand \/ ResumeVisit \/ VisitForce
    PROVE  Pure'
  <1>1. /\ frames # <<>> /\ UNCHANGED <<prog, caches, tracker>> /\ Top.owner = "visit"
        /\ control'.pc \in {"visit", "run", "force"} /\ TypeOK
    BY DEF VisitOperand, ResumeVisit, VisitForce, Running, Answered, session, Visit, Run, ForceType, Go,
       IInv
  <1>2. Top \in Frame
    BY <1>1, TopTypes
  <1>3. ASSUME NEW g \in Frame, ReplaceTop(g), g.owner = Top.owner, g.query = Top.query,
               g.stage = "contexts" => Top.stage = "contexts" /\ g.next = Top.next
        PROVE  Pure'
    <2>1. ~Opens(g)
      BY <1>1, <1>3 DEF Opens
    <2>2. WellStaged(prog, parameterOverrides, g)
      BY <1>1, <1>3, TopSound DEF WellStaged
    <2>3. Gathered(prog, Known(prog, parameterOverrides), g,
                   Opens(g) /\ Untainted(captures, Verdict), Seen(g, control'.pc = "run"))
      BY <1>1, <1>3 DEF Gathered
    <2>4. ControlIsSound(prog, parameterOverrides, g, control', Untainted(captures, Verdict))
      BY <1>1, <1>3 DEF ControlIsSound, Uses
    <2> QED BY <1>1, <1>3, <2>1, <2>2, <2>3, <2>4, Stays
  <1>4. CASE VisitOperand
    <2> DEFINE g == [Top EXCEPT !.next = @ + 1]
    <2>1. g \in Frame /\ g.owner = Top.owner /\ g.query = Top.query /\ g.stage = Top.stage
      BY <1>2 DEF Frame
    <2>2. ReplaceTop(g) /\ Top.stage = "operands"
      BY <1>4 DEF VisitOperand
    <2> HIDE DEF g
    <2> QED BY <1>3, <2>1, <2>2
  <1>5. CASE ResumeVisit
    <2> DEFINE c == Combine(Top.state, control.answer.state)
               stage == IF Top.stage = "result" THEN "publish" ELSE Top.stage
               g == [Top EXCEPT !.state = c, !.stage = stage]
    <2>1. c \in Completion
      BY <1>1, <1>2, ControlFacts, AnswerTypes, CombineVerdicts DEF IInv, StackDiscipline, Frame
    <2>2. stage = Top.stage \/ stage = "publish"
      OBVIOUS
    <2>3. ReplaceTop(g)
      BY <1>5 DEF ResumeVisit
    <2> HIDE DEF c, stage
    <2>4. /\ g \in Frame /\ g.owner = Top.owner /\ g.query = Top.query /\ g.stage = stage
          /\ g.next = Top.next
      BY <1>2, <2>1, <2>2 DEF Frame
    <2> HIDE DEF g
    <2> QED BY <1>3, <2>2, <2>3, <2>4
  <1>6. CASE VisitForce
    <2> DEFINE g == [Top EXCEPT !.stage = "result"]
    <2>1. g \in Frame /\ g.owner = Top.owner /\ g.query = Top.query /\ g.stage = "result"
      BY <1>2 DEF Frame
    <2>2. ReplaceTop(g)
      BY <1>6 DEF VisitForce
    <2> HIDE DEF g
    <2> QED BY <1>3, <2>1, <2>2
  <1> QED BY <1>4, <1>5, <1>6

\* The initializer of a declarator is done: if its capture is clean, all it needs has a
\* meaning.
LEMMA PureFinishInitializer ==
    ASSUME IInv, Pure, FinishInitializer
    PROVE  Pure'
  <1> DEFINE q == Top.query
             o == parameterOverrides
             c == Captured(captures)
             stage == IF q \in prog.annotated /\ prog.body[q] \in Query THEN "relation" ELSE "publish"
             g == [Top EXCEPT !.state = c, !.stage = stage]
  <1>1. /\ control.pc = "run" /\ frames # <<>> /\ Top.owner = "declarator" /\ Top.stage = "operands"
        /\ Top.next > Len(prog.operands[q]) /\ captures' = FinishCapture(captures)
        /\ UNCHANGED <<prog, caches>> /\ ReplaceTop(g) /\ control'.pc \in {"force", "run"}
    BY DEF FinishInitializer, Running, Inferred, Infers, session, ForceType, Run, Go
  <1>2. /\ frames \in Seq(Frame) /\ captures \in Seq(Completion) /\ Top \in Frame
        /\ Len(captures) <= Len(frames) /\ captures # <<>> /\ WellStaged(prog, o, Top)
        /\ Gathered(prog, Known(prog, o), Top, c = "complete", Top.next)
    BY <1>1, TopSound DEF Aligned, Opens, Seen, Untainted
  <1>3. Len(frames) = 1
    <2>1. Len(frames) \in DOMAIN frames
      BY <1>1, <1>2, PopSeq, LenProperties
    <2> QED BY <1>1, <2>1 DEF IInv, StackDiscipline, CallsNest, Top, Root
  <1>4. c \in Completion /\ captures' = <<>>
    <2>1. /\ c \in Completion /\ captures' \in Seq(Completion)
          /\ Len(captures') = Len(captures) - 1 /\ Len(captures) \in Nat \ {0}
      BY <1>1, <1>2, FinishCaptureType, PopSeq
    <2>2. Len(captures') = 0
      BY <1>2, <1>3, <2>1
    <2> QED BY <2>1, <2>2, EmptySeq
  <1>5. stage \in {"relation", "publish"}
    OBVIOUS
  <1> HIDE DEF c, stage
  <1>6. g \in Frame /\ g.owner = Top.owner /\ g.query = q /\ g.stage = stage /\ g.state = c
    BY <1>2, <1>4, <1>5 DEF Frame
  <1> HIDE DEF g
  <1>7. c = "complete" => Founded(prog, o, q)
    <2>1. /\ prog.operands[q] \in Seq(Query) /\ Top.next \in Nat
          /\ Len(prog.operands[q]) \in Nat /\ DOMAIN prog.operands[q] = 1..Len(prog.operands[q])
      BY <1>1, TopTypes, LenProperties DEF IInv
    <2>2. \A j \in DOMAIN prog.operands[q] : j < Top.next
      BY <1>1, <2>1
    <2>3. Meaningful(prog, q)
      BY <1>1, <1>2 DEF WellStaged, Meaningful
    <2>4. c = "complete" => \A j \in DOMAIN prog.operands[q] : prog.operands[q][j] \in Known(prog, o)
      BY <1>1, <1>2, <2>2 DEF Gathered
    <2> QED BY <2>3, <2>4, FoundedRule
  <1>8. /\ frames' \in Seq(Frame) /\ Len(frames') = 1 /\ frames'[1] = g /\ Top' = g
    BY <1>1, <1>2, <1>3, <1>6, ReplaceSeq DEF ReplaceTop, Top
  <1>9. WellStaged(prog, o, g)
    BY <1>1, <1>2, <1>5, <1>6 DEF WellStaged
  <1>10. ASSUME NEW clean, NEW n
         PROVE  Gathered(prog, Known(prog, o), g, clean, n)
    BY <1>1, <1>5, <1>6, <1>7 DEF Gathered, Founded
  <1>11. CallsAreSound(prog, o, Known(prog, o), frames', captures', control'.pc = "run")
    BY <1>8, <1>9, <1>10 DEF CallsAreSound, Linked, Gathering
  <1>12. ControlIsSound(prog, o, g, control', Untainted(captures', Verdict'))
    BY <1>1, <1>5, <1>6 DEF ControlIsSound, Uses
  <1>13. TaintsShow(captures', Verdict')
    BY <1>4 DEF TaintsShow
  <1> QED BY <1>1, <1>8, <1>11, <1>12, <1>13 DEF Pure, caches

-----------------------------------------------------------------------------
\* The calls that are made.

LEMMA PureForceEnter ==
    ASSUME IInv, Pure, ForceEnter
    PROVE  Pure'
  <1> DEFINE q == control.query
             g == [NewFrame("force", q, "operands", control.depth) EXCEPT !.local = QueryLocal(prog, q)]
  <1>1. /\ control.pc = "force" /\ frames # <<>> /\ q \in Query /\ control.depth \in Nat /\ TypeOK
        /\ UNCHANGED <<prog, parameterOverrides, valueQueries, current, files, programCompletion>>
        /\ frames' = Append(frames, g) /\ captures' = BeginCapture(captures)
        /\ forceQueries' = [forceQueries EXCEPT ![q] = Computing] /\ control'.pc = "run"
    BY ControlFacts DEF ForceEnter, session, IInv, StackDiscipline, CallsNest, Run, Go
  <1>2. g \in Frame
    BY <1>1, NewFrameLocal, QueryLocalType
  <1>3. /\ g.owner = "force" /\ g.query = q /\ g.stage = "operands" /\ g.next = 1
        /\ g.local = QueryLocal(prog, q)
    BY DEF NewFrame
  <1> HIDE DEF g
  <1>4. Uses(Top) => ~Declares(Top) /\ Awaits(prog, Top, q)
    BY <1>1, TopSound DEF ControlIsSound
  <1>5. WellStaged(prog, parameterOverrides, g)
    BY <1>3 DEF WellStaged
  <1>6. ValuesAreSound(prog, parameterOverrides, valueQueries')
    BY <1>1 DEF Pure
  <1>7. ForcesAreSound(prog, parameterOverrides, forceQueries')
    <2>1. \A r \in Query : forceQueries'[r] = IF r = q THEN Computing ELSE forceQueries[r]
      BY <1>1 DEF TypeOK
    <2> HIDE DEF q
    <2> QED BY <2>1 DEF Pure, ForcesAreSound, Computing
  <1>8. ControlIsSound(prog, parameterOverrides, g, control', Untainted(captures', Verdict))
    BY <1>1, <1>3 DEF ControlIsSound
  <1>9. Opens(g)
    BY <1>3 DEF Opens
  <1> QED BY <1>1, <1>2, <1>3, <1>4, <1>5, <1>6, <1>7, <1>8, <1>9, PushStep

LEMMA PureDeclarationEnter ==
    ASSUME IInv, Pure, DeclarationEnter
    PROVE  Pure'
  <1> DEFINE q == control.query
             g == NewFrame("value", q, "contexts", 0)
  <1>1. /\ control.pc = "declaration" /\ frames # <<>> /\ q \in Query /\ TypeOK
        /\ UNCHANGED <<prog, parameterOverrides, forceQueries, current, files, programCompletion>>
        /\ frames' = Append(frames, g) /\ captures' = BeginCapture(captures)
        /\ valueQueries' = [valueQueries EXCEPT ![q] = Computing] /\ control'.pc = "run"
        /\ parameterOverrides[q] = None
    BY DEF DeclarationEnter, session, IInv, StackDiscipline, CallsNest, Run, Go
  <1>2. g \in Frame
    BY <1>1, NewFrameType
  <1>3. g.owner = "value" /\ g.query = q /\ g.stage = "contexts" /\ g.next = 1
    BY DEF NewFrame
  <1> HIDE DEF g
  <1>4. /\ Uses(Top) => Declares(Top) /\ Awaits(prog, Top, q)
        /\ prog.kind[q] \in {"value", "parameter"}
    BY <1>1, TopSound DEF ControlIsSound
  <1>5. WellStaged(prog, parameterOverrides, g)
    BY <1>1, <1>3, <1>4 DEF WellStaged
  <1>6. ForcesAreSound(prog, parameterOverrides, forceQueries')
    BY <1>1 DEF Pure
  <1>7. ValuesAreSound(prog, parameterOverrides, valueQueries')
    <2>1. \A r \in Query : valueQueries'[r] = IF r = q THEN Computing ELSE valueQueries[r]
      BY <1>1 DEF TypeOK
    <2> HIDE DEF q
    <2> QED BY <2>1 DEF Pure, ValuesAreSound, Computing
  <1>8. ControlIsSound(prog, parameterOverrides, g, control', Untainted(captures', Verdict))
    BY <1>1, <1>3 DEF ControlIsSound
  <1>9. Opens(g)
    BY <1>3 DEF Opens
  <1> QED BY <1>1, <1>2, <1>3, <1>4, <1>5, <1>6, <1>7, <1>8, <1>9, PushStep

LEMMA PureVisitEnter ==
    ASSUME IInv, Pure, VisitEnter
    PROVE  Pure'
  <1> DEFINE g == NewFrame("visit", control.query, "operands", 0)
  <1>1. /\ control.pc = "visit" /\ frames # <<>> /\ control.query \in Query /\ TypeOK
        /\ UNCHANGED <<prog, caches, tracker>> /\ frames' = Append(frames, g) /\ control'.pc = "run"
    BY DEF VisitEnter, session, IInv, StackDiscipline, CallsNest, Run, Go
  <1>2. g \in Frame
    BY <1>1, NewFrameType
  <1>3. g.owner = "visit" /\ g.stage = "operands" /\ g.next = 1
    BY DEF NewFrame
  <1> HIDE DEF g
  <1>4. Top.owner \in {"visit", "require"}
    <2>1. Len(frames) \in DOMAIN frames
      BY <1>1, PopSeq, LenProperties DEF TypeOK
    <2> QED BY <1>1, <2>1 DEF IInv, StackDiscipline, VisitsComeFirst, Top
  <1>5. ~Uses(Top) /\ captures = <<>> /\ ~Opens(g) /\ captures' = captures
    BY <1>1, <1>3, <1>4, TopSound DEF Uses, Opens, tracker
  <1>6. WellStaged(prog, parameterOverrides, g)
    BY <1>3 DEF WellStaged
  <1>7. ControlIsSound(prog, parameterOverrides, g, control', Untainted(captures', Verdict))
    BY <1>1, <1>3 DEF ControlIsSound
  <1>8. /\ ValuesAreSound(prog, parameterOverrides, valueQueries')
        /\ ForcesAreSound(prog, parameterOverrides, forceQueries')
        /\ UNCHANGED <<prog, parameterOverrides, current, files, programCompletion>>
    BY <1>1 DEF Pure, caches, tracker
  <1> QED BY <1>1, <1>2, <1>3, <1>5, <1>6, <1>7, <1>8, PushStep

-----------------------------------------------------------------------------
\* The calls that return.

\* The call below is one that waits for what the call on top was made for.
LEMMA BelowSound ==
    ASSUME IInv, Pure, Len(frames) > 1
    PROVE  Uses(frames[Len(frames) - 1]) =>
               /\ Top.owner = IF Declares(frames[Len(frames) - 1]) THEN "value" ELSE "force"
               /\ Awaits(prog, frames[Len(frames) - 1], Top.query)
  <1> DEFINE n == Len(frames)
  <1>1. n \in Nat /\ n > 1
    BY LenProperties DEF IInv, TypeOK
  <1>2. Linked(prog, frames)
    BY DEF Pure, CallsAreSound
  <1>3. Top = frames[n]
    BY DEF Top
  <1> HIDE DEF n
  <1>4. n - 1 \in 1..(n - 1) /\ n - 1 + 1 = n
    BY <1>1
  <1> QED BY <1>2, <1>3, <1>4 DEF Linked, n

LEMMA PureFinishForce ==
    ASSUME IInv, Pure, FinishForce
    PROVE  Pure'
  <1> DEFINE q == Top.query
             o == parameterOverrides
             a == control.answer
             below == frames[Len(frames) - 1]
  <1>1. /\ control.pc = "finish" /\ frames # <<>> /\ Top.owner = "force" /\ TypeOK
        /\ captures' = FinishCapture(captures) /\ Verdict' = Verdict
        /\ forceQueries' = [forceQueries EXCEPT ![q] = Settled(Top, a, Captured(captures))]
        /\ frames' = Below /\ control'.pc = "return" /\ control'.answer = a
        /\ UNCHANGED <<prog, parameterOverrides, valueQueries>>
    BY ControlFacts DEF FinishForce, session, IInv, StackDiscipline, CallsNest, Return, Go, Verdict
  <1>2. /\ captures \in Seq(Completion) /\ captures # <<>> /\ Opens(Top) /\ WellStaged(prog, o, Top)
        /\ q \in Query /\ TaintsShow(captures, Verdict)
        /\ IsComplete(a) /\ Captured(captures) = "complete" => Means(prog, o, q, a.type)
    BY <1>1, TopSound DEF Opens, Frame, ControlIsSound, Untainted, Pure
  <1>3. /\ captures' \in Seq(Completion) /\ Len(captures') = Len(captures) - 1
        /\ TaintsShow(captures', Verdict)
        /\ Untainted(captures', Verdict) => Captured(captures) = "complete"
        /\ \A k \in 1..(Len(captures) - 1) : captures'[k] = "complete" => captures[k] = "complete"
    BY <1>1, <1>2, FinishClean
  <1> HIDE DEF a, below
  <1>4. ForcesAreSound(prog, o, forceQueries')
    <2> DEFINE entry == Settled(Top, a, Captured(captures))
    <2>1. \A r \in Query : forceQueries'[r] = IF r = q THEN entry ELSE forceQueries[r]
      BY <1>1 DEF TypeOK
    <2>2. entry.state = "ready" =>
             entry.type \in Plain /\ Means(prog, o, q, entry.type) /\ ~QueryLocal(prog, q)
      BY <1>1, <1>2 DEF Settled, Remembered, IsCacheable, WellStaged, Ready, Absent
    <2> HIDE DEF entry, q, o
    <2> QED BY <2>1, <2>2 DEF Pure, ForcesAreSound, o
  <1>5. ValuesAreSound(prog, o, valueQueries')
    BY <1>1 DEF Pure
  <1>6. Len(frames) > 1 => ControlIsSound(prog, o, below, control', Untainted(captures', Verdict'))
    <2> SUFFICES ASSUME Len(frames) > 1
                 PROVE  ControlIsSound(prog, o, below, control', Untainted(captures', Verdict'))
      OBVIOUS
    <2>1. Uses(below) => ~Declares(below) /\ Awaits(prog, below, q)
      BY <1>1, BelowSound DEF below
    <2> QED BY <1>1, <1>2, <1>3, <2>1 DEF ControlIsSound
  <1> QED BY <1>1, <1>2, <1>3, <1>4, <1>5, <1>6, PopStep DEF below

LEMMA PureFinishDeclaration ==
    ASSUME IInv, Pure, FinishDeclaration
    PROVE  Pure'
  <1> DEFINE q == Top.query
             o == parameterOverrides
             c == Captured(captures)
             caps == FinishCapture(captures)
             below == frames[Len(frames) - 1]
  <1>1. /\ control.pc = "run" /\ frames # <<>> /\ Top.owner = "value" /\ TypeOK /\ Inferred
        /\ ObserveFile(caps, prog.home[q], c)
        /\ valueQueries' = [valueQueries EXCEPT ![q] = Published(prog.body[q], c)]
        /\ frames' = Below
        /\ control'.pc = "return" /\ control'.answer.type = prog.body[q]
        /\ UNCHANGED <<prog, parameterOverrides, forceQueries>>
    BY DEF FinishDeclaration, Running, session, IInv, Return, Go, Complete
  <1>2. /\ captures \in Seq(Completion) /\ captures # <<>> /\ Opens(Top) /\ WellStaged(prog, o, Top)
        /\ q \in Query /\ TaintsShow(captures, Verdict) /\ Top.stage = "operands"
        /\ Gathered(prog, Known(prog, o), Top, c = "complete", Top.next)
    BY <1>1, TopSound DEF Opens, Frame, Seen, Untainted, Pure, Inferred
  <1>3. /\ caps \in Seq(Completion) /\ Len(caps) = Len(captures) - 1 /\ c \in Completion
        /\ TaintsShow(caps, Verdict)
        /\ \A k \in 1..(Len(captures) - 1) : caps[k] = "complete" => captures[k] = "complete"
    BY <1>2, FinishClean
  <1>4. captures' = Capture(caps, c)
    BY <1>1 DEF ObserveFile
  <1>5. Verdict' = "complete" => Verdict = "complete" /\ c = "complete"
    <2> HIDE DEF c, caps
    <2> QED BY <1>1, <1>3, ObservedClean
  <1> HIDE DEF c, caps, below
  <1>6. /\ captures' \in Seq(Completion) /\ Len(captures') = Len(caps)
        /\ caps # <<>> => (Captured(captures') = "complete"
                             <=> Captured(caps) = "complete" /\ c = "complete")
        /\ \A k \in 1..Len(caps) : /\ captures'[k] = "complete" => caps[k] = "complete"
                                   /\ caps[k] = "complete" /\ c = "complete" => captures'[k] = "complete"
    BY <1>3, <1>4, CaptureClean
  <1>7. TaintsShow(captures', Verdict')
    BY <1>3, <1>5, <1>6 DEF TaintsShow
  <1>8. Untainted(captures', Verdict') => c = "complete"
    <2>1. captures' = <<>> <=> caps = <<>>
      BY <1>3, <1>6, EmptySeq
    <2> QED BY <1>5, <1>6, <2>1 DEF Untainted
  <1>9. c = "complete" => Founded(prog, o, q)
    <2> SUFFICES ASSUME c = "complete" PROVE Founded(prog, o, q)
      OBVIOUS
    <2>1. Meaningful(prog, q) /\ prog.kind[q] \in {"value", "parameter"}
      BY <1>1, <1>2 DEF WellStaged, Meaningful
    <2>2. CASE q \in prog.annotated
      BY <2>1, <2>2 DEF Founded, Grounded, Needed
    <2>3. CASE q \notin prog.annotated
      <3>1. /\ prog.operands[q] \in Seq(Query) /\ Top.next \in Nat
            /\ Len(prog.operands[q]) \in Nat /\ DOMAIN prog.operands[q] = 1..Len(prog.operands[q])
        BY <1>1, TopTypes, LenProperties
      <3>2. \A j \in DOMAIN prog.operands[q] : j < Top.next
        BY <1>1, <2>3, <3>1 DEF Inferred, Infers
      <3>3. \A j \in DOMAIN prog.operands[q] : prog.operands[q][j] \in Known(prog, o)
        BY <1>1, <1>2, <3>2 DEF Gathered
      <3> QED BY <2>1, <3>3, FoundedRule
    <2> QED BY <2>2, <2>3
  <1>10. ValuesAreSound(prog, o, valueQueries')
    <2> DEFINE entry == Published(prog.body[q], c)
    <2>1. \A r \in Query : valueQueries'[r] = IF r = q THEN entry ELSE valueQueries[r]
      BY <1>1 DEF TypeOK
    <2>2. /\ entry.state # "provisional"
          /\ entry.state = "ready" =>
                /\ prog.kind[q] \in {"value", "parameter"}
                /\ entry.type = prog.body[q] /\ prog.body[q] \in Plain /\ Founded(prog, o, q)
      BY <1>1, <1>2, <1>9 DEF Published, IsCacheable, WellStaged, Ready, Absent
    <2> HIDE DEF entry, q, o
    <2> QED BY <2>1, <2>2 DEF Pure, ValuesAreSound, o
  <1>11. ForcesAreSound(prog, o, forceQueries')
    BY <1>1 DEF Pure
  <1>12. prog.body[q] = Yield(prog, o, q)
    <2>1. prog.kind[q] = "parameter" => prog.body[q] = Any /\ o[q] = None
      BY <1>1, <1>2 DEF IInv, ParametersAreLeaves, WellStaged
    <2> QED BY <2>1 DEF Yield, ParameterType
  <1>13. Len(frames) > 1 => ControlIsSound(prog, o, below, control', Untainted(captures', Verdict'))
    <2> SUFFICES ASSUME Len(frames) > 1
                 PROVE  ControlIsSound(prog, o, below, control', Untainted(captures', Verdict'))
      OBVIOUS
    <2>1. Uses(below) => Declares(below) /\ Awaits(prog, below, q)
      BY <1>1, BelowSound DEF below
    <2> QED BY <1>1, <1>2, <1>8, <1>9, <1>12, <2>1 DEF ControlIsSound
  <1>14. /\ Len(captures') = Len(captures) - 1
         /\ \A k \in 1..Len(captures') : captures'[k] = "complete" => captures[k] = "complete"
    BY <1>3, <1>6
  <1> QED BY <1>1, <1>2, <1>6, <1>7, <1>10, <1>11, <1>13, <1>14, PopStep DEF below

LEMMA PureVisitClose ==
    ASSUME IInv, Pure, VisitClose
    PROVE  Pure'
  <1> DEFINE q == Top.query
             below == frames[Len(frames) - 1]
  <1>1. /\ frames # <<>> /\ Top.owner = "visit" /\ TypeOK /\ frames' = Below /\ control'.pc = "return"
        /\ UNCHANGED <<prog, parameterOverrides, valueQueries, tracker>>
        /\ forceQueries' = Evicted(q, Top.state)
    BY DEF VisitClose, Running, session, IInv, Return, Go
  <1>2. /\ frames \in Seq(Frame) /\ q \in Query /\ ~Opens(Top)
        /\ captures \in Seq(Completion) /\ TaintsShow(captures, Verdict)
    BY <1>1, TopSound DEF Opens, Frame, Pure
  <1>3. captures' = captures /\ Verdict' = Verdict
    BY <1>1 DEF tracker, Verdict
  <1>4. ForcesAreSound(prog, parameterOverrides, forceQueries')
    <2>1. \A r \in Query : forceQueries'[r] \in {forceQueries[r], Absent}
      BY <1>1, <1>2 DEF TypeOK, Evicted
    <2> QED BY <2>1 DEF Pure, ForcesAreSound, Absent
  <1>5. ValuesAreSound(prog, parameterOverrides, valueQueries')
    BY <1>1 DEF Pure
  <1>6. Len(frames) > 1 => ~Uses(below)
    BY <1>1, BelowSound DEF below
  <1> HIDE DEF below
  <1>7. Len(frames) > 1 =>
            ControlIsSound(prog, parameterOverrides, below, control', Untainted(captures', Verdict'))
    BY <1>1, <1>6 DEF ControlIsSound
  <1> QED BY <1>1, <1>2, <1>3, <1>4, <1>5, <1>7, PopStep DEF below

-----------------------------------------------------------------------------
\* Parameters take their types from a context: what has a meaning stays the same, and
\* no remembered answer rests on such a type.

LEMMA ParametersYieldPlain ==
    ASSUME NEW p, NEW o, OverridesAreSound(p, o)
    PROVE  \A r \in Query : p.kind[r] = "parameter" => Yield(p, o, r) \in Plain
  BY TypesAssumption DEF OverridesAreSound, Yield, ParameterType

LEMMA SameKnown ==
    ASSUME NEW p, NEW o, NEW u, OverridesAreSound(p, o), OverridesAreSound(p, u)
    PROVE  Known(p, u) = Known(p, o)
  <1>1. \A r \in Query : p.kind[r] = "parameter" =>
            Yield(p, o, r) \in Plain /\ Yield(p, u, r) \in Plain
    BY ParametersYieldPlain
  <1>2. \A r \in Query : HasMeaning(p, o, r) <=> HasMeaning(p, u, r)
    BY <1>1, MeaningStays
  <1> QED BY <1>2 DEF Known

LEMMA PureInferContexts ==
    ASSUME IInv, Pure, InferContexts
    PROVE  Pure'
  <1> DEFINE q == Top.query
             o == parameterOverrides
             fixed == {r \in prog.contexts[q] : IsCacheable(prog.context[r])}
             g == [Top EXCEPT !.stage = "operands"]
  <1>1. /\ control.pc = "run" /\ control' = control /\ frames # <<>> /\ TypeOK
        /\ Top.owner \in {"value", "declarator"} /\ Top.stage = "contexts"
        /\ UNCHANGED <<prog, forceQueries, tracker>> /\ ReplaceTop(g)
    BY DEF InferContexts, Inferring, Running, session, IInv
  <1>2. /\ Top \in Frame /\ q \in Query /\ frames \in Seq(Frame) /\ captures \in Seq(Completion)
        /\ Aligned(frames, captures) /\ WellStaged(prog, o, Top)
        /\ Opens(Top) <=> captures # <<>>
        /\ Gathered(prog, Known(prog, o), Top, Opens(Top) /\ Untainted(captures, Verdict), Top.next)
    BY <1>1, TopSound DEF Seen, Frame
  <1>3. /\ g \in Frame /\ g.owner = Top.owner /\ g.query = q /\ g.stage = "operands"
        /\ g.next = Top.next /\ g.local = Top.local /\ g.state = Top.state
    BY <1>2 DEF Frame
  <1> HIDE DEF g
  <1>4. /\ Opens(g) <=> Opens(Top)
        /\ Seen(g, control'.pc = "run") = Top.next
    BY <1>1, <1>3 DEF Opens, Seen
  <1>5. Gathered(prog, Known(prog, o), g, Opens(g) /\ Untainted(captures, Verdict), Top.next)
    BY <1>1, <1>2, <1>3, <1>4 DEF Gathered
  <1>6. ControlIsSound(prog, parameterOverrides', g, control', Untainted(captures, Verdict))
    BY <1>1, <1>3 DEF ControlIsSound
  <1>7. CASE UNCHANGED <<parameterOverrides, valueQueries>>
    <2>1. WellStaged(prog, o, g)
      BY <1>1, <1>2, <1>3 DEF WellStaged
    <2> QED BY <1>1, <1>3, <1>4, <1>5, <1>6, <1>7, <2>1, Stays DEF caches
  <1>8. CASE /\ parameterOverrides' = [r \in Query |-> IF r \in fixed THEN prog.context[r] ELSE o[r]]
             /\ valueQueries' = [r \in Query |-> IF r \in fixed THEN Absent ELSE valueQueries[r]]
    <2> DEFINE u == parameterOverrides'
               K == Known(prog, o)
    <2>1. \A r \in Query : u[r] = IF r \in fixed THEN prog.context[r] ELSE o[r]
      BY <1>8
    <2>2. /\ \A r \in fixed : prog.kind[r] = "parameter" /\ prog.context[r] \in Plain
          /\ \A r \in fixed : r \in Contextual(prog)
          /\ prog.kind[q] = "parameter" => fixed = {}
      BY <1>2 DEF IInv, ParametersAreLeaves, IsCacheable, Contextual
    <2>3. \A r \in Query : valueQueries'[r] = IF r \in fixed THEN Absent ELSE valueQueries[r]
      BY <1>8
    <2> HIDE DEF fixed, u
    <2>4. OverridesAreSound(prog, o) /\ OverridesAreSound(prog, u)
      BY <2>1, <2>2 DEF Pure, OverridesAreSound
    <2>5. Known(prog, u) = K
      BY <2>4, SameKnown
    <2>6. ValuesAreSound(prog, u, valueQueries')
      <3>1. \A r \in Query : Founded(prog, u, r) <=> Founded(prog, o, r)
        BY <2>5 DEF Founded
      <3> QED BY <2>3, <3>1 DEF Pure, ValuesAreSound, Absent
    <2>7. ForcesAreSound(prog, u, forceQueries')
      <3> SUFFICES ASSUME NEW r \in Query, forceQueries[r].state = "ready"
                   PROVE  Means(prog, u, r, forceQueries[r].type)
        BY <1>1 DEF Pure, ForcesAreSound
      <3> DEFINE t == forceQueries[r].type
      <3>1. Means(prog, o, r, t) /\ ~YieldsContextual(prog, r)
        BY DEF Pure, ForcesAreSound, ContextualTypesAreLocal
      <3>2. HasMeaning(prog, u, r)
        BY <2>5, <3>1 DEF Means, Known
      <3>3. Leads(prog, u, r, t)
        <4>1. \A s \in Query : s \notin Contextual(prog) => u[s] = o[s]
          BY <2>1, <2>2
        <4>2. Query \cap Plain = {} /\ Leads(prog, o, r, t)
          BY <3>1, TypesAssumption DEF Means
        <4>3. \A s \in Query : prog.kind[s] = "parameter" => Yield(prog, o, s) \in Plain
          BY <2>4, ParametersYieldPlain
        <4> HIDE DEF o, t
        <4> QED BY <3>1, <4>1, <4>2, <4>3, LeadsStays
      <3> QED BY <3>1, <3>2, <3>3 DEF Means
    <2>8. ASSUME NEW i \in 1..Len(frames)
          PROVE  WellStaged(prog, u, frames[i])
      <3>1. WellStaged(prog, o, frames[i])
        BY DEF Pure, CallsAreSound
      <3>2. ASSUME frames[i].owner = "value", prog.kind[frames[i].query] = "parameter"
            PROVE  u[frames[i].query] = None
        <4>1. i \in DOMAIN frames
          BY <1>2, LenProperties
        <4>2. frames[i] = Top
          BY <3>2, <4>1 DEF IInv, StackDiscipline, ParametersOnTop, Top
        <4> QED BY <1>2, <2>1, <2>2, <3>1, <3>2, <4>2 DEF WellStaged
      <3> QED BY <3>1, <3>2 DEF WellStaged
    <2>9. WellStaged(prog, u, g)
      <3>1. WellStaged(prog, u, Top)
        <4>1. Len(frames) \in 1..Len(frames)
          BY <1>1, <1>2, PopSeq
        <4> QED BY <2>8, <4>1 DEF Top
      <3> QED BY <1>1, <1>3, <3>1 DEF WellStaged
    <2>10. CallsAreSound(prog, u, K, frames, captures, TRUE)
      BY <1>1, <2>8 DEF Pure, CallsAreSound
    <2>11. Gathered(prog, K, g, Opens(g) /\ captures[Len(captures)] = "complete", Seen(g, TRUE))
      <3>1. Opens(g) => (Untainted(captures, Verdict) = (captures[Len(captures)] = "complete"))
        BY <1>2, <1>4 DEF Untainted, Captured
      <3>2. Seen(g, TRUE) = Top.next
        BY <1>3 DEF Seen
      <3> QED BY <1>5, <3>1, <3>2 DEF Gathered
    <2>12. g.owner = frames[Len(frames)].owner /\ g.query = frames[Len(frames)].query
      BY <1>3 DEF Top
    <2> HIDE DEF K, o, q
    <2>13. CallsAreSound(prog, u, K, [frames EXCEPT ![Len(frames)] = g], captures, TRUE)
      BY <1>1, <1>2, <1>3, <2>9, <2>10, <2>11, <2>12, ReplaceKeeps
    <2>14. /\ frames' = [frames EXCEPT ![Len(frames)] = g] /\ Top' = g
           /\ captures' = captures /\ Verdict' = Verdict /\ prog' = prog /\ control'.pc = "run"
      BY <1>1, <1>2, <1>3, ReplaceSeq DEF ReplaceTop, Top, tracker, Verdict
    <2>15. CallsAreSound(prog', u, Known(prog', u), frames', captures', control'.pc = "run")
      <3>1. (control'.pc = "run") = TRUE
        BY <2>14
      <3> QED BY <2>5, <2>13, <2>14, <3>1
    <2>16. ContextualTypesAreLocal(prog) /\ TaintsShow(captures, Verdict)
      BY DEF Pure
    <2> QED BY <1>6, <2>4, <2>6, <2>7, <2>14, <2>15, <2>16 DEF Pure, u
  <1> QED BY <1>7, <1>8 DEF InferContexts

-----------------------------------------------------------------------------
LEMMA PureStep ==
    ASSUME IInv, Pure, [Next]_vars
    PROVE  Pure'
  <1>1. CASE UNCHANGED vars
    <2>1. /\ UNCHANGED <<prog, frames, captures, control, parameterOverrides, forceQueries, valueQueries>>
          /\ Verdict' = Verdict /\ Top' = Top
      BY <1>1 DEF vars, Verdict, Top
    <2> QED BY <2>1 DEF Pure
  <1>2. CASE Check
    BY <1>2, PureSessions, PureRoots DEF Check
  <1>3. CASE Evaluate
    BY <1>3, PureCloses, PureForceGuards, PureForceEnter, PureFinishes, PureEvaluateDeclaration,
       PureOperands, PureEvaluateBody, PureEvaluateBinary, PureResumeForce, PureNormaliseResult,
       PureFinishForce, PureDeclarationGuards, PureDeclarationEnter, PureInferContexts,
       PureResumeInference, PureFinishDeclaration, PureFinishInitializer, PurePublishDeclarator,
       PureVisitAgain, PureVisitEnter, PureVisits, PureVisitClose
       DEF Evaluate
  <1> QED BY <1>1, <1>2, <1>3 DEF Next

LEMMA InitPure ==
    ASSUME Init, ContextualTypesAreLocal(prog)
    PROVE  Pure
  <1>1. TaintsShow(captures, Verdict)
    BY DEF Init, TaintsShow
  <1>2. CallsAreSound(prog, parameterOverrides, Known(prog, parameterOverrides), frames, captures,
                      control.pc = "run")
    BY DEF Init, CallsAreSound, Linked, Gathering
  <1>3. /\ OverridesAreSound(prog, parameterOverrides)
        /\ ValuesAreSound(prog, parameterOverrides, valueQueries)
        /\ ForcesAreSound(prog, parameterOverrides, forceQueries)
        /\ frames = <<>>
    BY DEF Init, OverridesAreSound, ValuesAreSound, ForcesAreSound, Absent
  <1> QED BY <1>1, <1>2, <1>3 DEF Pure

\* In a program whose contextual types are request-local the invariant holds.
LEMMA AlwaysPure == Spec /\ ContextualTypesAreLocal(prog) => [](IInv /\ Pure)
  <1>1. Init /\ ContextualTypesAreLocal(prog) => Pure
    BY InitPure
  <1>2. IInv /\ Pure /\ [Next]_vars => Pure'
    BY PureStep
  <1> QED BY <1>1, <1>2, Inductive, PTL DEF Spec

\* A remembered answer is the meaning of its query, and so is a remembered declaration
\* (QueryState::Ready, is_cacheable_type), in a program where what yields the type of a
\* contextual parameter is request-local.
THEOREM CachesArePure == Spec /\ ContextualTypesAreLocal(prog) => []CachePurity
  <1>1. IInv /\ Pure => CachePurity
    <2> SUFFICES ASSUME IInv, Pure PROVE CachePurity
      OBVIOUS
    <2>1. ForceCachePurity
      BY DEF Pure, ForcesAreSound, ForceCachePurity
    <2>2. ValueCachePurity
      <3> SUFFICES ASSUME NEW q \in Query, valueQueries[q].state = "ready", parameterOverrides[q] = None
                   PROVE  Means(prog, parameterOverrides, q, valueQueries[q].type)
        BY DEF ValueCachePurity
      <3> DEFINE t == valueQueries[q].type
                 o == parameterOverrides
      <3>1. t = prog.body[q] /\ t \in Plain /\ Founded(prog, o, q)
        BY DEF Pure, ValuesAreSound
      <3>2. Yield(prog, o, q) = t
        BY <3>1 DEF Yield, ParameterType, IInv, ParametersAreLeaves
      <3> HIDE DEF t, o
      <3>3. HasMeaning(prog, o, q) /\ Leads(prog, o, q, t)
        BY <3>1, <3>2, MeaningRule, LeadsRule
      <3> QED BY <3>1, <3>3 DEF Means, t, o
    <2> QED BY <2>1, <2>2 DEF CachePurity
  <1> QED BY <1>1, AlwaysPure, PTL

\* A demand is answered with a meaning as long as the verdict it answers to is complete
\* (require_completion, observe_file), in the same programs.
THEOREM VerdictsAreHonest == Spec /\ ContextualTypesAreLocal(prog) => []VerdictIsHonest
  <1>1. IInv /\ Pure => VerdictIsHonest
    <2> SUFFICES ASSUME IInv, Pure, Answered("demand") \/ Answered("flush"), Verdict = "complete",
                        IsComplete(control.answer)
                 PROVE  Means(prog, parameterOverrides, Top.query, control.answer.type)
      BY DEF VerdictIsHonest
    <2>1. /\ control.pc = "return" /\ frames # <<>> /\ Top.owner \in {"demand", "flush"}
      BY DEF Answered
    <2>2. captures = <<>> /\ ControlIsSound(prog, parameterOverrides, Top, control, Untainted(captures, Verdict))
      BY <2>1, TopSound DEF Opens
    <2>3. Untainted(captures, Verdict) /\ Uses(Top) /\ ~Declares(Top)
      BY <2>1, <2>2 DEF Untainted, Uses, Declares
    <2>4. PICK q \in Query : Awaits(prog, Top, q) /\ Means(prog, parameterOverrides, q, control.answer.type)
      BY <2>1, <2>2, <2>3 DEF ControlIsSound
    <2>5. q = Top.query
      BY <2>1, <2>4 DEF Awaits, Declares
    <2> QED BY <2>4, <2>5
  <1> QED BY <1>1, AlwaysPure, PTL
=============================================================================
