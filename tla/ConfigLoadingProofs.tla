------------------------- MODULE ConfigLoadingProofs ------------------------
(***************************************************************************)
(* A cached configuration can reach no cycle, and the cache cannot be seen in  *)
(* the result, for every file system.                                          *)
(***************************************************************************)
EXTENDS ConfigLoadingProperties, SequenceTheorems, FiniteSetTheorems, WellFoundedInduction, TLAPS

BasesOf(i) == host.bases[loads[i].config]

\* A load is within its bases, and the one above it is of the base it is at.
Linked(i) ==
    /\ loads[i].config \notin host.unreadable
    /\ loads[i].next <= Len(BasesOf(i)) + 1
    /\ i < Len(loads) =>
          loads[i].next <= Len(BasesOf(i)) /\ BasesOf(i)[loads[i].next] = loads[i + 1].config

\* The stack holds each configuration once, and each extends the next one.
StackIsPath ==
    /\ \A i, j \in DOMAIN loads : loads[i].config = loads[j].config => i = j
    /\ \A i \in DOMAIN loads : Linked(i)
    /\ control.op \in {"start", "done"} => loads = <<>>

\* A base that needs no further thought when its configuration is cached.
Settled(b) == b \in Cached \cup host.unreadable \cup {Missing}

\* What the call on top waits for: the base it is at.
AwaitedLoad ==
    loads # <<>> /\ control.op = "load" =>
        Top.next <= Len(Bases) /\ Bases[Top.next] = control.config

Failed(result) == IF result = NoConfig THEN FALSE ELSE ~result.complete

AwaitedReturn ==
    loads # <<>> /\ control.op = "return" =>
        /\ Top.next <= Len(Bases)
        /\ \/ Settled(Bases[Top.next])
           \/ Top.config \in incomplete
           \/ Failed(control.result)

Awaited == AwaitedLoad /\ AwaitedReturn

\* As long as a load is complete, what it has merged is settled, or a cycle
\* went through it.
BasesSettled ==
    \A i \in DOMAIN loads : loads[i].complete =>
        \/ loads[i].config \in incomplete
        \/ \A j \in 1..(loads[i].next - 1) : Settled(BasesOf(i)[j])

CacheIsComplete == \A c \in Cached : cache[c].complete

IInv ==
    /\ TypeOK
    /\ StackIsPath
    /\ Awaited
    /\ BasesSettled
    /\ CacheIsComplete
    /\ CacheIsDefinitive

-----------------------------------------------------------------------------
\* The three ways the stack of loads changes.
LEMMA Pushed ==
    ASSUME NEW S, NEW s \in Seq(S), NEW e \in S
    PROVE  /\ Append(s, e) \in Seq(S)
           /\ Len(Append(s, e)) = Len(s) + 1
           /\ DOMAIN Append(s, e) = 1..(Len(s) + 1)
           /\ \A i \in 1..Len(s) : Append(s, e)[i] = s[i]
           /\ Append(s, e)[Len(s) + 1] = e
    OBVIOUS

LEMMA Popped ==
    ASSUME NEW S, NEW s \in Seq(S), s # <<>>
    PROVE  /\ SubSeq(s, 1, Len(s) - 1) \in Seq(S)
           /\ Len(SubSeq(s, 1, Len(s) - 1)) = Len(s) - 1
           /\ DOMAIN SubSeq(s, 1, Len(s) - 1) = 1..(Len(s) - 1)
           /\ \A i \in 1..(Len(s) - 1) : SubSeq(s, 1, Len(s) - 1)[i] = s[i]
           /\ Len(s) \in Nat \ {0}
<1>1. Len(s) \in Nat \ {0} /\ \A i \in 1..(Len(s) - 1) : s[i] \in S
    OBVIOUS
<1>2. SubSeq(s, 1, Len(s) - 1) = [i \in 1..(Len(s) - 1) |-> s[i]]
    BY <1>1
<1>3. [i \in 1..(Len(s) - 1) |-> s[i]] \in Seq(S)
    BY <1>1
<1>4. Len([i \in 1..(Len(s) - 1) |-> s[i]]) = Len(s) - 1
    BY <1>1
<1> QED BY <1>1, <1>2, <1>3, <1>4

LEMMA Changed ==
    ASSUME NEW S, NEW s \in Seq(S), s # <<>>, NEW e \in S
    PROVE  /\ [s EXCEPT ![Len(s)] = e] \in Seq(S)
           /\ Len([s EXCEPT ![Len(s)] = e]) = Len(s)
           /\ DOMAIN [s EXCEPT ![Len(s)] = e] = 1..Len(s)
           /\ \A i \in 1..(Len(s) - 1) : [s EXCEPT ![Len(s)] = e][i] = s[i]
           /\ [s EXCEPT ![Len(s)] = e][Len(s)] = e
           /\ Len(s) \in Nat \ {0}
    OBVIOUS

LEMMA MergeFromType ==
    ASSUME NEW m \in Merged, NEW o \in Merged
    PROVE  MergeFrom(m, o) \in Merged
    BY DEF MergeFrom, Merged

LEMMA OwnType ==
    ASSUME TypeOK, NEW c \in Config
    PROVE  Own(c) \in Merged
    BY DEF Own, Merged

LEMMA EmptyType == Empty \in Merged
    BY DEF Empty, Merged

LEMMA BasesType ==
    ASSUME TypeOK, NEW c \in Config
    PROVE  host.bases[c] \in Seq(Config \cup {Missing})
    BY DEF TypeOK, Host

\* The locals of every active call.
LEMMA LoadType ==
    ASSUME TypeOK
    PROVE  /\ DOMAIN loads = 1..Len(loads) /\ Len(loads) \in Nat
           /\ \A i \in 1..Len(loads) :
                /\ loads[i] \in Load
                /\ loads[i].config \in Config
                /\ loads[i].next \in Nat \ {0}
                /\ loads[i].merged \in Merged
                /\ loads[i].complete \in BOOLEAN
<1>1. /\ DOMAIN loads = 1..Len(loads) /\ Len(loads) \in Nat
      /\ \A i \in 1..Len(loads) : loads[i] \in Load
    BY DEF TypeOK
<1>2. \A l \in Load :
        /\ l.config \in Config /\ l.next \in Nat \ {0}
        /\ l.merged \in Merged /\ l.complete \in BOOLEAN
    BY DEF Load
<1> QED BY <1>1, <1>2

LEMMA TopType ==
    ASSUME TypeOK, loads # <<>>
    PROVE  /\ Len(loads) \in 1..Len(loads)
           /\ Top = loads[Len(loads)] /\ Top \in Load
           /\ Top.config \in Config /\ Top.next \in Nat \ {0}
           /\ Top.merged \in Merged /\ Top.complete \in BOOLEAN
<1>1. Len(loads) \in 1..Len(loads)
    BY DEF TypeOK
<1> QED BY <1>1, LoadType DEF Top

\* A chain is made of configurations.
LEMMA ChainType ==
    ASSUME TypeOK, NEW c \in Config, OnStack(c)
    PROVE  /\ CycleStart(c) \in 1..Len(loads)
           /\ Chain(c) \in Seq(Config)
           /\ CycleMembers(c) \subseteq {loads[i].config : i \in DOMAIN loads}
           /\ Top.config \in CycleMembers(c)
<1>1. CycleStart(c) \in DOMAIN loads
    BY DEF CycleStart, OnStack
<1>2. DOMAIN loads = 1..Len(loads) /\ Len(loads) \in Nat
    BY LoadType
<1>3. \A i \in 1..Len(loads) : loads[i].config \in Config
    BY LoadType
<1>4. Stack \in Seq(Config) /\ Len(Stack) = Len(loads)
    BY <1>2, <1>3 DEF Stack
<1>5. SubSeq(Stack, CycleStart(c), Len(loads)) \in Seq(Config)
  <2>1. \A i \in CycleStart(c)..Len(loads) : Stack[i] \in Config
      BY <1>1, <1>2, <1>3 DEF Stack
  <2>2. CycleStart(c) \in Int /\ Len(loads) \in Int
      BY <1>1, <1>2
  <2> HIDE DEF Stack
  <2> QED BY <2>1, <2>2, SubSeqProperties
<1>6. Chain(c) \in Seq(Config)
    BY <1>5 DEF Chain
<1>7. Top.config \in CycleMembers(c)
    BY <1>1, <1>2 DEF CycleMembers, Top
<1> QED BY <1>1, <1>2, <1>6, <1>7 DEF CycleMembers

-----------------------------------------------------------------------------
LEMMA InitInv == Init => IInv
<1> SUFFICES ASSUME Init PROVE IInv
    OBVIOUS
<1>1. Cached = {}
    BY DEF Init, Cached
<1>2. TypeOK
    BY HostsAssumption DEF Init, TypeOK, Control
<1>3. StackIsPath /\ Awaited /\ BasesSettled
    BY DEF Init, StackIsPath, Awaited, AwaitedLoad, AwaitedReturn, BasesSettled
<1> QED BY <1>1, <1>2, <1>3 DEF IInv, CacheIsComplete, CacheIsDefinitive

-----------------------------------------------------------------------------
LEMMA TypeStep ==
    ASSUME IInv, Next
    PROVE  TypeOK'
<1> USE DEF IInv
<1>0. /\ host \in Host /\ control \in Control
      /\ loads \in Seq(Load)
      /\ cache \in [Config -> LoadedConfig \cup {NoConfig}]
      /\ incomplete \subseteq Config /\ seen \subseteq Config
      /\ \A e \in diagnostics : e.code \in Code /\ e.chain \in Seq(Config)
    BY DEF TypeOK
<1>a. \A c \in Config : <<c>> \in Seq(Config)
    OBVIOUS
<1>b. <<>> \in Seq(Config)
    OBVIOUS
<1>c. ASSUME NEW code \in Code, NEW chain \in Seq(Config),
             diagnostics' = diagnostics \cup {[code |-> code, chain |-> chain]}
      PROVE  \A e \in diagnostics' :
                e.code \in Code /\ e.chain \in Seq(Config)
    BY <1>0, <1>c
<1>d. ASSUME NEW result \in LoadedConfig \cup {NoConfig}, Return(result)
      PROVE  control' \in Control
    BY <1>d DEF Return, Control
<1>1. CASE EntryMissing
  <2>1. control' \in Control
      BY <1>1 DEF EntryMissing, Control
  <2>2. \A e \in diagnostics' :
            e.code \in Code /\ e.chain \in Seq(Config)
    <3> DEFINE code == IF host.selection = "directory" THEN 5081 ELSE 5058
    <3>1. code \in Code
        BY DEF Code
    <3>2. diagnostics' = diagnostics \cup {[code |-> code, chain |-> <<>>]}
        BY <1>1 DEF EntryMissing, Report
    <3> HIDE DEF code
    <3> QED BY <3>1, <3>2, <1>b, <1>c
  <2> QED BY <1>0, <1>1, <2>1, <2>2 DEF EntryMissing, TypeOK
<1>2. CASE ResolveEntry
    BY <1>0, <1>2 DEF ResolveEntry, TypeOK, Control, Host
<1>3. CASE LoadCircular
  <2>1. control.config \in Config
      BY <1>0, <1>3 DEF LoadCircular, Control
  <2>2. Chain(control.config) \in Seq(Config) /\ CycleMembers(control.config) \subseteq Config
    <3>1. \A i \in DOMAIN loads : loads[i].config \in Config
        BY LoadType
    <3> QED BY <1>3, <2>1, <3>1, ChainType DEF LoadCircular
  <2> QED BY <1>0, <1>3, <2>2, <1>c, <1>d DEF LoadCircular, TypeOK, Report, Code
<1>4. CASE LoadCached
  <2>1. control.config \in Config
      BY <1>0, <1>4 DEF LoadCached, Control
  <2>2. cache[control.config] \in LoadedConfig \cup {NoConfig}
      BY <1>0, <2>1
  <2> QED BY <1>0, <1>4, <2>2, <1>d DEF LoadCached, TypeOK
<1>5. CASE LoadUnreadable
  <2>1. control.config \in Config
      BY <1>0, <1>5 DEF LoadUnreadable, Control
  <2> DEFINE code == 5083
  <2>2. diagnostics' = diagnostics \cup {[code |-> code, chain |-> <<control.config>>]} /\ <<control.config>> \in Seq(Config)
      BY <1>5, <2>1, <1>a DEF LoadUnreadable, Report
  <2>3. \A e \in diagnostics' :
            e.code \in Code /\ e.chain \in Seq(Config)
    <3>1. code \in Code
        BY DEF Code
    <3> HIDE DEF code
    <3> QED BY <2>2, <3>1, <1>c
  <2> QED BY <1>0, <1>5, <2>1, <2>3, <1>d DEF LoadUnreadable, TypeOK
<1>6. CASE LoadEnter
  <2>1. control.config \in Config
      BY <1>0, <1>6 DEF LoadEnter, Control
  <2>2. [config |-> control.config, next |-> 1, merged |-> Empty, complete |-> TRUE] \in Load
      BY <2>1, EmptyType DEF Load
  <2>3. loads' \in Seq(Load)
      BY <1>0, <1>6, <2>2 DEF LoadEnter
  <2> QED BY <1>0, <1>6, <2>1, <2>3 DEF LoadEnter, TypeOK, Control
<1>7. CASE ExtendMissing \/ MergeNothing \/ MergeBase
  <2>1. loads # <<>>
      BY <1>7 DEF ExtendMissing, Running, MergeNothing, MergeBase
  <2>2. Len(loads) \in DOMAIN loads /\ Top \in Load
      BY <2>1, LoadType, TopType
  <2>3. CASE ExtendMissing
    <3>1. loads' = [loads EXCEPT ![Len(loads)] = [Top EXCEPT !.next = Top.next + 1]]
        BY <2>3 DEF ExtendMissing, Top
    <3>2. [Top EXCEPT !.next = Top.next + 1] \in Load
        BY <2>2 DEF Load
    <3>3. loads' \in Seq(Load)
        BY <1>0, <2>1, <3>1, <3>2, Changed
    <3>4. Top.config \in Config
        BY <2>1, TopType
    <3> DEFINE code == 6053
    <3>5. diagnostics' = diagnostics \cup {[code |-> code, chain |-> <<Top.config>>]} /\ <<Top.config>> \in Seq(Config)
        BY <2>3, <3>4, <1>a DEF ExtendMissing, Report
    <3>6. \A e \in diagnostics' :
              e.code \in Code /\ e.chain \in Seq(Config)
      <4>1. code \in Code
          BY DEF Code
      <4> HIDE DEF code
      <4> QED BY <3>5, <4>1, <1>c
    <3> QED BY <1>0, <2>3, <3>3, <3>6 DEF ExtendMissing, TypeOK
  <2>4. CASE MergeNothing
    <3>1. loads' = [loads EXCEPT ![Len(loads)] = [Top EXCEPT !.next = Top.next + 1]]
        BY <2>4 DEF MergeNothing, Top
    <3>2. [Top EXCEPT !.next = Top.next + 1] \in Load
        BY <2>2 DEF Load
    <3>3. loads' \in Seq(Load)
        BY <1>0, <2>1, <3>1, <3>2, Changed
    <3> QED BY <1>0, <2>4, <3>3 DEF MergeNothing, TypeOK, Control
  <2>5. CASE MergeBase
    <3> DEFINE top == [config |-> Top.config, next |-> Top.next + 1,
                       merged |-> MergeFrom(Top.merged, control.result.merged),
                       complete |-> Top.complete /\ control.result.complete]
    <3>1. control.result \in LoadedConfig
        BY <1>0, <2>5 DEF MergeBase, Control
    <3>2. top \in Load
      <4>1. MergeFrom(Top.merged, control.result.merged) \in Merged
          BY <2>1, <3>1, TopType, MergeFromType DEF LoadedConfig
      <4>2. (Top.complete /\ control.result.complete) \in BOOLEAN
          OBVIOUS
      <4>3. Top.config \in Config /\ Top.next + 1 \in Nat \ {0}
          BY <2>1, TopType
      <4> QED BY <4>1, <4>2, <4>3 DEF Load
    <3>3. loads' = [loads EXCEPT ![Len(loads)] = top]
        BY <2>5 DEF MergeBase
    <3>4. loads' \in Seq(Load)
        BY <1>0, <2>1, <3>2, <3>3, Changed
    <3> QED BY <1>0, <2>5, <3>4 DEF MergeBase, TypeOK, Control
  <2> QED BY <1>7, <2>3, <2>4, <2>5
<1>8. CASE Extend
  <2>1. Top.config \in Config /\ Bases \in Seq(Config \cup {Missing})
      BY <1>8, TopType, BasesType DEF Extend, Running, Bases
  <2>2. Top.next \in 1..Len(Bases)
      BY <1>8, <2>1, TopType DEF Extend, Running
  <2>3. Bases[Top.next] \in Config
      BY <1>8, <2>1, <2>2 DEF Extend
  <2> QED BY <1>0, <1>8, <2>3 DEF Extend, TypeOK, Control
<1>9. CASE Finish
  <2>1. Top \in Load /\ Top.config \in Config
      BY <1>9, TopType DEF Finish, Running
  <2>2. Loaded \in LoadedConfig
    <3>1. MergeFrom(Top.merged, Own(Top.config)) \in Merged
        BY <1>9, TopType, MergeFromType, OwnType DEF Finish, Running
    <3>2. (Top.complete /\ Top.config \notin incomplete) \in BOOLEAN
        OBVIOUS
    <3> QED BY <3>1, <3>2 DEF Loaded, LoadedConfig
  <2>3. loads' \in Seq(Load)
      BY <1>0, <1>9, Popped DEF Finish, Running, Pop
  <2>4. cache' \in [Config -> LoadedConfig \cup {NoConfig}]
      BY <1>0, <1>9, <2>1, <2>2 DEF Finish
  <2> QED BY <1>0, <1>9, <2>2, <2>3, <2>4, <1>d DEF Finish, TypeOK
<1>10. CASE EntryLoaded
    BY <1>0, <1>10 DEF EntryLoaded, TypeOK, Control
<1> QED BY <1>1, <1>2, <1>3, <1>4, <1>5, <1>6, <1>7, <1>8, <1>9, <1>10 DEF Next

-----------------------------------------------------------------------------
Rest == StackIsPath /\ Awaited /\ BasesSettled /\ CacheIsComplete /\ CacheIsDefinitive

\* Steps that leave the calls, the cache and the marks alone.
LEMMA QuietStep ==
    ASSUME IInv, UNCHANGED <<host, loads, cache, incomplete>>,
           control'.op \in {"start", "done"} => loads = <<>>,
           Awaited'
    PROVE  Rest'
    BY DEF IInv, Rest, StackIsPath, Linked, BasesOf, BasesSettled, Settled, Cached,
           CacheIsComplete, CacheIsDefinitive, OnStack

LEMMA CircularStep ==
    ASSUME IInv, LoadCircular
    PROVE  Rest'
<1> DEFINE c == control.config
<1>1. TypeOK /\ OnStack(c) /\ c \in Config /\ control.op = "load"
    BY DEF IInv, TypeOK, LoadCircular, Control
<1>2. /\ loads # <<>>
      /\ CycleMembers(c) \subseteq {loads[i].config : i \in DOMAIN loads}
      /\ Top.config \in CycleMembers(c)
    BY <1>1, ChainType DEF OnStack
<1>3. /\ UNCHANGED <<host, loads, cache>>
      /\ incomplete' = incomplete \cup CycleMembers(c)
      /\ control' = [op |-> "return", result |-> NoConfig]
    BY DEF LoadCircular, Return
<1>4. Cached' = Cached /\ Top' = Top /\ Bases' = Bases
    BY <1>3 DEF Cached, Top, Bases
<1>5. StackIsPath'
    BY <1>3 DEF IInv, StackIsPath, Linked, BasesOf
<1>6. Awaited'
  <2>1. Top.next <= Len(Bases)
    <3>1. Awaited
        BY DEF IInv
    <3> QED BY <1>1, <1>2, <3>1 DEF Awaited, AwaitedLoad
  <2>2. Top.config \in incomplete'
      BY <1>2, <1>3
  <2> QED BY <1>3, <1>4, <2>1, <2>2 DEF Awaited, AwaitedLoad, AwaitedReturn
<1>7. BasesSettled'
    BY <1>3, <1>4 DEF IInv, BasesSettled, BasesOf, Settled
<1>8. CacheIsComplete'
    BY <1>3, <1>4 DEF IInv, CacheIsComplete
<1>9. CacheIsDefinitive'
  <2>1. \A x \in Cached : x \notin CycleMembers(c)
      BY <1>2 DEF IInv, CacheIsDefinitive, OnStack
  <2> QED BY <1>3, <1>4, <2>1 DEF IInv, CacheIsDefinitive, OnStack
<1> QED BY <1>5, <1>6, <1>7, <1>8, <1>9 DEF Rest

LEMMA EnterStep ==
    ASSUME IInv, LoadEnter
    PROVE  Rest'
<1> DEFINE c == control.config
           e == [config |-> c, next |-> 1, merged |-> Empty, complete |-> TRUE]
           n == Len(loads)
<1>1. /\ TypeOK /\ c \in Config /\ ~OnStack(c) /\ c \notin Cached /\ c \notin host.unreadable
      /\ UNCHANGED <<host, cache, incomplete>>
      /\ loads' = Append(loads, e)
      /\ control' = [op |-> "run"]
      /\ control.op = "load"
    BY DEF IInv, TypeOK, LoadEnter, Control, Cached
<1>2. e \in Load /\ loads \in Seq(Load)
    BY <1>1, EmptyType DEF Load, TypeOK
<1>3. /\ n \in Nat /\ DOMAIN loads = 1..n
      /\ Len(loads') = n + 1 /\ DOMAIN loads' = 1..(n + 1)
      /\ \A i \in 1..n : loads'[i] = loads[i]
      /\ loads'[n + 1] = e
    BY <1>1, <1>2, Pushed
<1>4. Cached' = Cached
    BY <1>1 DEF Cached
<1>5. e.config = c /\ e.next = 1 /\ e.complete
    OBVIOUS
<1> HIDE DEF e
<1>6. \A i \in 1..n : loads[i].config # c
    BY <1>1, <1>3 DEF OnStack
<1>7. Len(host.bases[c]) \in Nat
    BY <1>1, BasesType
<1>q. \A i \in 1..n : Linked(i)
    BY <1>3 DEF IInv, StackIsPath
<1>p. \A i \in 1..n :
        /\ loads[i].config \notin host.unreadable
        /\ loads[i].next <= Len(host.bases[loads[i].config]) + 1
        /\ i < n =>
             /\ loads[i].next <= Len(host.bases[loads[i].config])
             /\ host.bases[loads[i].config][loads[i].next] = loads[i + 1].config
    BY <1>3, <1>q DEF Linked, BasesOf
<1>8. StackIsPath'
  <2>1. ASSUME NEW i \in 1..(n + 1), NEW j \in 1..(n + 1),
               loads'[i].config = loads'[j].config
        PROVE  i = j
    <3>1. \A k, l \in 1..n : loads[k].config = loads[l].config => k = l
        BY <1>3 DEF IInv, StackIsPath
    <3>2. CASE i \in 1..n /\ j \in 1..n
        BY <2>1, <1>3, <3>1, <3>2
    <3>3. CASE i = n + 1 \/ j = n + 1
        BY <2>1, <1>3, <1>5, <1>6, <3>3
    <3> QED BY <1>3, <3>2, <3>3
  <2>2. ASSUME NEW i \in 1..(n + 1)
        PROVE  Linked(i)'
    <3>1. CASE i < n
      <4>1. i \in 1..n /\ i + 1 \in 1..n
          BY <1>3, <3>1
      <4>2. loads'[i] = loads[i] /\ loads'[i + 1] = loads[i + 1]
          BY <1>3, <4>1
      <4> QED BY <1>1, <1>3, <1>p, <3>1, <4>1, <4>2 DEF Linked, BasesOf
    <3>2. CASE i = n
      <4>1. n \in 1..n /\ loads # <<>> /\ Top = loads[n]
          BY <1>1, <1>3, <3>2, LoadType, TopType
      <4>2. Top.next <= Len(Bases) /\ Bases[Top.next] = c
          BY <1>1, <4>1 DEF IInv, Awaited, AwaitedLoad
      <4> QED BY <1>1, <1>3, <1>5, <3>2, <4>1, <4>2, <1>p DEF Bases, Linked, BasesOf
    <3>3. CASE i = n + 1
        BY <1>1, <1>3, <1>5, <1>7, <3>3 DEF Linked, BasesOf
    <3>4. i < n \/ i = n \/ i = n + 1
      <4>1. n \in Nat
          BY <1>3
      <4> QED BY <4>1
    <3> QED BY <3>1, <3>2, <3>3, <3>4
  <2>3. control'.op \notin {"start", "done"}
      BY <1>1
  <2>4. \A i \in DOMAIN loads' : Linked(i)'
      BY <1>3, <2>2
  <2> QED BY <1>3, <2>1, <2>3, <2>4 DEF StackIsPath
<1>9. Awaited'
    BY <1>1 DEF Awaited, AwaitedLoad, AwaitedReturn
<1>10. BasesSettled'
  <2>1. ASSUME NEW i \in 1..(n + 1), loads'[i].complete
        PROVE  \/ loads'[i].config \in incomplete
               \/ \A j \in 1..(loads'[i].next - 1) :
                    Settled(host.bases[loads'[i].config][j])
    <3>1. CASE i \in 1..n
        BY <1>3, <2>1, <3>1 DEF IInv, BasesSettled, BasesOf
    <3>2. CASE i = n + 1
      <4>1. 1..(loads'[i].next - 1) = {}
          BY <1>3, <1>5, <3>2
      <4> QED BY <4>1
    <3> QED BY <1>3, <3>1, <3>2
  <2> QED BY <1>1, <1>3, <1>4, <2>1 DEF BasesSettled, BasesOf, Settled
<1>11. CacheIsComplete'
    BY <1>1, <1>4 DEF IInv, CacheIsComplete
<1>12. CacheIsDefinitive'
  <2>1. \A x \in Cached : x # c
      BY <1>1
  <2>2. ASSUME NEW x \in Cached PROVE ~OnStack(x)'
      BY <1>3, <1>5, <2>1, <2>2 DEF IInv, CacheIsDefinitive, OnStack
  <2> QED BY <1>1, <1>4, <2>2 DEF IInv, CacheIsDefinitive
<1> QED BY <1>8, <1>9, <1>10, <1>11, <1>12 DEF Rest

\* The call on top is done with the base it is at, and goes on as e.
GoesOnAs(e) ==
    /\ UNCHANGED <<host, cache, incomplete>>
    /\ loads # <<>>
    /\ Top.next <= Len(Bases)
    /\ e.config = Top.config
    /\ e.next = Top.next + 1
    /\ e.complete =>
          Top.complete /\ (Top.config \in incomplete \/ Settled(Bases[Top.next]))
    /\ loads' = [loads EXCEPT ![Len(loads)] = e]
    /\ control' = [op |-> "run"]

LEMMA MergeStep ==
    ASSUME IInv, NEW e \in Load, GoesOnAs(e)
    PROVE  Rest'
<1> DEFINE n == Len(loads)
<1>a. /\ UNCHANGED <<host, cache, incomplete>>
      /\ control' = [op |-> "run"]
    BY DEF GoesOnAs
<1>b. /\ loads # <<>>
      /\ Top.next <= Len(Bases)
      /\ e.config = Top.config
      /\ e.next = Top.next + 1
    BY DEF GoesOnAs
<1>c. e.complete =>
          Top.complete /\ (Top.config \in incomplete \/ Settled(Bases[Top.next]))
    BY DEF GoesOnAs
<1>e. loads' = [loads EXCEPT ![n] = e]
    BY DEF GoesOnAs
<1>1. /\ TypeOK /\ loads \in Seq(Load)
      /\ n \in 1..n /\ n \in Nat \ {0} /\ DOMAIN loads = 1..n
      /\ Top = loads[n] /\ Top.next \in Nat \ {0}
      /\ Bases = host.bases[loads[n].config]
    BY <1>b, LoadType, TopType DEF IInv, TypeOK, Bases
<1>2. /\ Len(loads') = n /\ DOMAIN loads' = 1..n
      /\ \A i \in 1..(n - 1) : loads'[i] = loads[i]
      /\ loads'[n] = e
    BY <1>1, <1>b, <1>e, Changed
<1> HIDE DEF n
<1>3. \A i \in 1..n : loads'[i].config = loads[i].config
  <2>1. \A i \in 1..n : i \in 1..(n - 1) \/ i = n
      BY <1>1
  <2> QED BY <1>1, <1>2, <1>b, <2>1
<1>4. Cached' = Cached
    BY <1>a DEF Cached
<1>5. Len(Bases) \in Nat
    BY <1>1, <1>b, TopType, BasesType DEF IInv, Bases
<1>q. \A i \in 1..n : Linked(i)
    BY <1>1 DEF IInv, StackIsPath
<1>p. \A i \in 1..n :
        /\ loads[i].config \notin host.unreadable
        /\ loads[i].next <= Len(host.bases[loads[i].config]) + 1
        /\ i < n =>
             /\ loads[i].next <= Len(host.bases[loads[i].config])
             /\ host.bases[loads[i].config][loads[i].next] = loads[i + 1].config
    BY <1>1, <1>q DEF Linked, BasesOf
<1>6. StackIsPath'
  <2>1. ASSUME NEW i \in 1..n, NEW j \in 1..n, loads'[i].config = loads'[j].config
        PROVE  i = j
      BY <2>1, <1>1, <1>3 DEF IInv, StackIsPath
  <2>2. ASSUME NEW i \in 1..n
        PROVE  Linked(i)'
    <3>1. CASE i < n
      <4>1. i \in 1..(n - 1) /\ i + 1 \in 1..n
          BY <1>1, <3>1
      <4> QED BY <1>a, <1>p, <1>2, <1>3, <3>1, <4>1 DEF Linked, BasesOf
    <3>2. CASE i = n
      <4>1. loads'[i] = e /\ e.config = loads[n].config
          BY <1>1, <1>2, <1>b, <3>2
      <4>2. e.next <= Len(Bases) + 1
          BY <1>1, <1>5, <1>b
      <4> QED BY <1>a, <1>2, <1>p, <1>1, <3>2, <4>1, <4>2 DEF Linked, BasesOf
    <3> QED BY <1>1, <3>1, <3>2
  <2>3. control'.op \notin {"start", "done"}
      BY <1>a
  <2>4. \A i \in DOMAIN loads' : Linked(i)'
      BY <1>2, <2>2
  <2> QED BY <1>2, <2>1, <2>3, <2>4 DEF StackIsPath
<1>7. Awaited'
    BY <1>a DEF Awaited, AwaitedLoad, AwaitedReturn
<1>8. BasesSettled'
  <2>1. ASSUME NEW i \in 1..n, loads'[i].complete
        PROVE  \/ loads'[i].config \in incomplete
               \/ \A j \in 1..(loads'[i].next - 1) :
                    Settled(host.bases[loads'[i].config][j])
    <3>1. CASE i # n
      <4>1. i \in 1..(n - 1)
          BY <1>1, <3>1
      <4> QED BY <1>1, <1>2, <2>1, <4>1 DEF IInv, BasesSettled, BasesOf
    <3>2. CASE i = n
      <4>1. \/ Top.config \in incomplete
            \/ \A j \in 1..(Top.next - 1) : Settled(Bases[j])
        <5>1. Top.complete
            BY <1>2, <1>c, <2>1, <3>2
        <5> QED BY <1>1, <5>1 DEF IInv, BasesSettled, BasesOf
      <4>2. Top.config \in incomplete \/ Settled(Bases[Top.next])
          BY <1>2, <1>c, <2>1, <3>2
      <4>3. \A j \in 1..(e.next - 1) : j \in 1..(Top.next - 1) \/ j = Top.next
          BY <1>1, <1>b
      <4>4. loads'[i] = e /\ e.config = Top.config /\ Bases = host.bases[e.config]
          BY <1>1, <1>2, <1>b, <3>2
      <4> QED BY <4>1, <4>2, <4>3, <4>4
    <3> QED BY <3>1, <3>2
  <2> QED BY <1>a, <1>2, <1>4, <2>1 DEF BasesSettled, BasesOf, Settled
<1>9. CacheIsComplete'
    BY <1>a, <1>4 DEF IInv, CacheIsComplete
<1>10. CacheIsDefinitive'
  <2>1. \A x : OnStack(x)' => OnStack(x)
      BY <1>1, <1>2, <1>3 DEF OnStack
  <2> QED BY <1>a, <1>4, <2>1 DEF IInv, CacheIsDefinitive
<1> QED BY <1>6, <1>7, <1>8, <1>9, <1>10 DEF Rest

LEMMA FinishStep ==
    ASSUME IInv, Finish
    PROVE  Rest'
<1> DEFINE n == Len(loads)
<1>0. PICK c : c = Top.config
    OBVIOUS
<1>a. loads # <<>> /\ loads' = SubSeq(loads, 1, n - 1)
    BY DEF Finish, Running, Pop
<1>b. cache' = IF Loaded.complete THEN [cache EXCEPT ![c] = Loaded] ELSE cache
    BY <1>0 DEF Finish
<1>1. /\ UNCHANGED <<host, incomplete>>
      /\ control' = [op |-> "return", result |-> Loaded]
      /\ Top.next > Len(Bases)
    BY DEF Finish, Return
<1>2. /\ TypeOK /\ loads \in Seq(Load)
      /\ n \in 1..n /\ n \in Nat \ {0} /\ DOMAIN loads = 1..n
      /\ Top = loads[n] /\ c \in Config /\ Top.next \in Nat \ {0}
      /\ Bases = host.bases[c] /\ Bases \in Seq(Config \cup {Missing})
    BY <1>0, <1>a, LoadType, TopType, BasesType DEF IInv, TypeOK, Bases
<1>3. /\ Len(loads') = n - 1 /\ DOMAIN loads' = 1..(n - 1)
      /\ \A i \in 1..(n - 1) : loads'[i] = loads[i]
      /\ \A i \in 1..(n - 1) : i \in 1..n
    BY <1>a, <1>2, Popped
<1>c. c = loads[n].config
    BY <1>0 DEF Top
<1>4. Loaded.complete <=> Top.complete /\ c \notin incomplete
    BY <1>0, Zenon DEF Loaded
<1>5. Loaded # NoConfig
  <2>1. MergeFrom(Top.merged, Own(c)) \in Merged
      BY <1>0, <1>a, <1>2, TopType, MergeFromType, OwnType
  <2>2. (Top.complete /\ c \notin incomplete) \in BOOLEAN
      OBVIOUS
  <2>3. Loaded \in LoadedConfig
      BY <1>0, <2>1, <2>2 DEF Loaded, LoadedConfig
  <2> QED BY <2>3, NoConfigAssumption
<1>q. \A i \in 1..n : Linked(i)
    BY <1>2 DEF IInv, StackIsPath
<1>p. \A i \in 1..n :
        /\ loads[i].config \notin host.unreadable
        /\ loads[i].next <= Len(host.bases[loads[i].config]) + 1
        /\ i < n =>
             /\ loads[i].next <= Len(host.bases[loads[i].config])
             /\ host.bases[loads[i].config][loads[i].next] = loads[i + 1].config
    BY <1>2, <1>q DEF Linked, BasesOf
<1>l. n \in Nat \ {0}
    BY <1>2
<1> HIDE DEF n
<1>n. \A i \in 1..(n - 1) : i # n /\ i < n
    BY <1>l
<1>d. \A i, j \in 1..n : loads[i].config = loads[j].config => i = j
    BY <1>2 DEF IInv, StackIsPath
<1>6. /\ Loaded.complete => Cached' = Cached \cup {c}
      /\ ~Loaded.complete => Cached' = Cached
      /\ \A x \in Cached : cache'[x] = cache[x] \/ (x = c /\ cache'[x] = Loaded)
      /\ Loaded.complete => cache'[c] = Loaded
  <2>1. cache \in [Config -> LoadedConfig \cup {NoConfig}]
      BY <1>2 DEF TypeOK
  <2>2. CASE Loaded.complete
    <3>1. cache' = [cache EXCEPT ![c] = Loaded]
        BY <1>b, <2>2
    <3> QED BY <1>2, <1>5, <2>1, <2>2, <3>1 DEF Cached
  <2>3. CASE ~Loaded.complete
      BY <1>b, <2>3 DEF Cached
  <2> QED BY <2>2, <2>3
<1>7. \A x : Settled(x) => Settled(x)'
    BY <1>1, <1>6 DEF Settled
<1>8. Loaded.complete => \A j \in 1..Len(Bases) : Settled(Bases[j])
  <2>1. \/ ~Top.complete \/ c \in incomplete
        \/ \A j \in 1..(Top.next - 1) : Settled(Bases[j])
      BY <1>2, <1>c DEF IInv, BasesSettled, BasesOf
  <2>2. \A j \in 1..Len(Bases) : j \in 1..(Top.next - 1)
      BY <1>1, <1>2
  <2> QED BY <1>4, <2>1, <2>2
<1>9. StackIsPath'
  <2>1. ASSUME NEW i \in 1..(n - 1)
        PROVE  Linked(i)'
    <3>1. i \in 1..n /\ i < n /\ (i < n - 1 => i + 1 \in 1..(n - 1))
        BY <1>2
    <3> QED BY <1>1, <1>p, <1>3, <3>1 DEF Linked, BasesOf
  <2>2. control'.op \notin {"start", "done"}
      BY <1>1
  <2>3. \A i \in DOMAIN loads' : Linked(i)'
      BY <1>3, <2>1
  <2>4. \A i, j \in 1..(n - 1) : loads'[i].config = loads'[j].config => i = j
      BY <1>3, <1>d
  <2> QED BY <1>3, <2>2, <2>3, <2>4 DEF StackIsPath
<1>10. Awaited'
  <2>1. AwaitedLoad'
      BY <1>1 DEF AwaitedLoad
  <2>2. CASE loads' # <<>>
    <3>1. n - 1 \in 1..(n - 1) /\ n - 1 < n /\ n - 1 \in 1..n /\ (n - 1) + 1 = n
        BY <1>2, <1>3, <2>2
    <3>2. Top' = loads[n - 1] /\ Bases' = host.bases[loads[n - 1].config]
        BY <1>1, <1>3, <3>1 DEF Top, Bases
    <3>3. Top'.next <= Len(Bases') /\ Bases'[Top'.next] = c
        BY <1>p, <1>c, <3>1, <3>2
    <3>4. CASE Loaded.complete
      <4>1. Settled(c)'
          BY <1>6, <3>4 DEF Settled
      <4>2. Settled(Bases[Top.next])'
          BY <3>3, <4>1
      <4> QED BY <2>1, <3>3, <4>2 DEF Awaited, AwaitedReturn
    <3>5. CASE ~Loaded.complete
      <4>1. Failed(control'.result)
          BY <1>1, <1>5, <3>5 DEF Failed
      <4>2. Failed(control.result)'
          BY <4>1 DEF Failed
      <4> QED BY <2>1, <3>3, <4>2 DEF Awaited, AwaitedReturn
    <3> QED BY <3>4, <3>5
  <2> QED BY <2>1, <2>2 DEF Awaited, AwaitedReturn
<1>11. BasesSettled'
  <2>1. ASSUME NEW i \in 1..(n - 1), loads'[i].complete
        PROVE  \/ loads'[i].config \in incomplete
               \/ \A j \in 1..(loads'[i].next - 1) :
                    Settled(host.bases[loads'[i].config][j])
      BY <1>2, <1>3, <2>1 DEF IInv, BasesSettled, BasesOf
  <2> QED BY <1>1, <1>3, <1>7, <2>1 DEF BasesSettled, BasesOf
<1>12. CacheIsComplete'
  <2>1. ASSUME NEW x \in Cached' PROVE cache'[x].complete
    <3>1. CASE x = c /\ cache'[x] = Loaded /\ Loaded.complete
        BY <3>1
    <3>2. CASE x \in Cached /\ cache'[x] = cache[x]
        BY <3>2 DEF IInv, CacheIsComplete
    <3>3. CASE Loaded.complete
        BY <1>6, <2>1, <3>1, <3>2, <3>3
    <3>4. CASE ~Loaded.complete
        BY <1>b, <1>6, <2>1, <3>2, <3>4
    <3> QED BY <3>3, <3>4
  <2> QED BY <2>1 DEF CacheIsComplete
<1>13. CacheIsDefinitive'
  <2>1. \A x : OnStack(x)' => OnStack(x)
      BY <1>2, <1>3 DEF OnStack
  <2>2. ASSUME NEW x \in Cached
        PROVE  /\ ~OnStack(x)'
               /\ x \notin incomplete
               /\ x \notin host.unreadable
               /\ \A b \in Range(host.bases[x]) : Settled(b)'
      BY <1>7, <2>1 DEF IInv, CacheIsDefinitive, Settled
  <2>3. ASSUME Loaded.complete
        PROVE  /\ ~OnStack(c)'
               /\ c \notin incomplete
               /\ c \notin host.unreadable
               /\ \A b \in Range(host.bases[c]) : Settled(b)'
    <3>1. ~OnStack(c)'
      <4> QED BY <1>2, <1>3, <1>c, <1>d, <1>n DEF OnStack
    <3>2. c \notin incomplete /\ c \notin host.unreadable
        BY <1>2, <1>4, <1>c, <1>p, <2>3
    <3>3. \A b \in Range(host.bases[c]) : \E j \in 1..Len(Bases) : b = Bases[j]
        BY <1>2 DEF Range
    <3> QED BY <1>7, <1>8, <2>3, <3>1, <3>2, <3>3
  <2>4. ASSUME NEW x \in Cached'
        PROVE  /\ ~OnStack(x)'
               /\ x \notin incomplete
               /\ x \notin host.unreadable
               /\ \A b \in Range(host.bases[x]) : Settled(b)'
    <3>1. x \in Cached \/ (Loaded.complete /\ x = c)
        BY <1>6, <2>4
    <3> QED BY <2>2, <2>3, <3>1
  <2> QED BY <1>1, <2>4 DEF CacheIsDefinitive, Settled
<1> QED BY <1>9, <1>10, <1>11, <1>12, <1>13 DEF Rest

-----------------------------------------------------------------------------
LEMMA NextStep ==
    ASSUME IInv, Next
    PROVE  IInv'
<1>1. TypeOK'
    BY TypeStep
<1>t. TypeOK /\ StackIsPath /\ Awaited
    BY DEF IInv
<1>2. Rest'
  <2>1. CASE EntryMissing
    <3>1. Awaited'
        BY <2>1 DEF EntryMissing, Awaited, AwaitedLoad, AwaitedReturn
    <3> QED BY <1>t, <2>1, <3>1, QuietStep DEF EntryMissing, StackIsPath
  <2>2. CASE ResolveEntry
    <3>1. loads = <<>>
        BY <1>t, <2>2 DEF ResolveEntry, StackIsPath
    <3>2. Awaited'
        BY <2>2, <3>1 DEF ResolveEntry, Awaited, AwaitedLoad, AwaitedReturn
    <3> QED BY <2>2, <3>1, <3>2, QuietStep DEF ResolveEntry
  <2>3. CASE LoadCircular
      BY <2>3, CircularStep
  <2>4. CASE LoadCached
    <3>1. control.config \in Cached /\ control.op = "load"
        BY <1>t, <2>4 DEF LoadCached, Cached, TypeOK, Control
    <3>2. ASSUME loads # <<>>
          PROVE  Top.next <= Len(Bases) /\ Settled(Bases[Top.next])
        BY <1>t, <3>1, <3>2 DEF Awaited, AwaitedLoad, Settled
    <3>3. /\ UNCHANGED <<host, loads, cache, incomplete>>
          /\ control' = [op |-> "return", result |-> cache[control.config]]
        BY <2>4 DEF LoadCached, Return
    <3>4. Awaited'
        BY <3>2, <3>3 DEF Awaited, AwaitedLoad, AwaitedReturn, Top, Bases, Settled, Cached
    <3> QED BY <3>3, <3>4, QuietStep
  <2>5. CASE LoadUnreadable
    <3>1. control.config \in host.unreadable /\ control.op = "load"
        BY <2>5 DEF LoadUnreadable
    <3>2. ASSUME loads # <<>>
          PROVE  Top.next <= Len(Bases) /\ Settled(Bases[Top.next])
        BY <1>t, <3>1, <3>2 DEF Awaited, AwaitedLoad, Settled
    <3>3. /\ UNCHANGED <<host, loads, cache, incomplete>>
          /\ control' = [op |-> "return", result |-> NoConfig]
        BY <2>5 DEF LoadUnreadable, Return
    <3>4. Awaited'
        BY <3>2, <3>3 DEF Awaited, AwaitedLoad, AwaitedReturn, Top, Bases, Settled, Cached
    <3> QED BY <3>3, <3>4, QuietStep
  <2>6. CASE LoadEnter
      BY <2>6, EnterStep
  <2>7. CASE ExtendMissing
    <3> DEFINE e == [Top EXCEPT !.next = Top.next + 1]
    <3>1. loads # <<>>
        BY <2>7 DEF ExtendMissing, Running
    <3>2. /\ e \in Load /\ e.config = Top.config /\ e.next = Top.next + 1
          /\ e.complete = Top.complete
        BY <1>t, <3>1, TopType DEF Load
    <3>3. loads' = [loads EXCEPT ![Len(loads)] = e] /\ control' = [op |-> "run"]
      <4>1. control' = control /\ control.op = "run"
          BY <2>7 DEF ExtendMissing, Running
      <4>2. control = [op |-> "run"]
          BY <1>t, <4>1 DEF TypeOK, Control
      <4> QED BY <2>7, <4>1, <4>2 DEF ExtendMissing, Top
    <3>4. Settled(Bases[Top.next])
        BY <2>7 DEF ExtendMissing, Settled
    <3>5. UNCHANGED <<host, cache, incomplete>> /\ Top.next <= Len(Bases)
        BY <2>7 DEF ExtendMissing
    <3> HIDE DEF e
    <3>6. GoesOnAs(e)
        BY <3>1, <3>2, <3>3, <3>4, <3>5 DEF GoesOnAs
    <3> QED BY <3>2, <3>6, MergeStep
  <2>8. CASE Extend
    <3>1. Awaited'
        BY <2>8 DEF Extend, Awaited, AwaitedLoad, AwaitedReturn, Top, Bases
    <3> QED BY <2>8, <3>1, QuietStep DEF Extend
  <2>9. CASE MergeNothing
    <3> DEFINE e == [Top EXCEPT !.next = Top.next + 1]
    <3>1. loads # <<>> /\ control.op = "return" /\ control.result = NoConfig
        BY <2>9 DEF MergeNothing
    <3>2. /\ e \in Load /\ e.config = Top.config /\ e.next = Top.next + 1
          /\ e.complete = Top.complete
        BY <1>t, <3>1, TopType DEF Load
    <3>3. loads' = [loads EXCEPT ![Len(loads)] = e] /\ control' = [op |-> "run"]
        BY <2>9 DEF MergeNothing, Top
    <3>4. Top.config \in incomplete \/ Settled(Bases[Top.next])
        BY <1>t, <3>1 DEF Awaited, AwaitedReturn, Failed
    <3>5. UNCHANGED <<host, cache, incomplete>> /\ Top.next <= Len(Bases)
        BY <1>t, <2>9, <3>1 DEF MergeNothing, Awaited, AwaitedReturn
    <3> HIDE DEF e
    <3>6. GoesOnAs(e)
        BY <3>1, <3>2, <3>3, <3>4, <3>5 DEF GoesOnAs
    <3> QED BY <3>2, <3>6, MergeStep
  <2>10. CASE MergeBase
    <3> DEFINE e == [config |-> Top.config, next |-> Top.next + 1,
                     merged |-> MergeFrom(Top.merged, control.result.merged),
                     complete |-> Top.complete /\ control.result.complete]
    <3>1. loads # <<>> /\ control.op = "return" /\ control.result # NoConfig
        BY <2>10 DEF MergeBase
    <3>2. control.result \in LoadedConfig
        BY <1>t, <3>1 DEF TypeOK, Control
    <3>3. e \in Load
      <4>1. MergeFrom(Top.merged, control.result.merged) \in Merged
          BY <1>t, <3>1, <3>2, TopType, MergeFromType DEF LoadedConfig
      <4>2. (Top.complete /\ control.result.complete) \in BOOLEAN
          OBVIOUS
      <4>3. Top.config \in Config /\ Top.next + 1 \in Nat \ {0}
          BY <1>t, <3>1, TopType
      <4> QED BY <4>1, <4>2, <4>3 DEF Load
    <3>4. e.config = Top.config /\ e.next = Top.next + 1
        OBVIOUS
    <3>5. e.complete => Top.complete /\ control.result.complete
        BY Zenon
    <3>6. control.result.complete => Top.config \in incomplete \/ Settled(Bases[Top.next])
        BY <1>t, <3>1 DEF Awaited, AwaitedReturn, Failed
    <3>7. loads' = [loads EXCEPT ![Len(loads)] = e] /\ control' = [op |-> "run"]
        BY <2>10 DEF MergeBase
    <3>8. UNCHANGED <<host, cache, incomplete>> /\ Top.next <= Len(Bases)
        BY <1>t, <2>10, <3>1 DEF MergeBase, Awaited, AwaitedReturn
    <3> HIDE DEF e
    <3>9. GoesOnAs(e)
        BY <3>1, <3>4, <3>5, <3>6, <3>7, <3>8 DEF GoesOnAs
    <3> QED BY <3>3, <3>9, MergeStep
  <2>11. CASE Finish
      BY <2>11, FinishStep
  <2>12. CASE EntryLoaded
    <3>1. Awaited'
        BY <2>12 DEF EntryLoaded, Awaited, AwaitedLoad, AwaitedReturn
    <3> QED BY <2>12, <3>1, QuietStep DEF EntryLoaded
  <2> QED BY <2>1, <2>2, <2>3, <2>4, <2>5, <2>6, <2>7, <2>8, <2>9, <2>10, <2>11, <2>12
          DEF Next
<1> QED BY <1>1, <1>2 DEF IInv, Rest

LEMMA Inductive ==
    ASSUME IInv, [Next]_vars
    PROVE  IInv'
<1>1. CASE Next
    BY <1>1, NextStep
<1>2. CASE UNCHANGED vars
    BY <1>2 DEF vars, IInv, TypeOK, StackIsPath, Linked, BasesOf, Awaited, AwaitedLoad, AwaitedReturn,
                Failed, Top, Bases, BasesSettled, Settled, Cached, CacheIsComplete,
                CacheIsDefinitive, OnStack
<1> QED BY <1>1, <1>2

\* Every variable of the resolver keeps its type, whatever extends what
\* (Resolver::load_config).
THEOREM TypeCorrect == Spec => []TypeOK
<1>1. Spec => []IInv
    BY InitInv, Inductive, PTL DEF Spec
<1>2. IInv => TypeOK
    BY DEF IInv
<1> QED BY <1>1, <1>2, PTL

\* The cache is definitive for every file system: a cached configuration is on
\* no cycle, was never marked incomplete and extends only what is cached or not
\* there, so no cycle can be reached from it (LoadedConfig::complete).
THEOREM CacheCorrect == Spec => []CacheIsDefinitive
<1>1. Spec => []IInv
    BY InitInv, Inductive, PTL DEF Spec
<1>2. IInv => CacheIsDefinitive
    BY DEF IInv
<1> QED BY <1>1, <1>2, PTL

-----------------------------------------------------------------------------
(***************************************************************************)
(* The loader with no cache.  Facts about numbers first: the library's         *)
(* induction takes a predicate, here it is a set.                               *)
(***************************************************************************)
LEMMA Smallest ==
    ASSUME NEW ns \in SUBSET Nat, ns # {}
    PROVE  \E n \in ns : \A m \in ns : n <= m
<1> DEFINE Less == OpToRel(<, Nat)
<1>1. IsWellFoundedOn(Less, Nat)
    BY NatLessThanWellFounded
<1>2. PICK n \in ns : \A m \in ns : ~(<<m, n>> \in Less)
  <2> HIDE DEF Less
  <2> QED BY <1>1, WFMin
<1>3. \A m \in ns : n <= m
  <2> SUFFICES ASSUME NEW m \in ns PROVE n <= m
      OBVIOUS
  <2>1. ~(m < n)
      BY <1>2 DEF OpToRel
  <2> QED BY <2>1
<1> QED BY <1>3

\* What holds of a number when it holds of all smaller ones holds of all.
LEMMA Complete ==
    ASSUME NEW ns, \A n \in Nat : (\A m \in Nat : m < n => m \in ns) => n \in ns
    PROVE  Nat \subseteq ns
<1> SUFFICES ASSUME Nat \ ns # {} PROVE FALSE
    OBVIOUS
<1>1. PICK n \in Nat \ ns : \A m \in Nat \ ns : n <= m
    BY Smallest
<1>2. \A m \in Nat : m < n => m \in ns
    BY <1>1
<1> QED BY <1>1, <1>2

LEMMA Largest ==
    ASSUME NEW n \in Nat, NEW S \in SUBSET (1..n), S # {}
    PROVE  Max(S) \in S /\ \A i \in S : i <= Max(S)
<1> DEFINE bounds == {m \in Nat : \A i \in S : i <= m}
<1>1. n \in bounds
    OBVIOUS
<1>2. PICK m \in bounds : \A k \in bounds : m <= k
  <2> HIDE DEF bounds
  <2>1. bounds \subseteq Nat
      BY DEF bounds
  <2> QED BY <1>1, <2>1, Smallest
<1>3. m \in S
  <2> SUFFICES ASSUME m \notin S PROVE FALSE
      OBVIOUS
  <2>1. \A i \in S : i <= m - 1
      BY <1>2
  <2>2. PICK i \in S : i \in 1..n
      OBVIOUS
  <2>3. m - 1 \in Nat
      BY <1>2, <2>2
  <2>4. m - 1 \in bounds
      BY <2>1, <2>3
  <2> QED BY <1>2, <2>4
<1>4. \A i \in S : i <= m
    BY <1>2
<1>5. \A i \in S : i \in Int
    OBVIOUS
<1>6. \E x \in S : \A y \in S : x >= y
    BY <1>3, <1>4, <1>5
<1>7. Max(S) \in S /\ \A y \in S : Max(S) >= y
    BY <1>6 DEF Max
<1> QED BY <1>5, <1>7

-----------------------------------------------------------------------------
\* What the base b gives below s, and the settings of the last of s.
Gives(h, s, b) == IF Loads(h, s, b) THEN Fresh(h)[Append(s, b)] ELSE Empty
Given(h, s, n) == [j \in 1..n |-> Gives(h, s, h.bases[Last(s)][j])]
Overlay(given) == [x \in Setting |-> LastOf(given, x)]

Below(h, f, s) ==
    LET bases == h.bases[Last(s)]
        given == [i \in DOMAIN bases |->
                     IF Loads(h, s, bases[i]) THEN f[Append(s, bases[i])] ELSE Empty]
    IN [x \in Setting |-> IF x \in h.authored[Last(s)] THEN Last(s) ELSE LastOf(given, x)]

\* It looks only at the chains one longer.
LEMMA BelowLooksAhead ==
    ASSUME NEW h, NEW f, NEW g, NEW s,
           \A b : Loads(h, s, b) => f[Append(s, b)] = g[Append(s, b)]
    PROVE  Below(h, f, s) = Below(h, g, s)
<1> DEFINE bases == h.bases[Last(s)]
           given(k) == [i \in DOMAIN bases |->
                     IF Loads(h, s, bases[i]) THEN k[Append(s, bases[i])] ELSE Empty]
<1>1. \A i \in DOMAIN bases :
        (IF Loads(h, s, bases[i]) THEN f[Append(s, bases[i])] ELSE Empty)
          = (IF Loads(h, s, bases[i]) THEN g[Append(s, bases[i])] ELSE Empty)
    OBVIOUS
<1>2. given(f) = given(g)
    BY <1>1
<1>3. /\ Below(h, f, s) = [x \in Setting |-> IF x \in h.authored[Last(s)] THEN Last(s) ELSE LastOf(given(f), x)]
      /\ Below(h, g, s) = [x \in Setting |-> IF x \in h.authored[Last(s)] THEN Last(s) ELSE LastOf(given(g), x)]
    BY DEF Below
<1> HIDE DEF given
<1> QED BY <1>2, <1>3

\* A chain can be made longer as often as there are configurations that are not on it.
Left(s) == Cardinality(Config \ Range(s))
LEMMA FewerLeft ==
    ASSUME NEW s \in Seq(Config)
    PROVE  /\ Left(s) \in Nat /\ Left(s) <= Cardinality(Config)
           /\ Cardinality(Config) \in Nat
           /\ \A b \in Config \ Range(s) : Append(s, b) \in Seq(Config) /\ Left(Append(s, b)) < Left(s)
<1>1. IsFiniteSet(Config \ Range(s)) /\ Left(s) <= Cardinality(Config) /\ Cardinality(Config) \in Nat
    BY FiniteAssumption, FS_Subset, FS_CardinalityType DEF Left
<1>2. Left(s) \in Nat
    BY <1>1, FS_CardinalityType DEF Left
<1>3. ASSUME NEW b \in Config \ Range(s)
      PROVE  Append(s, b) \in Seq(Config) /\ Left(Append(s, b)) < Left(s)
  <2>1. Append(s, b) \in Seq(Config)
      OBVIOUS
  <2>2. Range(Append(s, b)) = Range(s) \cup {b}
    <3>1. /\ DOMAIN Append(s, b) = 1..(Len(s) + 1) /\ DOMAIN s = 1..Len(s) /\ Len(s) \in Nat
          /\ \A i \in 1..Len(s) : Append(s, b)[i] = s[i]
          /\ Append(s, b)[Len(s) + 1] = b
        BY Pushed
    <3>2. \A i \in 1..(Len(s) + 1) : i \in 1..Len(s) \/ i = Len(s) + 1
        BY <3>1
    <3>3. 1..Len(s) \subseteq 1..(Len(s) + 1) /\ Len(s) + 1 \in 1..(Len(s) + 1)
        BY <3>1
    <3> QED BY <3>1, <3>2, <3>3 DEF Range
  <2>3. Config \ Range(Append(s, b)) = (Config \ Range(s)) \ {b}
      BY <2>2
  <2>4. Left(Append(s, b)) = Left(s) - 1
      BY <1>1, <2>3, FS_RemoveElement DEF Left
  <2> QED BY <1>2, <2>1, <2>4
<1> QED BY <1>1, <1>2, <1>3

\* The recursion ends, so there is a loader with no cache.
LEMMA FreshIs ==
    ASSUME NEW h, NEW s \in Seq(Config)
    PROVE  Fresh(h)[s] = Below(h, Fresh(h), s)
<1> DEFINE Good(n) == \E f : \A t \in Seq(Config) : Left(t) < n => f[t] = Below(h, f, t)
           ns == {n \in Nat : Good(n)}
<1>1. \A n \in Nat : (\A m \in Nat : m < n => m \in ns) => n \in ns
  <2> SUFFICES ASSUME NEW n \in Nat, \A m \in Nat : m < n => m \in ns PROVE n \in ns
      OBVIOUS
  <2>1. CASE n = 0
    <3>1. \A t \in Seq(Config) : ~(Left(t) < n)
        BY <2>1, FewerLeft
    <3> QED BY <3>1
  <2>2. CASE n # 0
    <3>1. n - 1 \in ns
        BY <2>2
    <3>2. PICK f : \A t \in Seq(Config) : Left(t) < n - 1 => f[t] = Below(h, f, t)
        BY <3>1
    <3> DEFINE g == [t \in Seq(Config) |-> Below(h, f, t)]
    <3>3. \A t \in Seq(Config) : Left(t) < n => g[t] = Below(h, g, t)
      <4> SUFFICES ASSUME NEW t \in Seq(Config), Left(t) < n PROVE g[t] = Below(h, g, t)
          OBVIOUS
      <4>1. \A b : Loads(h, t, b) => f[Append(t, b)] = g[Append(t, b)]
        <5> SUFFICES ASSUME NEW b, Loads(h, t, b) PROVE f[Append(t, b)] = g[Append(t, b)]
            OBVIOUS
        <5>1. b \in Config \ Range(t)
            BY DEF Loads
        <5>2. Append(t, b) \in Seq(Config) /\ Left(Append(t, b)) < n - 1
          <6>1. Append(t, b) \in Seq(Config) /\ Left(Append(t, b)) < Left(t) /\ Left(t) \in Nat
              BY <5>1, FewerLeft
          <6>2. Left(Append(t, b)) \in Nat
              BY <6>1, FewerLeft
          <6> QED BY <6>1, <6>2
        <5> QED BY <3>2, <5>2
      <4>2. Below(h, f, t) = Below(h, g, t)
        <5> HIDE DEF g
        <5> QED BY <4>1, BelowLooksAhead
      <4> QED BY <4>2
    <3> HIDE DEF g
    <3> QED BY <3>3
  <2> QED BY <2>1, <2>2
<1>2. Nat \subseteq ns
  <2> HIDE DEF ns
  <2> QED BY <1>1, Complete
<1>3. Cardinality(Config) + 1 \in ns
    BY <1>2, FewerLeft
<1>4. PICK f : \A t \in Seq(Config) : Left(t) < Cardinality(Config) + 1 => f[t] = Below(h, f, t)
    BY <1>3
<1>5. \A t \in Seq(Config) : f[t] = Below(h, f, t)
    BY <1>4, FewerLeft
<1> DEFINE g == [t \in Seq(Config) |-> Below(h, f, t)]
<1>6. \A t \in Seq(Config) : g[t] = Below(h, g, t)
  <2> SUFFICES ASSUME NEW t \in Seq(Config) PROVE g[t] = Below(h, g, t)
      OBVIOUS
  <2>1. \A b : Loads(h, t, b) => f[Append(t, b)] = g[Append(t, b)]
    <3>1. \A b : Loads(h, t, b) => Append(t, b) \in Seq(Config)
        BY DEF Loads
    <3> QED BY <1>5, <3>1
  <2>2. Below(h, f, t) = Below(h, g, t)
    <3> HIDE DEF g
    <3> QED BY <2>1, BelowLooksAhead
  <2> QED BY <2>2
<1>7. g = [t \in Seq(Config) |-> Below(h, g, t)]
  <2>1. g = [t \in Seq(Config) |-> g[t]]
      OBVIOUS
  <2> HIDE DEF g
  <2> QED BY <1>6, <2>1
<1>8. Fresh(h) = CHOOSE k : k = [t \in Seq(Config) |-> Below(h, k, t)]
    BY DEF Fresh, Below
<1>9. Fresh(h) = [t \in Seq(Config) |-> Below(h, Fresh(h), t)]
  <2> HIDE DEF g
  <2> DEFINE P(k) == k = [t \in Seq(Config) |-> Below(h, k, t)]
  <2>1. P(g)
      BY <1>7
  <2>2. Fresh(h) = CHOOSE k : P(k)
      BY <1>8
  <2> HIDE DEF P
  <2>3. P(Fresh(h))
      BY <2>1, <2>2
  <2> QED BY <2>3 DEF P
<1> QED BY <1>9
-----------------------------------------------------------------------------
(***************************************************************************)
(* Settings one after the other are settings merged one by one.               *)
(***************************************************************************)
LEMMA NothingGiven ==
    ASSUME NEW h, NEW s
    PROVE  Overlay(Given(h, s, 0)) = Empty
<1>1. DOMAIN Given(h, s, 0) = {}
    BY DEF Given
<1>2. \A x : LastOf(Given(h, s, 0), x) = Unset
    BY <1>1 DEF LastOf
<1> QED BY <1>2 DEF Overlay, Empty

LEMMA OneMoreGiven ==
    ASSUME NEW h, NEW s, NEW n \in Nat
    PROVE  Overlay(Given(h, s, n + 1)) =
             MergeFrom(Overlay(Given(h, s, n)), Gives(h, s, h.bases[Last(s)][n + 1]))
<1> DEFINE long == Given(h, s, n + 1)
           short == Given(h, s, n)
           given == Gives(h, s, h.bases[Last(s)][n + 1])
<1>1. /\ DOMAIN long = 1..(n + 1) /\ DOMAIN short = 1..n
      /\ long[n + 1] = given
      /\ \A i \in 1..n : long[i] = short[i]
    BY DEF Given
<1> HIDE DEF long, short, given
<1>2. ASSUME NEW x \in Setting
      PROVE  LastOf(long, x) = IF given[x] # Unset THEN given[x] ELSE LastOf(short, x)
  <2> DEFINE longer == {i \in DOMAIN long : long[i][x] # Unset}
             shorter == {i \in DOMAIN short : short[i][x] # Unset}
  <2>1. CASE given[x] # Unset
    <3>1. n + 1 \in longer
        BY <1>1, <2>1
    <3>2. longer \subseteq 1..(n + 1) /\ n + 1 \in Nat
        BY <1>1
    <3>3. Max(longer) \in longer /\ \A i \in longer : i <= Max(longer)
      <4> HIDE DEF longer
      <4> QED BY <3>1, <3>2, Largest
    <3>4. Max(longer) = n + 1
      <4> DEFINE m == Max(longer)
      <4> HIDE DEF m
      <4>1. m \in 1..(n + 1)
          BY <3>2, <3>3 DEF m
      <4>2. n + 1 <= m
          BY <3>1, <3>3 DEF m
      <4>3. m = n + 1
          BY <4>1, <4>2
      <4> QED BY <4>3 DEF m
    <3>5. LastOf(long, x) = long[Max(longer)][x]
        BY <3>1 DEF LastOf
    <3> QED BY <1>1, <2>1, <3>4, <3>5
  <2>2. CASE given[x] = Unset
    <3>1. \A i \in 1..(n + 1) : i \in 1..n \/ i = n + 1
        OBVIOUS
    <3>2. 1..n \subseteq 1..(n + 1)
        OBVIOUS
    <3>3. longer = shorter
        BY <1>1, <2>2, <3>1, <3>2
    <3>4. CASE shorter = {}
        BY <2>2, <3>3, <3>4 DEF LastOf
    <3>5. CASE shorter # {}
      <4>1. Max(shorter) \in shorter
        <5>1. shorter \subseteq 1..n
            BY <1>1
        <5> HIDE DEF shorter
        <5> QED BY <3>5, <5>1, Largest
      <4>2. long[Max(shorter)] = short[Max(shorter)]
          BY <1>1, <4>1
      <4>3. LastOf(long, x) = long[Max(longer)][x] /\ LastOf(short, x) = short[Max(shorter)][x]
          BY <3>3, <3>5 DEF LastOf
      <4> HIDE DEF longer, shorter
      <4> QED BY <2>2, <3>3, <4>2, <4>3
    <3> QED BY <3>4, <3>5
  <2> QED BY <2>1, <2>2
<1>3. \A x \in Setting : Overlay(short)[x] = LastOf(short, x) /\ Overlay(long)[x] = LastOf(long, x)
    BY DEF Overlay
<1>4. Overlay(long) = [x \in Setting |-> LastOf(long, x)]
    BY DEF Overlay
<1>5. MergeFrom(Overlay(short), given) = [x \in Setting |-> IF given[x] # Unset THEN given[x] ELSE Overlay(short)[x]]
    BY DEF MergeFrom
<1>6. Overlay(long) = MergeFrom(Overlay(short), given)
    BY <1>2, <1>3, <1>4, <1>5
<1> QED BY <1>6 DEF long, short, given

\* A base that is not loaded gives nothing.
LEMMA NothingMore ==
    ASSUME NEW h, NEW s, NEW n \in Nat, ~Loads(h, s, h.bases[Last(s)][n + 1])
    PROVE  Overlay(Given(h, s, n + 1)) = Overlay(Given(h, s, n))
<1>1. Gives(h, s, h.bases[Last(s)][n + 1]) = Empty
    BY DEF Gives
<1>2. \A x \in Setting : Empty[x] = Unset
    BY DEF Empty
<1>3. MergeFrom(Overlay(Given(h, s, n)), Empty) = [x \in Setting |-> Overlay(Given(h, s, n))[x]]
    BY <1>2 DEF MergeFrom
<1>4. Overlay(Given(h, s, n)) = [x \in Setting |-> Overlay(Given(h, s, n))[x]]
    BY DEF Overlay
<1> QED BY <1>1, <1>3, <1>4, OneMoreGiven

\* The settings of the last of s are its own over those of all its bases.
LEMMA AllGiven ==
    ASSUME TypeOK, NEW s \in Seq(Config), s # <<>>
    PROVE  Fresh(host)[s] =
             MergeFrom(Overlay(Given(host, s, Len(host.bases[Last(s)]))), Own(Last(s)))
<1> DEFINE c == Last(s)
           bases == host.bases[c]
           given == [i \in DOMAIN bases |->
                       IF Loads(host, s, bases[i]) THEN Fresh(host)[Append(s, bases[i])] ELSE Empty]
<1>1. c \in Config
    BY DEF Last
<1>2. DOMAIN bases = 1..Len(bases)
    BY <1>1, BasesType
<1>3. given = Given(host, s, Len(bases))
    BY <1>2 DEF Given, Gives
<1>4. Fresh(host)[s] = [x \in Setting |-> IF x \in host.authored[c] THEN c ELSE LastOf(given, x)]
  <2>1. Fresh(host)[s] = Below(host, Fresh(host), s)
      BY FreshIs
  <2> DEFINE f == Fresh(host)
  <2> HIDE DEF f
  <2>2. Below(host, f, s) =
          LET g == [i \in DOMAIN bases |-> IF Loads(host, s, bases[i]) THEN f[Append(s, bases[i])] ELSE Empty]
          IN  [x \in Setting |-> IF x \in host.authored[c] THEN c ELSE LastOf(g, x)]
      BY DEF Below
  <2> QED BY <2>1, <2>2 DEF f
<1>5. \A x \in Setting : Overlay(given)[x] = LastOf(given, x)
    BY DEF Overlay
<1>6. \A x \in Setting : Own(c)[x] = IF x \in host.authored[c] THEN c ELSE Unset
    BY DEF Own
<1>7. c # Unset
    BY <1>1, ConfigAssumption
<1>8. MergeFrom(Overlay(given), Own(c)) =
        [x \in Setting |-> IF Own(c)[x] # Unset THEN Own(c)[x] ELSE Overlay(given)[x]]
    BY DEF MergeFrom
<1> HIDE DEF given
<1>9. Fresh(host)[s] = MergeFrom(Overlay(given), Own(c))
    BY <1>4, <1>5, <1>6, <1>7, <1>8
<1> QED BY <1>3, <1>9
-----------------------------------------------------------------------------
(***************************************************************************)
(* What is remembered: closed under extends, and of no cycle, which is said    *)
(* by ranks: a base was remembered before what extends it.                      *)
(***************************************************************************)
ClosedUnder(h, C) ==
    /\ C \cap h.unreadable = {}
    /\ \A c \in C : \A b \in Range(h.bases[c]) : b \in C \cup h.unreadable \cup {Missing}
Ranks(h, C, r) ==
    \A c \in C : \A b \in Range(h.bases[c]) : b \in C => r[b] < r[c]

LEMMA UpToNext ==
    ASSUME NEW n \in Nat
    PROVE  \A k \in 1..(n + 1) : k \in 1..n \/ k = n + 1
OBVIOUS

\* Nothing above c in rank, and c itself, is on s.
IsClear(C, r, s, c) == \A i \in DOMAIN s : s[i] \in C => r[c] < r[s[i]]

\* Loaded below whatever, it gives the same.
LEMMA SameBelow ==
    ASSUME NEW h \in Host, NEW C \in SUBSET Config, ClosedUnder(h, C),
           NEW r \in [Config -> Nat], Ranks(h, C, r)
    PROVE  \A c \in C : \A s, t \in Seq(Config) :
               IsClear(C, r, s, c) /\ IsClear(C, r, t, c)
                 => Fresh(h)[Append(s, c)] = Fresh(h)[Append(t, c)]
<1> DEFINE Good(n) ==
        \A e \in C : \A u, v \in Seq(Config) :
            r[e] = n /\ IsClear(C, r, u, e) /\ IsClear(C, r, v, e)
              => Fresh(h)[Append(u, e)] = Fresh(h)[Append(v, e)]
           ns == {n \in Nat : Good(n)}
<1>1. \A n \in Nat : (\A m \in Nat : m < n => m \in ns) => n \in ns
  <2> SUFFICES ASSUME NEW n \in Nat, \A m \in Nat : m < n => m \in ns PROVE n \in ns
      OBVIOUS
  <2> SUFFICES ASSUME NEW e \in C, NEW u \in Seq(Config), NEW v \in Seq(Config),
                      r[e] = n, IsClear(C, r, u, e), IsClear(C, r, v, e)
               PROVE  Fresh(h)[Append(u, e)] = Fresh(h)[Append(v, e)]
      OBVIOUS
  <2> DEFINE bases == h.bases[e]
             ue == Append(u, e)
             ve == Append(v, e)
  <2>1. /\ ue \in Seq(Config) /\ ve \in Seq(Config) /\ Last(ue) = e /\ Last(ve) = e
        /\ bases \in Seq(Config \cup {Missing}) /\ DOMAIN bases = 1..Len(bases)
    <3>1. bases \in Seq(Config \cup {Missing})
        BY DEF Host
    <3> HIDE DEF bases
    <3> QED BY <3>1 DEF Last
  <2> DEFINE Gets(w, i) == IF Loads(h, w, bases[i]) THEN Fresh(h)[Append(w, bases[i])] ELSE Empty
  <2>2. \A i \in DOMAIN bases : Gets(ue, i) = Gets(ve, i)
    <3> SUFFICES ASSUME NEW i \in DOMAIN bases PROVE Gets(ue, i) = Gets(ve, i)
        OBVIOUS
    <3> DEFINE b == bases[i]
    <3>1. b \in Range(h.bases[e])
        BY DEF Range
    <3>2. b \in C \cup h.unreadable \cup {Missing}
        BY <3>1 DEF ClosedUnder
    <3>3. CASE b \in C
      <4>1. r[b] < n /\ r[b] \in Nat
          BY <3>1, <3>3 DEF Ranks
      <4>2. ASSUME NEW w \in Seq(Config), IsClear(C, r, w, e)
            PROVE  Loads(h, Append(w, e), b) /\ IsClear(C, r, Append(w, e), b)
        <5>1. /\ DOMAIN Append(w, e) = 1..(Len(w) + 1) /\ DOMAIN w = 1..Len(w) /\ Len(w) \in Nat
              /\ \A k \in 1..Len(w) : Append(w, e)[k] = w[k]
              /\ Append(w, e)[Len(w) + 1] = e
            BY Pushed
        <5>2. \A k \in 1..(Len(w) + 1) : k \in 1..Len(w) \/ k = Len(w) + 1
            BY <5>1, UpToNext
        <5>3. ASSUME NEW k \in DOMAIN Append(w, e), Append(w, e)[k] \in C
              PROVE  r[b] < r[Append(w, e)[k]]
          <6>1. CASE k \in 1..Len(w)
            <7>1. r[e] < r[w[k]] /\ r[w[k]] \in Nat
                BY <4>2, <5>1, <5>3, <6>1 DEF IsClear
            <7> HIDE DEF b
            <7> QED BY <4>1, <5>1, <6>1, <7>1
          <6>2. CASE k = Len(w) + 1
              BY <4>1, <5>1, <6>2
          <6> QED BY <5>1, <5>2, <6>1, <6>2
        <5>4. IsClear(C, r, Append(w, e), b)
            BY <5>3 DEF IsClear
        <5>5. b \notin Range(Append(w, e))
          <6> SUFFICES ASSUME NEW k \in DOMAIN Append(w, e), Append(w, e)[k] = b PROVE FALSE
              BY DEF Range
          <6>1. r[b] < r[b]
              BY <3>3, <5>3
          <6> HIDE DEF b
          <6> QED BY <4>1, <6>1
        <5>6. b \in Config /\ b \notin h.unreadable
            BY <3>3 DEF ClosedUnder
        <5> QED BY <5>4, <5>5, <5>6 DEF Loads
      <4>3. Loads(h, ue, b) /\ IsClear(C, r, ue, b) /\ Loads(h, ve, b) /\ IsClear(C, r, ve, b)
          BY <4>2
      <4>4. Good(r[b])
          BY <4>1
      <4>5. Fresh(h)[Append(ue, b)] = Fresh(h)[Append(ve, b)]
        <5> HIDE DEF b, ue, ve
        <5> QED BY <2>1, <3>3, <4>3, <4>4
      <4> QED BY <4>3, <4>5
    <3>4. CASE b \notin C
      <4>1. b \in h.unreadable \/ b \notin Config
          BY <3>2, <3>4, ConfigAssumption
      <4>2. ~Loads(h, ue, b) /\ ~Loads(h, ve, b)
          BY <4>1 DEF Loads
      <4> QED BY <4>2
    <3> QED BY <3>3, <3>4
  <2> DEFINE Listed(w) == [i \in DOMAIN bases |-> Gets(w, i)]
             Settings(w) == [x \in Setting |-> IF x \in h.authored[e] THEN e ELSE LastOf(Listed(w), x)]
  <2>3. Listed(ue) = Listed(ve)
    <3> HIDE DEF Gets
    <3> QED BY <2>2
  <2>4. ASSUME NEW w \in Seq(Config), Last(w) = e
        PROVE  Fresh(h)[w] = Settings(w)
    <3>1. Fresh(h)[w] = Below(h, Fresh(h), w)
        BY FreshIs
    <3> DEFINE f == Fresh(h)
    <3> HIDE DEF f
    <3>2. Below(h, f, w) =
            LET g == [i \in DOMAIN bases |-> IF Loads(h, w, bases[i]) THEN f[Append(w, bases[i])] ELSE Empty]
            IN  [x \in Setting |-> IF x \in h.authored[e] THEN e ELSE LastOf(g, x)]
        BY <2>4 DEF Below
    <3> QED BY <3>1, <3>2 DEF f
  <2>5. Fresh(h)[ue] = Settings(ue) /\ Fresh(h)[ve] = Settings(ve)
    <3> HIDE DEF Settings, ue, ve
    <3> QED BY <2>1, <2>4
  <2>6. Settings(ue) = Settings(ve)
    <3> HIDE DEF Listed
    <3> QED BY <2>3
  <2> HIDE DEF Settings
  <2> QED BY <2>5, <2>6
<1>2. Nat \subseteq ns
  <2> HIDE DEF ns
  <2> QED BY <1>1, Complete
<1>3. \A c \in C : r[c] \in ns
    BY <1>2
<1> QED BY <1>3
-----------------------------------------------------------------------------
(***************************************************************************)
(* The loader's own invariant.                                                 *)
(***************************************************************************)
\* The active calls from the outermost to the i-th, and what is being loaded or was
\* just answered below them.
Upto(i) == [k \in 1..i |-> loads[k].config]
Wanted == IF loads = <<>> THEN host.entry ELSE Bases[Top.next]

EntryIsFirst ==
    /\ loads # <<>> => loads[1].config = host.entry
    /\ control.op = "load" => control.config = Wanted
    /\ control.op \notin {"start", "done"} => host.entry # Missing

\* A call has merged what the bases it is past give.
LoadsAreFresh ==
    \A i \in DOMAIN loads : loads[i].merged = Overlay(Given(host, Upto(i), loads[i].next - 1))

\* An answer for b below s.
Answers(result, s, b) ==
    IF Loads(host, s, b) THEN result # NoConfig /\ result.merged = Fresh(host)[Append(s, b)]
    ELSE result = NoConfig
ResultIsFresh == control.op \in {"return", "done"} => Answers(control.result, Stack, Wanted)

CacheIsFresh == \A c \in Cached : cache[c].merged = Fresh(host)[<<c>>]

\* A configuration ranks as many as were remembered before it.
CacheIsRanked ==
    \E r \in [Config -> Nat] :
        Ranks(host, Cached, r) /\ \A c \in Cached : r[c] < Cardinality(Cached)

FreshInv == EntryIsFirst /\ LoadsAreFresh /\ ResultIsFresh /\ CacheIsFresh /\ CacheIsRanked

LEMMA Shape ==
    ASSUME TypeOK
    PROVE  /\ Len(loads) \in Nat /\ DOMAIN loads = 1..Len(loads)
           /\ Stack = Upto(Len(loads))
           /\ \A i \in 0..Len(loads) :
                Upto(i) \in Seq(Config) /\ Len(Upto(i)) = i /\ DOMAIN Upto(i) = 1..i
           /\ \A i \in 1..Len(loads) :
                /\ Upto(i) # <<>> /\ Last(Upto(i)) = loads[i].config
                /\ Upto(i) = Append(Upto(i - 1), loads[i].config)
<1> DEFINE n == Len(loads)
<1>1. n \in Nat /\ DOMAIN loads = 1..n /\ \A i \in 1..n : loads[i].config \in Config
    BY LoadType
<1> HIDE DEF n
<1>2. ASSUME NEW i \in 0..n
      PROVE  Upto(i) \in Seq(Config) /\ Len(Upto(i)) = i /\ DOMAIN Upto(i) = 1..i
  <2>1. i \in Nat /\ \A k \in 1..i : loads[k].config \in Config
      BY <1>1
  <2> QED BY <2>1 DEF Upto
<1>3. ASSUME NEW i \in 1..n
      PROVE  /\ Upto(i) # <<>> /\ Last(Upto(i)) = loads[i].config
             /\ Upto(i) = Append(Upto(i - 1), loads[i].config)
  <2>1. i \in 0..n /\ i - 1 \in 0..n /\ i \in Nat \ {0} /\ i \in 1..i
      BY <1>1
  <2>2. Upto(i) \in Seq(Config) /\ Len(Upto(i)) = i /\ DOMAIN Upto(i) = 1..i /\ Upto(i)[i] = loads[i].config
      BY <1>2, <2>1 DEF Upto
  <2>3. Upto(i - 1) \in Seq(Config) /\ Len(Upto(i - 1)) = i - 1
      BY <1>2, <2>1
  <2>4. loads[i].config \in Config
      BY <1>1
  <2>5. /\ DOMAIN Append(Upto(i - 1), loads[i].config) = 1..i
        /\ \A k \in 1..(i - 1) : Append(Upto(i - 1), loads[i].config)[k] = Upto(i - 1)[k]
        /\ Append(Upto(i - 1), loads[i].config)[i] = loads[i].config
        /\ Append(Upto(i - 1), loads[i].config) \in Seq(Config)
    <3>1. (i - 1) + 1 = i
        BY <2>1
    <3> QED BY <2>3, <2>4, <3>1, Pushed
  <2>6. \A k \in 1..i : Append(Upto(i - 1), loads[i].config)[k] = Upto(i)[k]
    <3>1. \A k \in 1..i : k \in 1..(i - 1) \/ k = i
        BY <2>1
    <3>2. \A k \in 1..(i - 1) : Upto(i - 1)[k] = loads[k].config
        BY DEF Upto
    <3>3. \A k \in 1..i : Upto(i)[k] = loads[k].config
        BY DEF Upto
    <3> QED BY <2>5, <3>1, <3>2, <3>3
  <2>7. Upto(i) = Append(Upto(i - 1), loads[i].config)
    <3> DEFINE u == Upto(i)
               v == Append(Upto(i - 1), loads[i].config)
    <3>1. u \in Seq(Config) /\ v \in Seq(Config) /\ DOMAIN u = DOMAIN v /\ \A k \in DOMAIN u : v[k] = u[k]
        BY <2>2, <2>5, <2>6
    <3>2. u = [k \in DOMAIN u |-> u[k]] /\ v = [k \in DOMAIN v |-> v[k]]
      <4> HIDE DEF u, v
      <4> QED BY <3>1
    <3> HIDE DEF u, v
    <3>3. u = v
        BY <3>1, <3>2
    <3> QED BY <3>3 DEF u, v
  <2>8. Upto(i) # <<>>
      BY <2>1, <2>2
  <2> QED BY <2>2, <2>7, <2>8 DEF Last
<1>4. Stack = Upto(n)
    BY <1>1 DEF Stack, Upto
<1> QED BY <1>1, <1>2, <1>3, <1>4 DEF n

\* What is wanted below the stack.
LEMMA WantedIs ==
    ASSUME IInv
    PROVE  /\ loads = <<>> => Stack = <<>> /\ Wanted = host.entry /\ Len(loads) = 0
           /\ loads # <<>> => /\ Wanted = Bases[Top.next] /\ Wanted = host.bases[Last(Stack)][Top.next]
                              /\ Bases = host.bases[Last(Stack)]
                              /\ Last(Stack) = Top.config /\ Top = loads[Len(loads)]
                              /\ Len(loads) \in 1..Len(loads) /\ Len(loads) \in Nat \ {0}
           /\ Stack \in Seq(Config)
           /\ Range(Stack) = {loads[i].config : i \in 1..Len(loads)}
           /\ \A c : OnStack(c) <=> c \in Range(Stack)
<1>1. TypeOK
    BY DEF IInv
<1>2. /\ Len(loads) \in Nat /\ DOMAIN loads = 1..Len(loads)
      /\ Stack = Upto(Len(loads)) /\ Stack \in Seq(Config) /\ Len(Stack) = Len(loads)
    BY <1>1, Shape
<1>3. loads = <<>> => Stack = <<>> /\ Wanted = host.entry /\ Len(loads) = 0
    BY <1>2 DEF Wanted
<1>4. ASSUME loads # <<>>
      PROVE  /\ Wanted = Bases[Top.next] /\ Wanted = host.bases[Last(Stack)][Top.next]
             /\ Bases = host.bases[Last(Stack)]
             /\ Last(Stack) = Top.config /\ Top = loads[Len(loads)]
             /\ Len(loads) \in 1..Len(loads) /\ Len(loads) \in Nat \ {0}
  <2>1. Len(loads) \in 1..Len(loads) /\ Top = loads[Len(loads)]
      BY <1>1, <1>4, TopType
  <2>2. Last(Stack) = Top.config
      BY <1>1, <1>2, <2>1, Shape
  <2> QED BY <1>2, <1>4, <2>1, <2>2 DEF Wanted, Bases
<1>5. Range(Stack) = {loads[i].config : i \in 1..Len(loads)}
    BY <1>2 DEF Stack, Range
<1>6. \A c : OnStack(c) <=> c \in Range(Stack)
    BY <1>2, <1>5 DEF OnStack
<1> QED BY <1>2, <1>3, <1>4, <1>5, <1>6

\* The stack changes at its end only.
LEMMA LoadsStep ==
    ASSUME TypeOK, LoadsAreFresh, host' = host,
           NEW k \in Nat, NEW m \in {k, k + 1}, k <= Len(loads),
           DOMAIN loads' = 1..m, \A i \in 1..k : loads'[i] = loads[i],
           m = k + 1 => loads'[m].merged = Overlay(Given(host, Upto(m)', loads'[m].next - 1))
    PROVE  LoadsAreFresh'
<1>1. DOMAIN loads = 1..Len(loads) /\ Len(loads) \in Nat
    BY Shape
<1> SUFFICES ASSUME NEW i \in 1..m
             PROVE  loads'[i].merged = Overlay(Given(host, Upto(i)', loads'[i].next - 1))
    BY DEF LoadsAreFresh
<1>2. CASE i \in 1..k
  <2>1. i \in DOMAIN loads /\ loads'[i] = loads[i]
      BY <1>1, <1>2
  <2>2. \A j \in 1..i : loads'[j] = loads[j]
      BY <1>2
  <2>3. Upto(i)' = Upto(i)
      BY <2>2 DEF Upto
  <2>4. loads[i].merged = Overlay(Given(host, Upto(i), loads[i].next - 1))
      BY <2>1 DEF LoadsAreFresh
  <2> QED BY <2>1, <2>3, <2>4
<1>3. CASE i \notin 1..k
  <2>1. m = k + 1 /\ i = m
      BY <1>3
  <2> QED BY <2>1
<1> QED BY <1>2, <1>3

LEMMA CacheShape ==
    ASSUME IInv
    PROVE  /\ Cached \in SUBSET Config /\ IsFiniteSet(Cached) /\ Cardinality(Cached) \in Nat
           /\ ClosedUnder(host, Cached)
           /\ \A c \in Cached : c \notin Range(Stack)
<1>1. Cached \in SUBSET Config
    BY DEF Cached
<1>2. IsFiniteSet(Cached) /\ Cardinality(Cached) \in Nat
    BY <1>1, FiniteAssumption, FS_Subset, FS_CardinalityType
<1>3. ClosedUnder(host, Cached)
    BY DEF IInv, CacheIsDefinitive, ClosedUnder
<1>4. \A c \in Cached : c \notin Range(Stack)
    BY WantedIs DEF IInv, CacheIsDefinitive
<1> QED BY <1>1, <1>2, <1>3, <1>4

\* Below what is not remembered it gives what it gives alone.
LEMMA SameAlone ==
    ASSUME NEW h \in Host, NEW C \in SUBSET Config, ClosedUnder(h, C),
           \E r \in [Config -> Nat] : Ranks(h, C, r),
           NEW s \in Seq(Config), \A x \in C : x \notin Range(s), NEW c \in C
    PROVE  Fresh(h)[Append(s, c)] = Fresh(h)[<<c>>]
<1>1. PICK r \in [Config -> Nat] : Ranks(h, C, r)
    OBVIOUS
<1>2. PICK t : t = <<>>
    OBVIOUS
<1>3. IsClear(C, r, s, c) /\ IsClear(C, r, t, c)
    BY <1>2 DEF IsClear, Range
<1>4. t \in Seq(Config) /\ Append(t, c) = <<c>>
    BY <1>2
<1>5. Fresh(h)[Append(s, c)] = Fresh(h)[Append(t, c)]
  <2>1. \A u, v \in Seq(Config) :
          IsClear(C, r, u, c) /\ IsClear(C, r, v, c) => Fresh(h)[Append(u, c)] = Fresh(h)[Append(v, c)]
    <3>1. h \in Host /\ C \in SUBSET Config /\ ClosedUnder(h, C) /\ r \in [Config -> Nat] /\ Ranks(h, C, r)
        BY <1>1
    <3>2. \A e \in C : \A u, v \in Seq(Config) :
            IsClear(C, r, u, e) /\ IsClear(C, r, v, e) => Fresh(h)[Append(u, e)] = Fresh(h)[Append(v, e)]
        BY ONLY <3>1, SameBelow
    <3> QED BY <3>2
  <2> QED BY <1>3, <1>4, <2>1
<1> QED BY <1>4, <1>5

\* What is remembered is fresh below the present stack too.
LEMMA CachedBelow ==
    ASSUME IInv, CacheIsFresh, CacheIsRanked, NEW c \in Cached
    PROVE  cache[c].merged = Fresh(host)[Append(Stack, c)] /\ Loads(host, Stack, c)
<1>1. \E r \in [Config -> Nat] : Ranks(host, Cached, r)
    BY DEF CacheIsRanked
<1>2. /\ Cached \in SUBSET Config /\ ClosedUnder(host, Cached) /\ Stack \in Seq(Config)
      /\ c \in Config /\ \A x \in Cached : x \notin Range(Stack) /\ c \notin host.unreadable
    BY CacheShape, WantedIs DEF ClosedUnder
<1>3. host \in Host
    BY DEF IInv, TypeOK
<1>4. Fresh(host)[Append(Stack, c)] = Fresh(host)[<<c>>]
  <2>1. PICK h, C, s : h = host /\ C = Cached /\ s = Stack
      OBVIOUS
  <2>2. /\ h \in Host /\ C \in SUBSET Config /\ ClosedUnder(h, C)
        /\ \E r \in [Config -> Nat] : Ranks(h, C, r)
        /\ c \in C /\ s \in Seq(Config) /\ \A x \in C : x \notin Range(s)
      BY <1>1, <1>2, <1>3, <2>1
  <2>3. Fresh(h)[Append(s, c)] = Fresh(h)[<<c>>]
      BY <2>2, SameAlone
  <2> QED BY <2>1, <2>3
<1> QED BY <1>2, <1>4 DEF CacheIsFresh, Loads

\* The steps that change neither the stack nor the cache.
LEMMA FreshQuiet ==
    ASSUME IInv, FreshInv, UNCHANGED <<host, loads, cache>>,
           control'.op = "load" => control'.config = Wanted,
           control'.op \notin {"start", "done"} => host.entry # Missing,
           control'.op \in {"return", "done"} => Answers(control'.result, Stack, Wanted)
    PROVE  FreshInv'
<1>1. /\ Stack' = Stack /\ Wanted' = Wanted /\ Cached' = Cached
      /\ \A i : Upto(i)' = Upto(i)
    BY DEF Stack, Wanted, Bases, Top, Cached, Upto
<1>2. EntryIsFirst'
    BY <1>1 DEF FreshInv, EntryIsFirst
<1>3. LoadsAreFresh'
    BY <1>1 DEF FreshInv, LoadsAreFresh
<1>4. ResultIsFresh'
    BY <1>1 DEF ResultIsFresh, Answers
<1>5. CacheIsFresh'
    BY <1>1 DEF FreshInv, CacheIsFresh
<1>6. CacheIsRanked'
    BY <1>1 DEF FreshInv, CacheIsRanked
<1> QED BY <1>2, <1>3, <1>4, <1>5, <1>6 DEF FreshInv

\* A call that goes on to its next base.
Advances(e) ==
    /\ loads # <<>> /\ e \in Load /\ e.config = Top.config /\ e.next = Top.next + 1
    /\ loads' = [loads EXCEPT ![Len(loads)] = e]
    /\ control' = [op |-> "run"] /\ UNCHANGED <<host, cache>>

LEMMA FreshMerge ==
    ASSUME IInv, FreshInv, NEW e \in Load, Advances(e),
           e.merged = Overlay(Given(host, Stack, Top.next)), host.entry # Missing
    PROVE  FreshInv'
<1>0. PICK n : n = Len(loads)
    OBVIOUS
<1>a. TypeOK /\ loads \in Seq(Load)
    BY DEF IInv, TypeOK
<1>1. /\ UNCHANGED <<host, cache>> /\ control' = [op |-> "run"] /\ loads # <<>>
      /\ e.config = Top.config /\ e.next = Top.next + 1
      /\ loads' = [loads EXCEPT ![n] = e]
    BY <1>0 DEF Advances
<1>2. /\ n \in Nat \ {0} /\ n \in 1..n /\ DOMAIN loads = 1..n /\ Top = loads[n] /\ Top.next \in Nat \ {0}
      /\ Stack = Upto(n)
    BY <1>0, <1>a, <1>1, TopType, LoadType, WantedIs, Shape
<1>3. /\ DOMAIN loads' = 1..n /\ loads'[n] = e
      /\ \A i \in 1..(n - 1) : loads'[i] = loads[i]
    BY <1>0, <1>a, <1>1, Changed
<1>4. \A i \in 1..n : loads'[i].config = loads[i].config
    BY <1>1, <1>2, <1>3
<1>5. Upto(n)' = Stack
  <2>1. Upto(n) = [k \in 1..n |-> loads[k].config] /\ Upto(n)' = [k \in 1..n |-> loads'[k].config]
      BY DEF Upto
  <2> QED BY <1>2, <1>4, <2>1
<1>6. loads'[n].merged = Overlay(Given(host, Upto(n)', loads'[n].next - 1))
  <2>1. e.next - 1 = Top.next
      BY <1>1, <1>2
  <2> QED BY <1>3, <1>5, <2>1
<1>7. LoadsAreFresh'
  <2>1. n - 1 \in Nat /\ n \in {n - 1, (n - 1) + 1} /\ n - 1 <= Len(loads)
      BY <1>0, <1>2
  <2>2. LoadsAreFresh
      BY DEF FreshInv
  <2> QED BY <1>a, <1>1, <1>3, <1>6, <2>1, <2>2, LoadsStep
<1>8. EntryIsFirst'
  <2>1. loads'[1].config = loads[1].config
      BY <1>2, <1>4
  <2>2. loads[1].config = host.entry
      BY <1>1 DEF FreshInv, EntryIsFirst
  <2> QED BY <1>1, <2>1, <2>2 DEF EntryIsFirst
<1>9. Cached' = Cached
    BY <1>1 DEF Cached
<1>10. ResultIsFresh'
    BY <1>1 DEF ResultIsFresh
<1>11. CacheIsFresh' /\ CacheIsRanked'
    BY <1>1, <1>9 DEF FreshInv, CacheIsFresh, CacheIsRanked
<1> QED BY <1>7, <1>8, <1>10, <1>11 DEF FreshInv

LEMMA FreshEnter ==
    ASSUME IInv, FreshInv, LoadEnter
    PROVE  FreshInv'
<1>0. PICK n : n = Len(loads)
    OBVIOUS
<1> DEFINE c == control.config
           e == [config |-> c, next |-> 1, merged |-> Empty, complete |-> TRUE]
<1>a. TypeOK /\ loads \in Seq(Load)
    BY DEF IInv, TypeOK
<1>1. /\ UNCHANGED <<host, cache>> /\ control' = [op |-> "run"] /\ control.op = "load"
      /\ loads' = Append(loads, e) /\ c \in Config /\ c = Wanted
    BY <1>a DEF LoadEnter, TypeOK, Control, FreshInv, EntryIsFirst
<1>2. e \in Load
    BY <1>1, EmptyType DEF Load
<1>3. /\ n \in Nat /\ DOMAIN loads' = 1..(n + 1) /\ loads'[n + 1] = e
      /\ \A i \in 1..n : loads'[i] = loads[i]
    BY <1>0, <1>a, <1>1, <1>2, Pushed
<1>4. loads'[n + 1].merged = Overlay(Given(host, Upto(n + 1)', loads'[n + 1].next - 1))
    BY <1>3, NothingGiven
<1>5. LoadsAreFresh'
  <2>1. LoadsAreFresh
      BY DEF FreshInv
  <2> HIDE DEF e
  <2> QED BY <1>0, <1>a, <1>1, <1>3, <1>4, <2>1, LoadsStep
<1>6. EntryIsFirst'
  <2>1. host.entry # Missing
      BY <1>1 DEF FreshInv, EntryIsFirst
  <2>2. CASE loads = <<>>
    <3>1. n = 0 /\ c = host.entry
        BY <1>0, <1>1, <2>2, WantedIs
    <3> QED BY <1>1, <1>3, <2>1, <3>1 DEF EntryIsFirst
  <2>3. CASE loads # <<>>
    <3>1. n \in Nat \ {0}
        BY <1>0, <2>3, WantedIs
    <3>2. 1 \in 1..n
        BY <3>1
    <3>3. loads'[1] = loads[1] /\ loads[1].config = host.entry
        BY <1>3, <2>3, <3>2 DEF FreshInv, EntryIsFirst
    <3> QED BY <1>1, <2>1, <3>3 DEF EntryIsFirst
  <2> QED BY <2>2, <2>3
<1>7. Cached' = Cached
    BY <1>1 DEF Cached
<1>8. ResultIsFresh'
    BY <1>1 DEF ResultIsFresh
<1>9. CacheIsFresh' /\ CacheIsRanked'
    BY <1>1, <1>7 DEF FreshInv, CacheIsFresh, CacheIsRanked
<1> QED BY <1>5, <1>6, <1>8, <1>9 DEF FreshInv

\* A call that is over: its settings are fresh, below the calls that are left and,
\* once they are remembered, below nothing.
LEMMA Finished ==
    ASSUME IInv, FreshInv, Finish
    PROVE  /\ Upto(Len(loads) - 1) = Stack'
           /\ Wanted' = Top.config /\ Stack = Append(Stack', Top.config) /\ Top.config \in Config
           /\ Stack' \in Seq(Config) /\ Top.config \notin Range(Stack') /\ Top.config \notin host.unreadable
           /\ Loaded.merged = Fresh(host)[Stack] /\ Loaded # NoConfig
           /\ Top.config \notin Cached
           /\ LoadsAreFresh' /\ EntryIsFirst'
<1>0. PICK n : n = Len(loads)
    OBVIOUS
<1>a. TypeOK /\ loads \in Seq(Load) /\ StackIsPath /\ CacheIsDefinitive /\ LoadsAreFresh /\ EntryIsFirst
    BY DEF IInv, TypeOK, FreshInv
<1>1. /\ loads # <<>> /\ loads' = SubSeq(loads, 1, n - 1) /\ host' = host /\ control.op = "run"
      /\ control' = [op |-> "return", result |-> Loaded] /\ Top.next > Len(Bases)
    BY <1>0 DEF Finish, Running, Pop, Return
<1>2. /\ n \in Nat \ {0} /\ n \in 1..n /\ DOMAIN loads = 1..n /\ Top = loads[n] /\ Top.next \in Nat \ {0}
      /\ Stack = Upto(n) /\ Top.config \in Config /\ Top.merged \in Merged
    BY <1>0, <1>a, <1>1, TopType, LoadType, WantedIs, Shape
<1>3. /\ Len(loads') = n - 1 /\ DOMAIN loads' = 1..(n - 1)
      /\ \A i \in 1..(n - 1) : loads'[i] = loads[i]
    BY <1>0, <1>a, <1>1, Popped
<1>b. n = 1 => loads' = <<>>
  <2> SUFFICES ASSUME n = 1 PROVE loads' = <<>>
      OBVIOUS
  <2>1. loads' = SubSeq(loads, 1, 0)
      BY <1>1
  <2> QED BY <1>a, <2>1
<1>4. Stack' = Upto(n - 1)
  <2>1. Stack' = [i \in 1..(n - 1) |-> loads'[i].config]
      BY <1>3 DEF Stack
  <2>2. Upto(n - 1) = [i \in 1..(n - 1) |-> loads[i].config]
      BY DEF Upto
  <2> QED BY <1>3, <2>1, <2>2
<1>5. Stack = Append(Stack', Top.config) /\ Stack' \in Seq(Config) /\ DOMAIN Stack' = 1..(n - 1)
  <2>1. n - 1 \in 0..n
      BY <1>2
  <2> QED BY <1>0, <1>a, <1>2, <1>4, <2>1, Shape
<1>6. Top.config \notin Range(Stack')
  <2> SUFFICES ASSUME NEW i \in DOMAIN Stack', Stack'[i] = Top.config PROVE FALSE
      BY DEF Range
  <2>1. i \in 1..(n - 1) /\ Upto(n - 1)[i] = loads[i].config
      BY <1>5 DEF Upto
  <2>2. i \in 1..n /\ i # n
      BY <1>2, <2>1
  <2>3. loads[i].config = loads[n].config
      BY <1>2, <1>4, <2>1
  <2> QED BY <1>a, <1>2, <2>2, <2>3 DEF StackIsPath
<1>7. Linked(n)
    BY <1>a, <1>2 DEF StackIsPath
<1>8. Top.config \notin host.unreadable
    BY <1>2, <1>7 DEF Linked
<1>9. Top.config \notin Cached
    BY <1>2, <1>a DEF CacheIsDefinitive, OnStack
<1>10. Loaded.merged = Fresh(host)[Stack]
  <2>1. Bases = host.bases[Last(Stack)] /\ Last(Stack) = Top.config
      BY <1>1, WantedIs
  <2>2. host.bases[Top.config] \in Seq(Config \cup {Missing})
      BY <1>a, <1>2, BasesType
  <2>3. Top.next - 1 = Len(host.bases[Last(Stack)])
    <3>1. Top.next <= Len(Bases) + 1
        BY <1>2, <1>7, <2>1 DEF Linked, BasesOf
    <3>2. Len(Bases) \in Nat
        BY <2>1, <2>2
    <3>3. PICK k, m : k = Len(Bases) /\ m = Top.next
        OBVIOUS
    <3>4. k \in Nat /\ m \in Nat /\ m > k /\ m <= k + 1
        BY <1>1, <1>2, <3>1, <3>2, <3>3
    <3>5. m - 1 = k
        BY <3>4
    <3> QED BY <2>1, <3>3, <3>5
  <2>4. Top.merged = Overlay(Given(host, Stack, Top.next - 1))
      BY <1>a, <1>2 DEF LoadsAreFresh
  <2>5. Stack \in Seq(Config) /\ Stack # <<>>
    <3>1. \A i \in 1..Len(loads) : Upto(i) # <<>>
        BY <1>a, Shape
    <3> QED BY <1>0, <1>2, <3>1, WantedIs
  <2>6. Fresh(host)[Stack] = MergeFrom(Top.merged, Own(Top.config))
      BY <1>a, <2>1, <2>3, <2>4, <2>5, AllGiven
  <2> QED BY <2>6, Zenon DEF Loaded
<1>11. Loaded # NoConfig
  <2>1. MergeFrom(Top.merged, Own(Top.config)) \in Merged
      BY <1>a, <1>2, MergeFromType, OwnType
  <2>2. (Top.complete /\ Top.config \notin incomplete) \in BOOLEAN
      OBVIOUS
  <2>3. Loaded \in LoadedConfig
      BY <2>1, <2>2, Zenon DEF Loaded, LoadedConfig
  <2> QED BY <2>3, NoConfigAssumption
<1>12. Wanted' = Top.config
  <2>1. CASE n = 1
    <3>1. loads' = <<>>
        BY <1>b, <2>1
    <3>2. Top.config = host.entry
        BY <1>1, <1>2, <1>a, <2>1 DEF EntryIsFirst
    <3> QED BY <1>1, <3>1, <3>2 DEF Wanted
  <2>2. CASE n # 1
    <3>1. n - 1 \in 1..(n - 1) /\ n - 1 \in 1..n /\ n - 1 < n /\ (n - 1) + 1 = n
        BY <1>2, <2>2
    <3>2. loads' # <<>>
        BY <1>3, <3>1
    <3>3. Top' = loads[n - 1]
        BY <1>3, <3>1 DEF Top
    <3>4. Linked(n - 1)
        BY <1>a, <1>2, <3>1 DEF StackIsPath
    <3>5. BasesOf(n - 1)[loads[n - 1].next] = loads[n].config
        BY <1>0, <3>1, <3>4 DEF Linked
    <3>6. Bases' = BasesOf(n - 1)
        BY <1>1, <3>3 DEF Bases, BasesOf
    <3> QED BY <1>2, <3>2, <3>3, <3>5, <3>6 DEF Wanted
  <2> QED BY <2>1, <2>2
<1>13. LoadsAreFresh'
  <2>1. n - 1 \in Nat /\ n - 1 \in {n - 1, (n - 1) + 1} /\ n - 1 <= Len(loads) /\ n - 1 # (n - 1) + 1
      BY <1>0, <1>2
  <2>2. PICK k : k = n - 1
      OBVIOUS
  <2> QED BY <1>a, <1>1, <1>3, <2>1, <2>2, LoadsStep
<1>14. EntryIsFirst'
  <2>1. host.entry # Missing
      BY <1>1, <1>a DEF EntryIsFirst
  <2>2. ASSUME loads' # <<>> PROVE loads'[1].config = host.entry
    <3>1. n # 1
        BY <1>b, <2>2
    <3>2. 1 \in 1..(n - 1)
        BY <1>2, <3>1
    <3> QED BY <1>1, <1>3, <1>a, <3>2 DEF EntryIsFirst
  <2> QED BY <1>1, <2>1, <2>2 DEF EntryIsFirst
<1> QED BY <1>0, <1>2, <1>4, <1>5, <1>6, <1>8, <1>9, <1>10, <1>11, <1>12, <1>13, <1>14

LEMMA FreshFinish ==
    ASSUME IInv, IInv', FreshInv, Finish
    PROVE  FreshInv'
<1>0. PICK c, s : c = Top.config /\ s = Stack'
    OBVIOUS
<1>1. /\ Wanted' = c /\ Stack = Append(s, c) /\ c \in Config /\ s \in Seq(Config)
      /\ c \notin Range(s) /\ c \notin host.unreadable /\ c \notin Cached
      /\ Loaded.merged = Fresh(host)[Append(s, c)] /\ Loaded # NoConfig
      /\ LoadsAreFresh' /\ EntryIsFirst'
    BY <1>0, Finished
<1>2. /\ cache' = IF Loaded.complete THEN [cache EXCEPT ![c] = Loaded] ELSE cache
      /\ host' = host /\ control' = [op |-> "return", result |-> Loaded]
    BY <1>0 DEF Finish, Return
<1>3. ResultIsFresh'
  <2>1. Loads(host, s, c)
      BY <1>1 DEF Loads
  <2>2. control'.result = Loaded
      BY <1>2
  <2> QED BY <1>0, <1>1, <1>2, <2>1, <2>2 DEF ResultIsFresh, Answers
<1>a. CacheIsFresh /\ CacheIsRanked
    BY DEF FreshInv
<1>4. CASE ~Loaded.complete
  <2>1. Cached' = Cached /\ cache' = cache
      BY <1>2, <1>4 DEF Cached
  <2>2. CacheIsFresh' /\ CacheIsRanked'
      BY <1>2, <1>a, <2>1 DEF CacheIsFresh, CacheIsRanked
  <2> QED BY <1>1, <1>3, <2>2 DEF FreshInv
<1>5. CASE Loaded.complete
  <2>0. PICK C, D, h : C = Cached /\ D = Cached' /\ h = host
      OBVIOUS
  <2>1. cache' = [cache EXCEPT ![c] = Loaded] /\ DOMAIN cache = Config
      BY <1>2, <1>5 DEF IInv, TypeOK
  <2>2. D = C \cup {c}
      BY <1>1, <2>0, <2>1 DEF Cached
  <2>3. /\ C \in SUBSET Config /\ IsFiniteSet(C) /\ Cardinality(C) \in Nat /\ ClosedUnder(h, C)
        /\ c \notin C /\ h \in Host
      BY <1>1, <2>0, CacheShape DEF IInv, TypeOK
  <2>4. D \in SUBSET Config /\ Cardinality(D) = Cardinality(C) + 1
      BY <1>1, <2>2, <2>3, FS_AddElement
  <2>5. /\ ClosedUnder(h, D)
        /\ \A x \in D : x \notin Range(s)
    <3>1. \A x \in D : ~OnStack(x)' /\ x \notin h.unreadable
                      /\ \A b \in Range(h.bases[x]) : b \in D \cup h.unreadable \cup {Missing}
        BY <1>2, <2>0 DEF IInv, CacheIsDefinitive
    <3>2. \A x \in Range(s) : OnStack(x)'
        BY <1>0 DEF Stack, OnStack, Range
    <3>3. \A x \in D : x \notin Range(s)
        BY <3>1, <3>2
    <3>4. ClosedUnder(h, D)
        BY <3>1 DEF ClosedUnder
    <3> QED BY <3>3, <3>4
  <2>6. PICK r \in [Config -> Nat] : Ranks(h, C, r) /\ \A x \in C : r[x] < Cardinality(C)
      BY <1>a, <2>0 DEF CacheIsRanked
  <2>7. PICK q \in [Config -> Nat] : q = [r EXCEPT ![c] = Cardinality(C)]
      BY <2>3
  <2>8. q[c] = Cardinality(C) /\ \A x \in C : q[x] = r[x]
      BY <1>1, <2>3, <2>7
  <2>9. Ranks(h, D, q) /\ \A x \in D : q[x] < Cardinality(D)
    <3>1. ASSUME NEW x \in D PROVE q[x] < Cardinality(D)
      <4>1. CASE x = c
          BY <2>3, <2>4, <2>8, <4>1
      <4>2. CASE x \in C
        <5>1. r[x] \in Nat /\ r[x] < Cardinality(C)
            BY <2>3, <2>6, <4>2
        <5> QED BY <2>3, <2>4, <2>8, <4>2, <5>1
      <4> QED BY <2>2, <4>1, <4>2
    <3>2. ASSUME NEW x \in D, NEW b \in Range(h.bases[x]), b \in D
          PROVE  q[b] < q[x]
      <4>1. CASE x = c
        <5>1. b # c
          <6> SUFFICES ASSUME b = c PROVE FALSE
              OBVIOUS
          <6>1. Top.config = c /\ CacheIsDefinitive /\ Awaited /\ BasesSettled /\ loads # <<>>
              BY <1>0 DEF IInv, Finish, Running
          <6>2. Loaded.complete => Top.complete /\ c \notin incomplete
              BY <1>0, Zenon DEF Loaded
          <6>3. /\ Len(loads) \in DOMAIN loads /\ Top = loads[Len(loads)] /\ Bases = h.bases[c]
                /\ Bases \in Seq(Config \cup {Missing}) /\ Top.next > Len(Bases) /\ Top.next \in Nat
            <7>1. TypeOK
                BY DEF IInv
            <7>2. Bases \in Seq(Config \cup {Missing})
                BY <1>0, <1>1, <7>1, BasesType DEF Bases
            <7> QED BY <1>0, <2>0, <6>1, <7>1, <7>2, TopType, LoadType DEF Finish, Bases
          <6>4. PICK j \in DOMAIN Bases : Bases[j] = c
              BY <4>1, <6>3 DEF Range
          <6>5. j \in 1..(Top.next - 1)
              BY <6>3, <6>4
          <6>6. Settled(BasesOf(Len(loads))[j])
              BY <1>5, <6>1, <6>2, <6>3, <6>5 DEF BasesSettled
          <6>7. Settled(c)
              BY <6>1, <6>3, <6>4, <6>6 DEF BasesOf, Bases
          <6> QED BY <1>1, <6>7, ConfigAssumption DEF Settled
        <5>2. b \in C
            BY <2>2, <3>2, <5>1
        <5> QED BY <2>6, <2>8, <4>1, <5>2
      <4>2. CASE x \in C
        <5>1. b \in C
          <6>1. b \in C \cup h.unreadable \cup {Missing}
              BY <2>3, <4>2, <3>2 DEF ClosedUnder
          <6>2. b # c
              BY <1>1, <2>0, <2>3, <6>1, ConfigAssumption
          <6> QED BY <2>2, <3>2, <6>2
        <5> QED BY <2>6, <2>8, <3>2, <4>2, <5>1 DEF Ranks
      <4> QED BY <2>2, <4>1, <4>2
    <3> QED BY <3>1, <3>2 DEF Ranks
  <2>10. CacheIsRanked'
      BY <1>2, <2>0, <2>9 DEF CacheIsRanked
  <2>11. Fresh(h)[Append(s, c)] = Fresh(h)[<<c>>]
    <3>1. /\ h \in Host /\ D \in SUBSET Config /\ ClosedUnder(h, D)
          /\ c \in D /\ s \in Seq(Config) /\ \A x \in D : x \notin Range(s)
        BY <1>1, <2>2, <2>3, <2>4, <2>5
    <3>2. \E p \in [Config -> Nat] : Ranks(h, D, p)
        BY <2>7, <2>9
    <3> QED BY <3>1, <3>2, SameAlone
  <2>12. CacheIsFresh'
    <3> SUFFICES ASSUME NEW x \in D PROVE cache'[x].merged = Fresh(h)[<<x>>]
        BY <1>2, <2>0 DEF CacheIsFresh
    <3>1. CASE x = c
        BY <1>1, <2>0, <2>1, <2>11, <3>1
    <3>2. CASE x # c
      <4>1. x \in C /\ x \in Config
          BY <2>2, <2>3, <3>2
      <4>2. cache'[x] = cache[x]
          BY <2>1, <3>2, <4>1
      <4> QED BY <1>a, <2>0, <4>1, <4>2 DEF CacheIsFresh
    <3> QED BY <3>1, <3>2
  <2> QED BY <1>1, <1>3, <2>10, <2>12 DEF FreshInv
<1> QED BY <1>4, <1>5

\* The three ways to go on: past a base that is not there, that was not loaded, that was.
LEMMA HowItAdvances ==
    ASSUME IInv, FreshInv, ExtendMissing \/ MergeNothing \/ MergeBase
    PROVE  /\ host.entry # Missing
           /\ \E e \in Load : Advances(e) /\ e.merged = Overlay(Given(host, Stack, Top.next))
<1>a. TypeOK /\ EntryIsFirst /\ LoadsAreFresh /\ ResultIsFresh
    BY DEF IInv, FreshInv
<1>0. PICK n : n = Len(loads)
    OBVIOUS
<1>1. loads # <<>> /\ control.op \in {"run", "return"} /\ UNCHANGED <<host, cache>> /\ control'.op = "run"
    BY DEF ExtendMissing, MergeNothing, MergeBase, Running
<1>b. host.entry # Missing
    BY <1>1, <1>a DEF EntryIsFirst
<1>2. /\ n \in Nat \ {0} /\ n \in 1..n /\ DOMAIN loads = 1..n /\ Top = loads[n] /\ Top \in Load /\ Top.next \in Nat \ {0}
      /\ Stack = Upto(n) /\ Top.config \in Config /\ Top.merged \in Merged /\ Top.complete \in BOOLEAN
    BY <1>0, <1>a, <1>1, TopType, LoadType, WantedIs, Shape
<1>3. Top.merged = Overlay(Given(host, Stack, Top.next - 1))
    BY <1>a, <1>2 DEF LoadsAreFresh
<1>4. PICK k : k = Top.next - 1 /\ k \in Nat /\ k + 1 = Top.next
    BY <1>2
<1>5. Wanted = host.bases[Last(Stack)][k + 1] /\ Wanted = Bases[Top.next]
    BY <1>1, <1>4, WantedIs
<1>6. CASE ExtendMissing \/ MergeNothing
  <2> DEFINE e == [Top EXCEPT !.next = @ + 1]
  <2>1. loads' = [loads EXCEPT ![n].next = @ + 1] /\ control' = [op |-> "run"]
    <3>1. control = [op |-> "run"] \/ ~ExtendMissing
        BY <1>a DEF ExtendMissing, Running, TypeOK, Control
    <3> QED BY <1>0, <1>6, <3>1 DEF ExtendMissing, MergeNothing
  <2>2. e \in Load /\ e.config = Top.config /\ e.next = Top.next + 1 /\ e.merged = Top.merged
      BY <1>2 DEF Load
  <2>3. loads' = [loads EXCEPT ![n] = e]
      BY <1>2, <2>1
  <2>4. ~Loads(host, Stack, Wanted)
    <3>1. CASE ExtendMissing
        BY <1>5, <3>1, ConfigAssumption DEF ExtendMissing, Loads
    <3>2. CASE MergeNothing
        BY <1>a, <3>2 DEF MergeNothing, ResultIsFresh, Answers
    <3> QED BY <1>6, <3>1, <3>2
  <2>5. Overlay(Given(host, Stack, k + 1)) = Overlay(Given(host, Stack, k))
      BY <1>4, <1>5, <2>4, NothingMore
  <2>6. e.merged = Overlay(Given(host, Stack, Top.next))
      BY <1>3, <1>4, <2>2, <2>5
  <2> HIDE DEF e
  <2>7. Advances(e)
      BY <1>0, <1>1, <2>1, <2>2, <2>3 DEF Advances
  <2> QED BY <1>b, <2>2, <2>6, <2>7
<1>7. CASE MergeBase
  <2> DEFINE e == [config   |-> Top.config,
                   next     |-> Top.next + 1,
                   merged   |-> MergeFrom(Top.merged, control.result.merged),
                   complete |-> Top.complete /\ control.result.complete]
  <2>1. loads' = [loads EXCEPT ![n] = e] /\ control' = [op |-> "run"] /\ control.op = "return" /\ control.result # NoConfig
      BY <1>0, <1>7 DEF MergeBase
  <2>2. control.result \in LoadedConfig
      BY <1>a, <2>1 DEF TypeOK, Control
  <2>3. control.result.merged \in Merged /\ control.result.complete \in BOOLEAN
      BY <2>2 DEF LoadedConfig
  <2>4. MergeFrom(Top.merged, control.result.merged) \in Merged
      BY <1>2, <2>3, MergeFromType
  <2>5. (Top.complete /\ control.result.complete) \in BOOLEAN
      OBVIOUS
  <2>6. Top.next + 1 \in Nat \ {0}
      BY <1>2
  <2>7. e \in Load
      BY <1>2, <2>4, <2>5, <2>6, Zenon DEF Load
  <2>8. e.config = Top.config /\ e.next = Top.next + 1 /\ e.merged = MergeFrom(Top.merged, control.result.merged)
      BY Zenon
  <2>9. Loads(host, Stack, Wanted) /\ control.result.merged = Fresh(host)[Append(Stack, Wanted)]
      BY <1>a, <2>1 DEF ResultIsFresh, Answers
  <2>10. Gives(host, Stack, Wanted) = control.result.merged
      BY <2>9 DEF Gives
  <2>11. Overlay(Given(host, Stack, k + 1)) = MergeFrom(Overlay(Given(host, Stack, k)), Gives(host, Stack, Wanted))
      BY <1>4, <1>5, OneMoreGiven
  <2> HIDE DEF e
  <2>12. e.merged = Overlay(Given(host, Stack, Top.next))
      BY <1>3, <1>4, <2>8, <2>10, <2>11
  <2>13. Advances(e)
      BY <1>0, <1>1, <2>1, <2>7, <2>8 DEF Advances
  <2> QED BY <1>b, <2>7, <2>12, <2>13
<1> QED BY <1>6, <1>7

LEMMA FreshInit == Init => FreshInv
<1> SUFFICES ASSUME Init PROVE FreshInv
    OBVIOUS
<1>1. Cached = {} /\ loads = <<>> /\ control.op = "start"
    BY DEF Init, Cached
<1>2. EntryIsFirst /\ LoadsAreFresh /\ ResultIsFresh /\ CacheIsFresh
    BY <1>1 DEF EntryIsFirst, LoadsAreFresh, ResultIsFresh, CacheIsFresh
<1>3. CacheIsRanked
  <2>1. [c \in Config |-> 0] \in [Config -> Nat]
      OBVIOUS
  <2> QED BY <1>1, <2>1 DEF CacheIsRanked, Ranks
<1> QED BY <1>2, <1>3 DEF FreshInv

LEMMA FreshStep ==
    ASSUME IInv, IInv', FreshInv, Next
    PROVE  FreshInv'
<1>a. /\ TypeOK /\ StackIsPath /\ EntryIsFirst /\ ResultIsFresh /\ CacheIsFresh /\ CacheIsRanked
    BY DEF IInv, FreshInv
<1>b. control.op = "load" => /\ control.config = Wanted /\ control.config \in Config /\ host.entry # Missing
                             /\ (OnStack(control.config) <=> control.config \in Range(Stack))
    BY <1>a, WantedIs DEF EntryIsFirst, TypeOK, Control
<1>1. CASE EntryMissing
  <2>1. loads = <<>> /\ host.entry = Missing /\ Wanted = host.entry
      BY <1>1, <1>a, WantedIs DEF EntryMissing, StackIsPath
  <2>2. Answers(NoConfig, Stack, Wanted)
      BY <2>1, ConfigAssumption DEF Answers, Loads
  <2> QED BY <1>1, <2>2, FreshQuiet DEF EntryMissing
<1>2. CASE ResolveEntry
  <2>1. loads = <<>> /\ Wanted = host.entry
      BY <1>2, <1>a, WantedIs DEF ResolveEntry, StackIsPath
  <2> QED BY <1>2, <2>1, FreshQuiet DEF ResolveEntry
<1>3. CASE LoadCircular
  <2>1. Answers(NoConfig, Stack, Wanted)
      BY <1>b, <1>3 DEF LoadCircular, Answers, Loads
  <2> QED BY <1>b, <1>3, <2>1, FreshQuiet DEF LoadCircular, Return
<1>4. CASE LoadCached
  <2>1. control.config \in Cached /\ control.op = "load"
      BY <1>b, <1>4 DEF LoadCached, Cached
  <2>2. Answers(cache[control.config], Stack, Wanted)
      BY <1>a, <1>b, <2>1, CachedBelow DEF Answers, Cached
  <2> QED BY <1>b, <1>4, <2>1, <2>2, FreshQuiet DEF LoadCached, Return
<1>5. CASE LoadUnreadable
  <2>1. Answers(NoConfig, Stack, Wanted)
      BY <1>b, <1>5 DEF LoadUnreadable, Answers, Loads
  <2> QED BY <1>b, <1>5, <2>1, FreshQuiet DEF LoadUnreadable, Return
<1>6. CASE LoadEnter
    BY <1>6, FreshEnter
<1>7. CASE ExtendMissing \/ MergeNothing \/ MergeBase
    BY <1>7, HowItAdvances, FreshMerge
<1>8. CASE Extend
  <2>1. loads # <<>> /\ control'.config = Wanted /\ control.op = "run"
      BY <1>8, WantedIs DEF Extend, Running
  <2> QED BY <1>8, <1>a, <2>1, FreshQuiet DEF Extend, EntryIsFirst
<1>9. CASE Finish
    BY <1>9, FreshFinish
<1>10. CASE EntryLoaded
    BY <1>10, <1>a, FreshQuiet DEF EntryLoaded, ResultIsFresh
<1> QED BY <1>1, <1>2, <1>3, <1>4, <1>5, <1>6, <1>7, <1>8, <1>9, <1>10 DEF Next
-----------------------------------------------------------------------------
(***************************************************************************)
(* What is reported.                                                           *)
(***************************************************************************)
Prefix(s, t) == Len(s) <= Len(t) /\ \A k \in 1..Len(s) : t[k] = s[k]

\* D has what a loader with no cache reports of the bases of the last of s.
SaysAll(D, h, s) == \A b \in Range(h.bases[Last(s)]) : Diagnosis(h, s, b) \subseteq D

\* D has what it reports of the base b below s, and of all that is loaded for b.
SaysOf(D, h, s, b) ==
    /\ Diagnosis(h, s, b) \subseteq D
    /\ Loads(h, s, b) => \A t \in AllChains(h) : Prefix(Append(s, b), t) => SaysAll(D, h, t)

LoadsAreTold ==
    \A i \in DOMAIN loads : \A j \in 1..(loads[i].next - 1) :
        SaysOf(diagnostics, host, Upto(i), BasesOf(i)[j])
ResultIsTold ==
    /\ control.op = "return" => SaysOf(diagnostics, host, Stack, Wanted)
    /\ control.op = "done" => IF host.entry = Missing THEN EntryDiagnosis(host) \subseteq diagnostics
                             ELSE SaysOf(diagnostics, host, <<>>, host.entry)
CacheIsTold == \A c \in Cached : SaysAll(diagnostics, host, <<c>>)
NothingElse == diagnostics \subseteq FreshDiagnostics(host)

ToldInv == LoadsAreTold /\ ResultIsTold /\ CacheIsTold /\ NothingElse

LEMMA ChainIs ==
    ASSUME NEW h, NEW t \in AllChains(h)
    PROVE  /\ t \in Seq(Config) /\ Len(t) \in Nat \ {0} /\ DOMAIN t = 1..Len(t)
           /\ IsInjective(t) /\ IsChain(h, t)
<1>1. PICK n \in 1..Cardinality(Config) : t \in [1..n -> Config]
    BY DEF AllChains
<1>2. n \in Nat \ {0}
    BY FiniteAssumption, FS_CardinalityType
<1>3. t \in Seq(Config) /\ Len(t) = n /\ DOMAIN t = 1..n
    BY <1>1, <1>2
<1> QED BY <1>2, <1>3 DEF AllChains

LEMMA StackIsChain ==
    ASSUME IInv, EntryIsFirst, loads # <<>>
    PROVE  Stack \in AllChains(host)
<1>0. PICK n : n = Len(loads)
    OBVIOUS
<1>a. TypeOK /\ StackIsPath
    BY DEF IInv
<1>1. /\ n \in Nat \ {0} /\ n \in 1..n /\ DOMAIN loads = 1..n
      /\ Stack = Upto(n) /\ Stack \in Seq(Config) /\ Len(Stack) = n /\ DOMAIN Stack = 1..n
  <2>1. /\ n \in Nat \ {0} /\ n \in 1..n /\ Stack \in Seq(Config)
      BY <1>0, WantedIs
  <2>2. n \in 0..n
      BY <2>1
  <2> QED BY <1>0, <1>a, <2>1, <2>2, Shape
<1>2. \A i \in 1..n : Stack[i] = loads[i].config
    BY <1>1 DEF Stack
<1>3. IsInjective(Stack)
    BY <1>a, <1>1, <1>2 DEF IsInjective, StackIsPath
<1>4. Stack \in [1..n -> Config]
    BY <1>1
<1>5. n \in 1..Cardinality(Config)
  <2>1. Stack \in Injection(1..n, Config)
      BY <1>3, <1>4 DEF Injection
  <2>2. Cardinality(1..n) <= Cardinality(Config)
      BY <2>1, FiniteAssumption, FS_Injection
  <2>3. Cardinality(1..n) = n
      BY <1>1, FS_Interval
  <2>4. Cardinality(Config) \in Nat
      BY FiniteAssumption, FS_CardinalityType
  <2> QED BY <1>1, <2>2, <2>3, <2>4
<1>6. IsChain(host, Stack)
  <2>1. Stack[1] = host.entry
    <3>1. 1 \in 1..n
        BY <1>1
    <3> QED BY <1>2, <3>1 DEF EntryIsFirst
  <2>2. \A i \in DOMAIN Stack : Stack[i] \notin host.unreadable
      BY <1>a, <1>1, <1>2 DEF StackIsPath, Linked
  <2>3. ASSUME NEW i \in 2..Len(Stack)
        PROVE  Stack[i] \in Range(host.bases[Stack[i - 1]])
    <3>1. i \in 1..n /\ i - 1 \in 1..n /\ i - 1 < n /\ (i - 1) + 1 = i
        BY <1>1
    <3>2. Linked(i - 1) /\ loads[i - 1].next \in Nat \ {0} /\ loads[i - 1].config \in Config
        BY <1>0, <1>a, <1>1, <3>1, LoadType DEF StackIsPath
    <3>3. loads[i - 1].next <= Len(BasesOf(i - 1)) /\ BasesOf(i - 1)[loads[i - 1].next] = loads[i].config
        BY <1>0, <3>1, <3>2 DEF Linked
    <3>4. BasesOf(i - 1) \in Seq(Config \cup {Missing})
        BY <1>a, <3>2, BasesType DEF BasesOf
    <3>5. loads[i - 1].next \in DOMAIN BasesOf(i - 1)
        BY <3>2, <3>3, <3>4
    <3>6. BasesOf(i - 1) = host.bases[Stack[i - 1]] /\ loads[i].config = Stack[i]
        BY <1>2, <3>1 DEF BasesOf
    <3> QED BY <3>3, <3>5, <3>6 DEF Range
  <2>4. Len(Stack) > 0
      BY <1>1
  <2> QED BY <2>1, <2>2, <2>3, <2>4 DEF IsChain
<1>7. Stack \in UNION {[1..k -> Config] : k \in 1..Cardinality(Config)}
    BY <1>4, <1>5
<1> QED BY <1>3, <1>6, <1>7 DEF AllChains

\* Where all bases are told of, so is all that is loaded from there on.
LEMMA SaysBelow ==
    ASSUME NEW D, NEW h, NEW s \in Seq(Config), s # <<>>,
           \A b \in Range(h.bases[Last(s)]) : SaysOf(D, h, s, b),
           NEW t \in AllChains(h), Prefix(s, t)
    PROVE  SaysAll(D, h, t)
<1>0. PICK n, m : n = Len(s) /\ m = Len(t)
    OBVIOUS
<1>1. /\ t \in Seq(Config) /\ m \in Nat \ {0} /\ DOMAIN t = 1..m /\ IsInjective(t) /\ IsChain(h, t)
      /\ n \in Nat \ {0} /\ DOMAIN s = 1..n
    BY <1>0, ChainIs
<1>2. n <= m /\ \A k \in 1..n : t[k] = s[k]
    BY <1>0 DEF Prefix
<1>3. CASE n = m
  <2>1. t = s
    <3>1. t = [k \in 1..m |-> t[k]] /\ s = [k \in 1..m |-> s[k]]
        BY <1>1, <1>3
    <3> QED BY <1>2, <1>3, <3>1
  <2> QED BY <2>1 DEF SaysAll, SaysOf
<1>4. CASE n # m
  <2>1. n + 1 \in 2..m /\ n + 1 \in 1..m /\ (n + 1) - 1 = n /\ n \in 1..n
      BY <1>1, <1>2, <1>4
  <2>2. PICK b : b = t[n + 1]
      OBVIOUS
  <2>3. b \in Range(h.bases[t[n]]) /\ b \notin h.unreadable /\ b \in Config
      BY <1>0, <1>1, <2>1, <2>2 DEF IsChain
  <2>4. t[n] = Last(s)
      BY <1>0, <1>2, <2>1 DEF Last
  <2>5. b \notin Range(s)
    <3> SUFFICES ASSUME NEW k \in 1..n, s[k] = b PROVE FALSE
        BY <1>1 DEF Range
    <3>1. t[k] = t[n + 1] /\ k \in 1..m /\ k # n + 1
        BY <1>1, <1>2, <2>2
    <3> QED BY <1>1, <2>1, <3>1 DEF IsInjective
  <2>6. Loads(h, s, b)
      BY <2>3, <2>5 DEF Loads
  <2>7. Prefix(Append(s, b), t)
    <3>1. /\ Len(Append(s, b)) = n + 1 /\ Append(s, b)[n + 1] = b
          /\ \A k \in 1..n : Append(s, b)[k] = s[k]
        BY <1>0, <2>3, Pushed
    <3>2. \A k \in 1..(n + 1) : k \in 1..n \/ k = n + 1
        BY <1>1, UpToNext
    <3>3. n + 1 <= m
        BY <2>1
    <3> QED BY <1>0, <1>2, <2>2, <3>1, <3>2, <3>3 DEF Prefix
  <2>8. SaysOf(D, h, s, b)
      BY <2>3, <2>4
  <2> QED BY <2>6, <2>7, <2>8 DEF SaysOf
<1> QED BY <1>3, <1>4

LEMMA MissingIsSaid ==
    ASSUME NEW h \in Host, NEW s, Missing \notin Range(s)
    PROVE  Diagnosis(h, s, Missing) = {[code |-> 6053, chain |-> <<Last(s)>>]}
<1>1. Missing \notin h.unreadable
    BY ConfigAssumption DEF Host
<1> QED BY <1>1 DEF Diagnosis

\* From something remembered everything is remembered: nothing there is on a cycle,
\* and what else is to be told does not depend on where it is met.
LEMMA SaysRemembered ==
    ASSUME NEW D, NEW h \in Host, NEW C \in SUBSET Config, ClosedUnder(h, C),
           NEW r \in [Config -> Nat], Ranks(h, C, r),
           \A e \in C : SaysAll(D, h, <<e>>),
           NEW s \in Seq(Config), \A x \in C : x \notin Range(s), \A x \in Range(s) : x \notin h.unreadable,
           NEW c \in C
    PROVE  SaysOf(D, h, s, c)
<1>1. c \in Config /\ c # Missing /\ c \notin Range(s) /\ c \notin h.unreadable
    BY ConfigAssumption DEF ClosedUnder
<1>2. Diagnosis(h, s, c) = {}
    BY <1>1 DEF Diagnosis
<1>3. ASSUME NEW t \in AllChains(h), Prefix(Append(s, c), t)
      PROVE  SaysAll(D, h, t)
  <2>0. PICK n, m : n = Len(s) + 1 /\ m = Len(t)
      OBVIOUS
  <2>1. /\ t \in Seq(Config) /\ m \in Nat \ {0} /\ DOMAIN t = 1..m /\ IsInjective(t) /\ IsChain(h, t)
      BY <2>0, ChainIs
  <2>2. n \in Nat \ {0} /\ n <= m /\ t[n] = c /\ \A k \in 1..(n - 1) : t[k] = s[k] /\ k \in DOMAIN s
    <3>1. /\ Len(s) \in Nat /\ Len(Append(s, c)) = Len(s) + 1 /\ Append(s, c)[Len(s) + 1] = c /\ DOMAIN s = 1..Len(s)
          /\ \A k \in 1..Len(s) : Append(s, c)[k] = s[k]
        BY <1>1, Pushed
    <3>2. n \in Nat \ {0} /\ n - 1 = Len(s) /\ n \in 1..n /\ 1..(n - 1) \subseteq 1..n
        BY <2>0, <3>1
    <3>3. n <= m /\ \A k \in 1..n : t[k] = Append(s, c)[k]
        BY <1>3, <2>0, <3>1 DEF Prefix
    <3>4. t[n] = c
        BY <2>0, <3>1, <3>2, <3>3
    <3>5. \A k \in 1..(n - 1) : t[k] = s[k] /\ k \in DOMAIN s
        BY <3>1, <3>2, <3>3
    <3> QED BY <3>2, <3>3, <3>4, <3>5
  <2> DEFINE Good(k) == n + k <= m => t[n + k] \in C /\ \A l \in n..(n + k) : r[t[n + k]] <= r[t[l]]
             ns == {k \in Nat : Good(k)}
  <2>3. \A k \in Nat : (\A l \in Nat : l < k => l \in ns) => k \in ns
    <3> SUFFICES ASSUME NEW k \in Nat, \A l \in Nat : l < k => l \in ns, n + k <= m
                 PROVE  t[n + k] \in C /\ \A l \in n..(n + k) : r[t[n + k]] <= r[t[l]]
        OBVIOUS
    <3>1. CASE k = 0
      <4>1. n + k = n /\ \A l \in n..(n + k) : l = n
          BY <2>2, <3>1
      <4>2. t[n] \in C /\ r[t[n]] \in Nat
          BY <2>2
      <4> QED BY <4>1, <4>2
    <3>2. CASE k # 0
      <4>1. k - 1 \in Nat /\ k - 1 < k /\ n + (k - 1) = (n + k) - 1 /\ n + (k - 1) <= m /\ n + k \in 2..m
          BY <2>1, <2>2, <3>2
      <4>2. Good(k - 1)
          BY <4>1
      <4>3. PICK i, e, b : i = n + (k - 1) /\ e = t[i] /\ b = t[n + k]
          OBVIOUS
      <4>4. e \in C /\ \A l \in n..i : r[e] <= r[t[l]]
          BY <4>1, <4>2, <4>3
      <4>5. b \in Range(h.bases[e]) /\ b \in Config /\ b \notin h.unreadable
        <5>1. n + k \in 1..m /\ i = (n + k) - 1
            BY <4>1, <4>3
        <5> QED BY <2>0, <2>1, <4>1, <4>3, <5>1 DEF IsChain
      <4>6. b \in C
          BY <4>4, <4>5, ConfigAssumption DEF ClosedUnder
      <4>7. r[b] < r[e] /\ r[b] \in Nat /\ r[e] \in Nat
          BY <4>4, <4>5, <4>6 DEF Ranks
      <4>8. ASSUME NEW l \in n..(n + k) PROVE r[b] <= r[t[l]]
        <5>1. CASE l = n + k
            BY <4>3, <4>7, <5>1
        <5>2. CASE l # n + k
          <6>1. l \in n..i /\ l \in 1..m
              BY <2>1, <2>2, <4>1, <4>3, <5>2
          <6>2. t[l] \in Config
              BY <2>1, <6>1
          <6>3. r[e] <= r[t[l]] /\ r[t[l]] \in Nat
              BY <4>4, <6>1, <6>2
          <6> QED BY <4>7, <6>3
        <5> QED BY <5>1, <5>2
      <4> QED BY <4>3, <4>6, <4>8
    <3> QED BY <3>1, <3>2
  <2>4. Nat \subseteq ns
    <3> HIDE DEF ns
    <3> QED BY <2>3, Complete
  <2>5. m - n \in Nat /\ n + (m - n) = m
      BY <2>1, <2>2
  <2>6. PICK g \in ns : n + g = m
      BY <2>4, <2>5
  <2>7. t[m] \in C /\ \A l \in n..m : r[t[m]] <= r[t[l]]
    <3>1. n + g <= m
        BY <2>1, <2>6
    <3>2. t[n + g] \in C /\ \A l \in n..(n + g) : r[t[n + g]] <= r[t[l]]
        BY <3>1
    <3> QED BY <2>6, <3>2
  <2> SUFFICES ASSUME NEW b \in Range(h.bases[Last(t)]) PROVE Diagnosis(h, t, b) \subseteq D
      BY DEF SaysAll
  <2>8. PICK e : e = t[m] /\ e = Last(t)
      BY <2>0 DEF Last
  <2>9. e \in C /\ b \in Range(h.bases[e]) /\ b \in C \cup h.unreadable \cup {Missing}
      BY <2>7, <2>8 DEF ClosedUnder
  <2>10. Diagnosis(h, <<e>>, b) \subseteq D
    <3>1. Last(<<e>>) = e
        BY DEF Last
    <3> QED BY <2>9, <3>1 DEF SaysAll
  <2>11. h.unreadable \subseteq Config
      BY DEF Host
  <2>12. CASE b = Missing
    <3>1. Last(<<e>>) = e
        BY DEF Last
    <3>2. Diagnosis(h, t, b) = {[code |-> 6053, chain |-> <<e>>]} /\ Diagnosis(h, <<e>>, b) = {[code |-> 6053, chain |-> <<e>>]}
      <4>1. Missing \notin Range(t) /\ Missing \notin Range(<<e>>)
          BY <2>1, <2>9, ConfigAssumption DEF Range
      <4> QED BY <2>8, <2>12, <3>1, <4>1, MissingIsSaid
    <3> QED BY <2>10, <3>2
  <2>13. CASE b \in h.unreadable
    <3>1. b # Missing
        BY <2>11, <2>13, ConfigAssumption
    <3>2. b \notin Range(t)
        BY <2>1, <2>13 DEF Range, IsChain
    <3>3. b # e
        BY <2>9, <2>13 DEF ClosedUnder
    <3>4. Range(<<e>>) = {e}
        BY DEF Range
    <3>5. Diagnosis(h, t, b) = {[code |-> 5083, chain |-> <<b>>]} /\ Diagnosis(h, <<e>>, b) = {[code |-> 5083, chain |-> <<b>>]}
        BY <2>13, <3>1, <3>2, <3>3, <3>4 DEF Diagnosis
    <3> QED BY <2>10, <3>5
  <2>14. CASE b \in C
    <3>1. r[b] < r[e] /\ r[b] \in Nat /\ r[e] \in Nat
        BY <2>9, <2>14 DEF Ranks
    <3>2. b \notin Range(t)
      <4> SUFFICES ASSUME NEW k \in 1..m, t[k] = b PROVE FALSE
          BY <2>1 DEF Range
      <4>1. CASE k \in n..m
        <5>1. r[e] <= r[b]
            BY <2>7, <2>8, <4>1
        <5> QED BY <3>1, <5>1
      <4>2. CASE k \notin n..m
        <5>1. k \in 1..(n - 1)
            BY <2>1, <2>2, <4>2
        <5>2. b \in Range(s)
            BY <2>2, <5>1 DEF Range
        <5> QED BY <2>14, <5>2
      <4> QED BY <4>1, <4>2
    <3>3. b # Missing /\ b \notin h.unreadable
        BY <2>14, ConfigAssumption DEF ClosedUnder
    <3>4. Diagnosis(h, t, b) = {}
        BY <3>2, <3>3 DEF Diagnosis
    <3> QED BY <3>4
  <2> QED BY <2>9, <2>12, <2>13, <2>14
<1> QED BY <1>2, <1>3 DEF SaysOf

\* Nothing that is said is taken back.
LEMMA SaidForGood ==
    ASSUME NEW D, NEW E, D \subseteq E, NEW h, NEW s
    PROVE  /\ SaysAll(D, h, s) => SaysAll(E, h, s)
           /\ \A b : SaysOf(D, h, s, b) => SaysOf(E, h, s, b)
<1>1. \A t : SaysAll(D, h, t) => SaysAll(E, h, t)
    BY DEF SaysAll
<1> QED BY <1>1 DEF SaysOf

\* What is said of the base that is looked at is said by the loader with no cache.
LEMMA SaidByBoth ==
    ASSUME IInv, EntryIsFirst, loads # <<>>, Top.next <= Len(Bases)
    PROVE  Diagnosis(host, Stack, Wanted) \subseteq FreshDiagnostics(host)
<1>1. Stack \in AllChains(host)
    BY StackIsChain
<1>2. Wanted \in Range(host.bases[Last(Stack)])
  <2>1. /\ Wanted = Bases[Top.next] /\ Bases = host.bases[Last(Stack)] /\ Last(Stack) = Top.config
        /\ Top.config \in Config /\ Top.next \in Nat \ {0}
      BY WantedIs, TopType DEF IInv
  <2>2. Bases \in Seq(Config \cup {Missing})
      BY <2>1, BasesType DEF IInv
  <2>3. Top.next \in DOMAIN Bases
      BY <2>1, <2>2
  <2> QED BY <2>1, <2>3 DEF Range
<1> QED BY <1>1, <1>2 DEF FreshDiagnostics

\* The steps that change neither the stack nor the cache.
LEMMA ToldQuiet ==
    ASSUME IInv, ToldInv, UNCHANGED <<host, loads, cache>>,
           diagnostics \subseteq diagnostics', diagnostics' \subseteq FreshDiagnostics(host),
           control'.op = "return" => SaysOf(diagnostics', host, Stack, Wanted),
           control'.op = "done" => IF host.entry = Missing THEN EntryDiagnosis(host) \subseteq diagnostics'
                                   ELSE SaysOf(diagnostics', host, <<>>, host.entry)
    PROVE  ToldInv'
<1>0. PICK D, E : D = diagnostics /\ E = diagnostics' /\ D \subseteq E
    OBVIOUS
<1>1. /\ Stack' = Stack /\ Wanted' = Wanted /\ Cached' = Cached
      /\ \A i : Upto(i)' = Upto(i) /\ BasesOf(i)' = BasesOf(i)
    BY DEF Stack, Wanted, Bases, Top, Cached, Upto, BasesOf
<1>2. LoadsAreTold'
  <2> SUFFICES ASSUME NEW i \in DOMAIN loads, NEW j \in 1..(loads[i].next - 1)
               PROVE  SaysOf(E, host, Upto(i), BasesOf(i)[j])
      BY <1>0, <1>1 DEF LoadsAreTold
  <2>1. SaysOf(D, host, Upto(i), BasesOf(i)[j])
      BY <1>0 DEF ToldInv, LoadsAreTold
  <2> QED BY <1>0, <2>1, SaidForGood
<1>3. ResultIsTold'
    BY <1>1 DEF ResultIsTold
<1>4. CacheIsTold'
  <2> SUFFICES ASSUME NEW c \in Cached PROVE SaysAll(E, host, <<c>>)
      BY <1>0, <1>1 DEF CacheIsTold
  <2>1. SaysAll(D, host, <<c>>)
      BY <1>0 DEF ToldInv, CacheIsTold
  <2> QED BY <1>0, <2>1, SaidForGood
<1>5. NothingElse'
    BY DEF NothingElse
<1> QED BY <1>2, <1>3, <1>4, <1>5 DEF ToldInv

\* The stack changes at its end only.
LEMMA ToldLoads ==
    ASSUME TypeOK, LoadsAreTold, host' = host, diagnostics \subseteq diagnostics',
           NEW k \in Nat, NEW m \in {k, k + 1}, k <= Len(loads),
           DOMAIN loads' = 1..m, \A i \in 1..k : loads'[i] = loads[i],
           m = k + 1 => \A j \in 1..(loads'[m].next - 1) :
                            SaysOf(diagnostics', host, Upto(m)', host.bases[loads'[m].config][j])
    PROVE  LoadsAreTold'
<1>0. PICK D, E : D = diagnostics /\ E = diagnostics' /\ D \subseteq E
    OBVIOUS
<1>1. DOMAIN loads = 1..Len(loads) /\ Len(loads) \in Nat
    BY Shape
<1> SUFFICES ASSUME NEW i \in 1..m, NEW j \in 1..(loads'[i].next - 1)
             PROVE  SaysOf(E, host, Upto(i)', host.bases[loads'[i].config][j])
    BY <1>0 DEF LoadsAreTold, BasesOf
<1>2. CASE i \in 1..k
  <2>1. i \in DOMAIN loads /\ loads'[i] = loads[i]
      BY <1>1, <1>2
  <2>2. \A l \in 1..i : loads'[l] = loads[l]
      BY <1>2
  <2>3. Upto(i)' = Upto(i)
      BY <2>2 DEF Upto
  <2>4. SaysOf(D, host, Upto(i), host.bases[loads[i].config][j])
      BY <1>0, <2>1 DEF LoadsAreTold, BasesOf
  <2>5. SaysOf(E, host, Upto(i), host.bases[loads[i].config][j])
      BY <1>0, <2>4, SaidForGood
  <2> QED BY <2>1, <2>3, <2>5
<1>3. CASE i \notin 1..k
  <2>1. m = k + 1 /\ i = m
      BY <1>3
  <2> QED BY <1>0, <2>1
<1> QED BY <1>2, <1>3

LEMMA ToldAdvance ==
    ASSUME IInv, ToldInv, NEW e \in Load, Advances(e),
           diagnostics \subseteq diagnostics', diagnostics' \subseteq FreshDiagnostics(host),
           SaysOf(diagnostics', host, Stack, Wanted)
    PROVE  ToldInv'
<1>0. PICK n, D, E : n = Len(loads) /\ D = diagnostics /\ E = diagnostics' /\ D \subseteq E
    OBVIOUS
<1>a. TypeOK /\ loads \in Seq(Load) /\ LoadsAreTold
    BY DEF IInv, TypeOK, ToldInv
<1>1. /\ UNCHANGED <<host, cache>> /\ control' = [op |-> "run"] /\ loads # <<>>
      /\ e.config = Top.config /\ e.next = Top.next + 1
      /\ loads' = [loads EXCEPT ![n] = e]
    BY <1>0 DEF Advances
<1>2. /\ n \in Nat \ {0} /\ n \in 1..n /\ DOMAIN loads = 1..n /\ Top = loads[n] /\ Top.next \in Nat \ {0}
      /\ Stack = Upto(n) /\ Wanted = host.bases[Top.config][Top.next]
    BY <1>0, <1>a, <1>1, TopType, LoadType, WantedIs, Shape
<1>3. /\ DOMAIN loads' = 1..n /\ loads'[n] = e
      /\ \A i \in 1..(n - 1) : loads'[i] = loads[i]
    BY <1>0, <1>a, <1>1, Changed
<1>4. \A i \in 1..n : loads'[i].config = loads[i].config
    BY <1>1, <1>2, <1>3
<1>5. Upto(n)' = Stack
  <2>1. Upto(n) = [k \in 1..n |-> loads[k].config] /\ Upto(n)' = [k \in 1..n |-> loads'[k].config]
      BY DEF Upto
  <2> QED BY <1>2, <1>4, <2>1
<1>6. \A j \in 1..(loads'[n].next - 1) : SaysOf(diagnostics', host, Upto(n)', host.bases[loads'[n].config][j])
  <2> SUFFICES ASSUME NEW j \in 1..(e.next - 1) PROVE SaysOf(E, host, Stack, host.bases[Top.config][j])
      BY <1>0, <1>1, <1>3, <1>5
  <2>1. j = Top.next \/ j \in 1..(Top.next - 1)
      BY <1>1, <1>2
  <2>2. CASE j = Top.next
      BY <1>0, <1>2, <2>2
  <2>3. CASE j \in 1..(Top.next - 1)
    <3>1. SaysOf(D, host, Stack, host.bases[Top.config][j])
        BY <1>0, <1>a, <1>2, <2>3 DEF LoadsAreTold, BasesOf
    <3> QED BY <1>0, <3>1, SaidForGood
  <2> QED BY <2>1, <2>2, <2>3
<1>7. LoadsAreTold'
  <2>1. n - 1 \in Nat /\ n \in {n - 1, (n - 1) + 1} /\ n - 1 <= Len(loads)
      BY <1>0, <1>2
  <2> QED BY <1>a, <1>1, <1>3, <1>6, <2>1, ToldLoads
<1>8. Cached' = Cached
    BY <1>1 DEF Cached
<1>9. ResultIsTold'
    BY <1>1 DEF ResultIsTold
<1>10. CacheIsTold'
  <2> SUFFICES ASSUME NEW c \in Cached PROVE SaysAll(E, host, <<c>>)
      BY <1>0, <1>1, <1>8 DEF CacheIsTold
  <2>1. SaysAll(D, host, <<c>>)
      BY <1>0 DEF ToldInv, CacheIsTold
  <2> QED BY <1>0, <2>1, SaidForGood
<1>11. NothingElse'
    BY <1>1 DEF NothingElse
<1> QED BY <1>7, <1>9, <1>10, <1>11 DEF ToldInv

LEMMA ToldEnter ==
    ASSUME IInv, ToldInv, LoadEnter
    PROVE  ToldInv'
<1>0. PICK n : n = Len(loads)
    OBVIOUS
<1> DEFINE c == control.config
           e == [config |-> c, next |-> 1, merged |-> Empty, complete |-> TRUE]
<1>a. TypeOK /\ loads \in Seq(Load) /\ LoadsAreTold
    BY DEF IInv, TypeOK, ToldInv
<1>1. /\ UNCHANGED <<host, cache, diagnostics>> /\ control' = [op |-> "run"] /\ control.op = "load"
      /\ loads' = Append(loads, e) /\ c \in Config
    BY <1>a DEF LoadEnter, TypeOK, Control
<1>2. e \in Load
    BY <1>1, EmptyType DEF Load
<1>3. /\ n \in Nat /\ DOMAIN loads' = 1..(n + 1) /\ loads'[n + 1] = e
      /\ \A i \in 1..n : loads'[i] = loads[i]
    BY <1>0, <1>a, <1>1, <1>2, Pushed
<1>4. \A j \in 1..(loads'[n + 1].next - 1) :
        SaysOf(diagnostics', host, Upto(n + 1)', host.bases[loads'[n + 1].config][j])
  <2>1. loads'[n + 1].next - 1 = 0
      BY <1>3
  <2> QED BY <2>1
<1>5. LoadsAreTold'
  <2>1. diagnostics \subseteq diagnostics'
      BY <1>1
  <2> HIDE DEF e
  <2> QED BY <1>0, <1>a, <1>1, <1>3, <1>4, <2>1, ToldLoads
<1>6. Cached' = Cached
    BY <1>1 DEF Cached
<1>7. ResultIsTold'
    BY <1>1 DEF ResultIsTold
<1>8. CacheIsTold' /\ NothingElse'
    BY <1>1, <1>6 DEF ToldInv, CacheIsTold, NothingElse
<1> QED BY <1>5, <1>7, <1>8 DEF ToldInv

\* All bases of a call that is over were told of, and so are they of its configuration
\* alone once that is remembered.
LEMMA ToldFinish ==
    ASSUME IInv, IInv', FreshInv, FreshInv', ToldInv, Finish
    PROVE  ToldInv'
<1>0. PICK n, D, c, s, u, h : n = Len(loads) /\ D = diagnostics /\ c = Top.config /\ s = Stack' /\ u = Stack /\ h = host
    OBVIOUS
<1>a. TypeOK /\ loads \in Seq(Load) /\ LoadsAreTold /\ StackIsPath
    BY DEF IInv, TypeOK, ToldInv
<1>1. /\ UNCHANGED <<host, diagnostics>> /\ loads # <<>> /\ loads' = SubSeq(loads, 1, n - 1)
      /\ control' = [op |-> "return", result |-> Loaded] /\ Top.next > Len(Bases)
      /\ cache' = IF Loaded.complete THEN [cache EXCEPT ![c] = Loaded] ELSE cache
    BY <1>0 DEF Finish, Running, Pop, Return
<1>2. /\ Wanted' = c /\ u = Append(s, c) /\ c \in Config /\ s \in Seq(Config)
      /\ c \notin Range(s) /\ c \notin h.unreadable /\ c \notin Cached /\ Loaded # NoConfig
    BY <1>0, Finished
<1>3. /\ n \in Nat \ {0} /\ n \in 1..n /\ DOMAIN loads = 1..n /\ Top = loads[n] /\ Top.next \in Nat \ {0}
      /\ u = Upto(n) /\ Bases = h.bases[c] /\ Last(u) = c /\ u \in Seq(Config) /\ u # <<>>
  <2>1. Upto(n) # <<>>
      BY <1>0, <1>a, <1>1, Shape, WantedIs
  <2> QED BY <1>0, <1>a, <1>1, <2>1, TopType, LoadType, WantedIs, Shape
<1>4. /\ DOMAIN loads' = 1..(n - 1) /\ \A i \in 1..(n - 1) : loads'[i] = loads[i]
    BY <1>0, <1>a, <1>1, Popped
<1>5. LoadsAreTold'
  <2>1. n - 1 \in Nat /\ n - 1 \in {n - 1, (n - 1) + 1} /\ n - 1 <= Len(loads) /\ n - 1 # (n - 1) + 1
      BY <1>0, <1>3
  <2>2. diagnostics \subseteq diagnostics' /\ host' = host
      BY <1>1
  <2>3. PICK k : k = n - 1
      OBVIOUS
  <2> QED BY <1>a, <1>4, <2>1, <2>2, <2>3, ToldLoads
<1>6. \A b \in Range(h.bases[c]) : SaysOf(D, h, u, b)
  <2> SUFFICES ASSUME NEW b \in Range(h.bases[c]) PROVE SaysOf(D, h, u, b)
      OBVIOUS
  <2>1. Bases \in Seq(Config \cup {Missing})
      BY <1>0, <1>2, <1>3, <1>a, BasesType
  <2>2. PICK j \in DOMAIN Bases : Bases[j] = b
      BY <1>3 DEF Range
  <2>3. j \in 1..(Top.next - 1)
      BY <1>1, <1>3, <2>1, <2>2
  <2>4. SaysOf(diagnostics, host, Upto(n), BasesOf(n)[j])
      BY <1>3, <1>a, <2>3 DEF LoadsAreTold
  <2>5. BasesOf(n)[j] = b
      BY <1>0, <1>3, <2>2 DEF BasesOf
  <2> QED BY <1>0, <1>3, <2>4, <2>5
<1>7. SaysOf(D, h, s, c)
  <2>1. Diagnosis(h, s, c) = {}
      BY <1>2, ConfigAssumption DEF Diagnosis
  <2>2. ASSUME NEW t \in AllChains(h), Prefix(Append(s, c), t) PROVE SaysAll(D, h, t)
    <3>1. Prefix(u, t)
        BY <1>2, <2>2
    <3>2. \A b \in Range(h.bases[Last(u)]) : SaysOf(D, h, u, b)
        BY <1>3, <1>6
    <3> QED BY <1>3, <3>1, <3>2, SaysBelow
  <2> QED BY <2>1, <2>2 DEF SaysOf
<1>8. ResultIsTold'
    BY <1>0, <1>1, <1>2, <1>7 DEF ResultIsTold
<1>9. Loaded.complete => SaysAll(D, h, <<c>>)
  <2> SUFFICES ASSUME Loaded.complete, NEW b \in Range(h.bases[c]) PROVE Diagnosis(h, <<c>>, b) \subseteq D
    <3>1. Last(<<c>>) = c
        BY DEF Last
    <3> QED BY <3>1 DEF SaysAll
  <2>1. Diagnosis(h, u, b) \subseteq D
      BY <1>6 DEF SaysOf
  <2>2. Range(<<c>>) = {c} /\ Last(<<c>>) = c
      BY DEF Range, Last
  <2>3. h \in Host /\ h.unreadable \subseteq Config
      BY <1>0, <1>a DEF TypeOK, Host
  <2>4. PICK E : E = Cached'
      OBVIOUS
  <2>5. c \in E
      BY <1>1, <1>2, <1>a, <2>4 DEF Cached, TypeOK
  <2>6. b \in E \cup h.unreadable \cup {Missing} /\ E \subseteq Config /\ E \cap h.unreadable = {}
      BY <1>0, <1>1, <2>4, <2>5 DEF IInv, CacheIsDefinitive, Cached
  <2>7. CASE b = Missing
    <3>1. Missing \notin Range(u) /\ Missing \notin Range(<<c>>)
      <4>1. Range(u) \subseteq Config
          BY <1>3 DEF Range
      <4> QED BY <1>2, <2>2, <4>1, ConfigAssumption
    <3> QED BY <1>3, <2>1, <2>2, <2>3, <2>7, <3>1, MissingIsSaid
  <2>8. CASE b \in h.unreadable
    <3>1. b \notin Range(u)
      <4>1. \A i \in 1..n : loads[i].config \notin h.unreadable
          BY <1>0, <1>3, <1>a DEF StackIsPath, Linked
      <4>2. Range(u) = {loads[i].config : i \in 1..n}
          BY <1>0, WantedIs
      <4> QED BY <2>8, <4>1, <4>2
    <3>2. b # c /\ b # Missing
        BY <1>2, <2>3, <2>8, ConfigAssumption
    <3> QED BY <2>1, <2>2, <2>8, <3>1, <3>2 DEF Diagnosis
  <2>9. CASE b \in E
    <3>1. PICK r \in [Config -> Nat] : Ranks(h, E, r)
        BY <1>0, <1>1, <2>4 DEF FreshInv, CacheIsRanked
    <3>2. r[b] < r[c] /\ r[c] \in Nat
        BY <1>2, <2>5, <2>9, <3>1 DEF Ranks
    <3>3. b # c
        BY <3>2
    <3> QED BY <2>2, <2>6, <2>9, <3>3, ConfigAssumption DEF Diagnosis
  <2> QED BY <2>6, <2>7, <2>8, <2>9
<1>10. CacheIsTold'
  <2> SUFFICES ASSUME NEW x \in Cached' PROVE SaysAll(D, h, <<x>>)
      BY <1>0, <1>1 DEF CacheIsTold
  <2>1. CASE x \in Cached
      BY <1>0, <2>1 DEF ToldInv, CacheIsTold
  <2>2. CASE x \notin Cached
    <3>1. x = c /\ Loaded.complete
        BY <1>1, <1>a, <2>2 DEF Cached, TypeOK
    <3> QED BY <1>9, <3>1
  <2> QED BY <2>1, <2>2
<1>11. NothingElse'
    BY <1>1 DEF ToldInv, NothingElse
<1> QED BY <1>5, <1>8, <1>10, <1>11 DEF ToldInv

\* The entry is diagnosed as a base of nothing.
LEMMA EntryIsSaid ==
    ASSUME NEW h, h.entry # Missing
    PROVE  EntryDiagnosis(h) = Diagnosis(h, <<>>, h.entry)
<1>1. Range(<<>>) = {}
    BY DEF Range
<1> QED BY <1>1 DEF EntryDiagnosis, Diagnosis

\* What is said of what is being loaded is said by the loader with no cache.
LEMMA SaidOfWanted ==
    ASSUME IInv, EntryIsFirst, control.op = "load"
    PROVE  /\ Diagnosis(host, Stack, Wanted) \subseteq FreshDiagnostics(host)
           /\ Wanted = control.config /\ control.config \in Config /\ control.config # Missing
           /\ OnStack(control.config) <=> control.config \in Range(Stack)
<1>1. Wanted = control.config /\ control.config \in Config /\ control.config # Missing
    BY ConfigAssumption DEF EntryIsFirst, IInv, TypeOK, Control
<1>2. CASE loads = <<>>
  <2>1. Stack = <<>> /\ Wanted = host.entry
      BY <1>2, WantedIs
  <2>2. EntryDiagnosis(host) = Diagnosis(host, Stack, Wanted)
      BY <1>1, <2>1, EntryIsSaid
  <2> QED BY <1>1, <2>2, WantedIs DEF FreshDiagnostics
<1>3. CASE loads # <<>>
  <2>1. Top.next <= Len(Bases)
      BY <1>3 DEF IInv, Awaited, AwaitedLoad
  <2> QED BY <1>1, <1>3, <2>1, SaidByBoth, WantedIs
<1> QED BY <1>2, <1>3

\* The chain that is reported of a cycle.
LEMMA SameChain ==
    ASSUME IInv, NEW c \in Config, OnStack(c)
    PROVE  Chain(c) = Append(From(Stack, c), c)
<1>1. /\ DOMAIN Stack = DOMAIN loads /\ \A i \in DOMAIN loads : Stack[i] = loads[i].config
      /\ Len(Stack) = Len(loads)
  <2>1. TypeOK /\ Len(loads) \in Nat
      BY LoadType DEF IInv
  <2>2. Len(loads) \in 0..Len(loads)
      BY <2>1
  <2> QED BY <2>1, <2>2, Shape DEF Stack
<1>2. PICK j \in DOMAIN loads : loads[j].config = c
    BY DEF OnStack
<1>3. CycleStart(c) \in DOMAIN loads /\ loads[CycleStart(c)].config = c
    BY <1>2 DEF CycleStart
<1> DEFINE k == CHOOSE i \in DOMAIN Stack : Stack[i] = c
<1>4. k \in DOMAIN Stack /\ Stack[k] = c
    BY <1>1, <1>2
<1>5. From(Stack, c) = SubSeq(Stack, k, Len(Stack))
    BY DEF From
<1> HIDE DEF k
<1>6. CycleStart(c) = k
    BY <1>1, <1>3, <1>4 DEF IInv, StackIsPath
<1> QED BY <1>1, <1>5, <1>6 DEF Chain

LEMMA ToldInit == Init => ToldInv
<1> SUFFICES ASSUME Init PROVE ToldInv
    OBVIOUS
<1>1. Cached = {} /\ loads = <<>> /\ control.op = "start" /\ diagnostics = {}
    BY DEF Init, Cached
<1> QED BY <1>1 DEF ToldInv, LoadsAreTold, ResultIsTold, CacheIsTold, NothingElse

LEMMA ToldLoad ==
    ASSUME IInv, FreshInv, ToldInv, LoadCircular \/ LoadCached \/ LoadUnreadable
    PROVE  ToldInv'
<1>0. PICK c, s, h, D, E : c = control.config /\ s = Stack /\ h = host /\ D = diagnostics /\ E = diagnostics'
    OBVIOUS
<1>a. EntryIsFirst /\ TypeOK /\ StackIsPath /\ CacheIsFresh /\ CacheIsRanked
    BY DEF IInv, FreshInv
<1>1. /\ control.op = "load" /\ control'.op = "return" /\ UNCHANGED <<host, loads, cache>>
    BY DEF LoadCircular, LoadCached, LoadUnreadable, Return
<1>2. /\ Diagnosis(h, s, c) \subseteq FreshDiagnostics(h) /\ Wanted = c /\ c \in Config /\ c # Missing
      /\ OnStack(c) <=> c \in Range(s)
    BY <1>0, <1>1, <1>a, SaidOfWanted
<1>3. D \subseteq FreshDiagnostics(h)
    BY <1>0 DEF ToldInv, NothingElse
<1>8. \A x \in Range(s) : x \notin h.unreadable
  <2>1. \A i \in 1..Len(loads) : loads[i].config \notin h.unreadable
      BY <1>0, <1>a, LoadType DEF StackIsPath, Linked
  <2>2. Range(s) = {loads[i].config : i \in 1..Len(loads)}
      BY <1>0, WantedIs
  <2> QED BY <2>1, <2>2
<1>4. SUFFICES D \subseteq E /\ E \subseteq FreshDiagnostics(h) /\ SaysOf(E, h, s, c)
    BY <1>0, <1>1, <1>2, ToldQuiet
<1>5. CASE LoadCircular
  <2>1. E = D \cup {[code |-> 18000, chain |-> Chain(c)]} /\ OnStack(c)
      BY <1>0, <1>5 DEF LoadCircular, Report
  <2>2. Chain(c) = Append(From(s, c), c)
      BY <1>0, <1>2, <2>1, SameChain
  <2>3. Diagnosis(h, s, c) = {[code |-> 18000, chain |-> Append(From(s, c), c)]}
      BY <1>2, <1>8, <2>1 DEF Diagnosis
  <2>4. ~Loads(h, s, c)
      BY <1>2, <2>1 DEF Loads
  <2>5. E = D \cup Diagnosis(h, s, c)
      BY <2>1, <2>2, <2>3
  <2> QED BY <1>2, <1>3, <2>4, <2>5 DEF SaysOf
<1>6. CASE LoadUnreadable
  <2>1. E = D \cup {[code |-> 5083, chain |-> <<c>>]} /\ ~OnStack(c) /\ c \in h.unreadable
      BY <1>0, <1>6 DEF LoadUnreadable, Report
  <2>2. Diagnosis(h, s, c) = {[code |-> 5083, chain |-> <<c>>]}
      BY <1>2, <2>1 DEF Diagnosis
  <2>3. ~Loads(h, s, c)
      BY <2>1 DEF Loads
  <2>4. E = D \cup Diagnosis(h, s, c)
      BY <2>1, <2>2
  <2> QED BY <1>2, <1>3, <2>3, <2>4 DEF SaysOf
<1>7. CASE LoadCached
  <2>0. PICK C : C = Cached
      OBVIOUS
  <2>1. D = E /\ c \in C
      BY <1>0, <1>2, <1>7, <2>0 DEF LoadCached, Cached
  <2>2. PICK r \in [Config -> Nat] : Ranks(h, C, r)
      BY <1>0, <1>a, <2>0 DEF CacheIsRanked
  <2>3. /\ h \in Host /\ C \in SUBSET Config /\ ClosedUnder(h, C) /\ s \in Seq(Config)
        /\ \A x \in C : x \notin Range(s)
      BY <1>0, <1>a, <2>0, CacheShape, WantedIs DEF TypeOK
  <2>4. \A e \in C : SaysAll(D, h, <<e>>)
      BY <1>0, <2>0 DEF ToldInv, CacheIsTold
  <2>6. SaysOf(D, h, s, c)
      BY ONLY <1>8, <2>1, <2>2, <2>3, <2>4, SaysRemembered
  <2> QED BY <1>3, <2>1, <2>6
<1> QED BY <1>5, <1>6, <1>7

LEMMA ToldStep ==
    ASSUME IInv, IInv', FreshInv, FreshInv', ToldInv, Next
    PROVE  ToldInv'
<1>a. StackIsPath /\ EntryIsFirst /\ ResultIsTold /\ diagnostics \subseteq FreshDiagnostics(host)
    BY DEF IInv, FreshInv, ToldInv, NothingElse
<1>1. CASE EntryMissing
  <2>1. host.entry = Missing /\ control'.op = "done" /\ UNCHANGED <<host, loads, cache>>
      BY <1>1 DEF EntryMissing
  <2>2. diagnostics' = diagnostics \cup EntryDiagnosis(host)
    <3>1. host.entry \notin host.unreadable
        BY <2>1, ConfigAssumption DEF IInv, TypeOK, Host
    <3>2. EntryDiagnosis(host) =
            {[code |-> IF host.selection = "directory" THEN 5081 ELSE 5058, chain |-> <<>>]}
        BY <2>1, <3>1 DEF EntryDiagnosis
    <3> QED BY <1>1, <3>2 DEF EntryMissing, Report
  <2>3. EntryDiagnosis(host) \subseteq FreshDiagnostics(host)
      BY DEF FreshDiagnostics
  <2> QED BY <1>a, <2>1, <2>2, <2>3, ToldQuiet
<1>2. CASE ResolveEntry \/ Extend
  <2>1. control'.op = "load" /\ UNCHANGED <<host, loads, cache, diagnostics>>
      BY <1>2 DEF ResolveEntry, Extend
  <2> QED BY <1>a, <2>1, ToldQuiet
<1>3. CASE LoadCircular \/ LoadCached \/ LoadUnreadable
    BY <1>3, ToldLoad
<1>4. CASE LoadEnter
    BY <1>4, ToldEnter
<1>5. CASE ExtendMissing
  <2>1. loads # <<>> /\ Top.next <= Len(Bases) /\ Bases[Top.next] = Missing
        /\ diagnostics' = diagnostics \cup {[code |-> 6053, chain |-> <<Top.config>>]}
      BY <1>5 DEF ExtendMissing, Running, Report
  <2>2. /\ Wanted = Missing /\ Last(Stack) = Top.config /\ Stack \in Seq(Config) /\ host \in Host
      BY <2>1, WantedIs DEF IInv, TypeOK
  <2>3. Missing \notin Range(Stack)
      BY <2>2, ConfigAssumption DEF Range
  <2>4. diagnostics' = diagnostics \cup Diagnosis(host, Stack, Wanted)
      BY <2>1, <2>2, <2>3, MissingIsSaid
  <2>5. diagnostics' \subseteq FreshDiagnostics(host)
      BY <1>a, <2>1, <2>4, SaidByBoth
  <2>6. SaysOf(diagnostics', host, Stack, Wanted)
      BY <2>2, <2>4, ConfigAssumption DEF SaysOf, Loads
  <2>7. PICK e \in Load : Advances(e)
      BY <1>5, HowItAdvances
  <2>8. diagnostics \subseteq diagnostics'
      BY <2>4
  <2> QED BY <2>5, <2>6, <2>7, <2>8, ToldAdvance
<1>6. CASE MergeNothing \/ MergeBase
  <2>1. control.op = "return" /\ diagnostics' = diagnostics
      BY <1>6 DEF MergeNothing, MergeBase
  <2>2. SaysOf(diagnostics', host, Stack, Wanted)
      BY <1>a, <2>1 DEF ResultIsTold
  <2>3. PICK e \in Load : Advances(e)
      BY <1>6, HowItAdvances
  <2>4. diagnostics \subseteq diagnostics' /\ diagnostics' \subseteq FreshDiagnostics(host)
      BY <1>a, <2>1
  <2> QED BY <2>2, <2>3, <2>4, ToldAdvance
<1>7. CASE Finish
    BY <1>7, ToldFinish
<1>8. CASE EntryLoaded
  <2>1. /\ control.op = "return" /\ loads = <<>> /\ control'.op = "done"
        /\ UNCHANGED <<host, loads, cache, diagnostics>>
      BY <1>8 DEF EntryLoaded
  <2>2. Stack = <<>> /\ Wanted = host.entry /\ host.entry # Missing
      BY <1>a, <2>1, WantedIs DEF EntryIsFirst
  <2>3. SaysOf(diagnostics', host, <<>>, host.entry)
      BY <1>a, <2>1, <2>2 DEF ResultIsTold
  <2> QED BY <1>a, <2>1, <2>2, <2>3, ToldQuiet
<1> QED BY <1>1, <1>2, <1>3, <1>4, <1>5, <1>6, <1>7, <1>8 DEF Next

FullInv == IInv /\ FreshInv /\ ToldInv

LEMMA FullInductive ==
    ASSUME FullInv, [Next]_vars
    PROVE  FullInv'
<1>1. IInv'
    BY Inductive DEF FullInv
<1>2. CASE Next
  <2>1. FreshInv'
      BY <1>1, <1>2, FreshStep DEF FullInv
  <2>2. ToldInv'
      BY <1>1, <1>2, <2>1, ToldStep DEF FullInv
  <2> QED BY <1>1, <2>1, <2>2 DEF FullInv
<1>3. CASE UNCHANGED vars
  <2>1. UNCHANGED <<host, control, loads, cache, diagnostics>>
      BY <1>3 DEF vars
  <2>2. IInv /\ FreshInv /\ ToldInv /\ EntryIsFirst /\ ResultIsFresh /\ ResultIsTold /\ NothingElse
      BY DEF FullInv, FreshInv, ToldInv
  <2>3. FreshInv'
      BY <2>1, <2>2, FreshQuiet DEF EntryIsFirst, ResultIsFresh
  <2>4. ToldInv'
      BY <2>1, <2>2, ToldQuiet DEF ResultIsTold, NothingElse
  <2> QED BY <1>1, <2>3, <2>4 DEF FullInv
<1> QED BY <1>2, <1>3

LEMMA FullIsFresh ==
    ASSUME FullInv
    PROVE  LoadingIsFresh
<1>a. /\ IInv /\ FreshInv /\ ToldInv /\ TypeOK /\ StackIsPath /\ CacheIsDefinitive
      /\ ResultIsFresh /\ CacheIsFresh /\ CacheIsRanked /\ ResultIsTold /\ NothingElse
    BY DEF FullInv, IInv, FreshInv, ToldInv
<1>1. CachedIsFresh
    BY <1>a, CachedBelow DEF CachedIsFresh, CacheIsDefinitive
<1>2. host.entry \in Config \cup {Missing} /\ host.unreadable \subseteq Config
    BY <1>a DEF TypeOK, Host
<1>3. Loads(host, <<>>, host.entry) <=> ~(host.entry = Missing \/ host.entry \in host.unreadable)
    BY <1>2, ConfigAssumption DEF Loads, Range
<1>4. EntryIsFresh
  <2> SUFFICES ASSUME control.op = "done"
               PROVE  IF host.entry = Missing \/ host.entry \in host.unreadable
                      THEN control.result = NoConfig
                      ELSE control.result.merged = Fresh(host)[<<host.entry>>]
      BY DEF EntryIsFresh
  <2>1. Stack = <<>> /\ Wanted = host.entry
      BY <1>a, WantedIs DEF StackIsPath
  <2>2. Answers(control.result, <<>>, host.entry)
      BY <1>a, <2>1 DEF ResultIsFresh
  <2>3. Append(<<>>, host.entry) = <<host.entry>>
      OBVIOUS
  <2> QED BY <1>3, <2>2, <2>3 DEF Answers
<1>5. DiagnosticsAreFresh
  <2> SUFFICES ASSUME control.op = "done" PROVE FreshDiagnostics(host) \subseteq diagnostics
      BY <1>a DEF DiagnosticsAreFresh, NothingElse
  <2>0. PICK h, D : h = host /\ D = diagnostics
      OBVIOUS
  <2>1. IF h.entry = Missing THEN EntryDiagnosis(h) \subseteq D ELSE SaysOf(D, h, <<>>, h.entry)
      BY <1>a, <2>0 DEF ResultIsTold
  <2>2. EntryDiagnosis(h) \subseteq D
      BY <2>1, EntryIsSaid DEF SaysOf
  <2>3. ASSUME NEW t \in AllChains(h) PROVE SaysAll(D, h, t)
    <3>1. /\ t \in Seq(Config) /\ Len(t) \in Nat \ {0} /\ 1 \in DOMAIN t /\ t[1] = h.entry
          /\ t[1] \notin h.unreadable /\ t[1] \in Config
      <4>1. /\ t \in Seq(Config) /\ Len(t) \in Nat \ {0} /\ DOMAIN t = 1..Len(t) /\ IsChain(h, t)
          BY ChainIs
      <4>2. 1 \in 1..Len(t)
          BY <4>1
      <4> QED BY <4>1, <4>2 DEF IsChain
    <3>2. Loads(h, <<>>, h.entry) /\ h.entry # Missing
        BY <1>3, <2>0, <3>1, ConfigAssumption
    <3>3. Prefix(Append(<<>>, h.entry), t)
      <4>1. /\ Len(Append(<<>>, h.entry)) = 1 /\ Append(<<>>, h.entry)[1] = h.entry
          OBVIOUS
      <4>2. \A k \in 1..1 : k = 1
          OBVIOUS
      <4>3. 1 <= Len(t)
          BY <3>1
      <4> QED BY <3>1, <4>1, <4>2, <4>3 DEF Prefix
    <3> QED BY <2>1, <3>2, <3>3 DEF SaysOf
  <2> QED BY <2>0, <2>2, <2>3 DEF FreshDiagnostics, SaysAll
<1> QED BY <1>1, <1>4, <1>5 DEF LoadingIsFresh

\* The cache cannot be seen, whatever extends what: a remembered configuration is what
\* loading it from nothing gives below the present stack, and at the end the settings
\* of the entry and all that is reported are those of a loader that remembers nothing
\* (Resolver::load_config, LoadedConfig::complete).
THEOREM LoadingLooksFresh == Spec => []LoadingIsFresh
<1>1. Init => FullInv
    BY InitInv, FreshInit, ToldInit DEF FullInv
<1>2. Spec => []FullInv
    BY <1>1, FullInductive, PTL DEF Spec
<1> QED BY <1>2, FullIsFresh, PTL
=============================================================================
