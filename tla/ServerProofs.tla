---------------------------- MODULE ServerProofs ----------------------------
(***************************************************************************)
(* For any number of connections and whatever clients do: every connection *)
(* object has one owner, none is deleted while a handler may still use it, *)
(* and no response is lost from the count.                                 *)
(***************************************************************************)
EXTENDS Server, FiniteSetTheorems, TLAPS

\* Stop() has come back, and the thread with it: no handler runs any more.
Over == caller \in {"returned", "crashed"}

\* The objects that wait for their turn have no successor and have served
\* nothing; the one for the next client does not run yet.
Waiting ==
  /\ NextConn # None =>
       /\ ~conn[NextConn].busy
       /\ conn[NextConn].NextConn = None /\ conn[NextConn].ResponseCount = 0
  /\ \A w \in HandedOver :
       conn[w].ws /\ conn[w].NextConn = None /\ conn[w].ResponseCount = 0

\* A connection that has handed its socket over does nothing any more.
Handed == \A c \in ConnLst : conn[c].NextConn # None => ~conn[c].busy

\* An accept has a connection to accept into, and room in the count.
Accepting ==
  /\ accept # "none" => NextConn # None \/ Over
  /\ accept = "ok" => TotalConnCount < MaxAccepts

\* What Stop() knows of the thread it waits for.
Thread ==
  /\ Over => thread = "none"
  /\ thread = "none" /\ caller = "idle" => ~ctxStopped
  /\ ctxStopped /\ thread \in {"starting", "running"} => caller = "joining" /\ ~graceful
  /\ thread = "exited" =>
       (\A c \in alive : ~conn[c].busy) \/ (caller = "joining" /\ ~graceful)

\* No object claims more responses than were served.
CountsBounded == \A c \in Conns : conn[c].ResponseCount <= served

IInv ==
  /\ TypeOK /\ OneOwner /\ ResponsesAccounted
  /\ Waiting /\ Handed /\ Accepting /\ Thread /\ CountsBounded

-----------------------------------------------------------------------------
(* Counting responses.                                                     *)

\* The responses of two sets of connections add up.
LEMMA CountSplit ==
  ASSUME ServerAssumption, NEW objects, NEW A \in SUBSET Conns, NEW B \in SUBSET Conns,
         A \intersect B = {}
  PROVE  /\ Cardinality(Counted(objects, A)) \in Nat
         /\ Cardinality(Counted(objects, B)) \in Nat
         /\ Cardinality(Counted(objects, A \union B))
              = Cardinality(Counted(objects, A)) + Cardinality(Counted(objects, B))
<1>1. IsFiniteSet(Conns) /\ IsFiniteSet(1 .. MaxResponses)
  BY FS_Interval DEF ServerAssumption
<1>2. ASSUME NEW C \in SUBSET Conns
      PROVE  IsFiniteSet(Counted(objects, C)) /\ Cardinality(Counted(objects, C)) \in Nat
  <2>1. IsFiniteSet(C)
    BY <1>1, FS_Subset
  <2>2. IsFiniteSet(C \X (1 .. MaxResponses))
    BY <1>1, <2>1, FS_Product
  <2>3. Counted(objects, C) \in SUBSET (C \X (1 .. MaxResponses))
    BY DEF Counted
  <2>4. IsFiniteSet(Counted(objects, C))
    BY <2>2, <2>3, FS_Subset
  <2> QED BY <2>4, FS_CardinalityType
<1>3. /\ Counted(objects, A \union B) = Counted(objects, A) \union Counted(objects, B)
      /\ Counted(objects, A) \intersect Counted(objects, B) = {}
  BY DEF Counted
<1>4. Cardinality({}) = 0
  BY FS_EmptySet
<1>5. Cardinality(Counted(objects, A) \union Counted(objects, B))
        = Cardinality(Counted(objects, A)) + Cardinality(Counted(objects, B))
          - Cardinality(Counted(objects, A) \intersect Counted(objects, B))
  BY <1>2, FS_Union
<1>6. Cardinality(Counted(objects, A \union B))
        = Cardinality(Counted(objects, A)) + Cardinality(Counted(objects, B)) - 0
  BY <1>3, <1>4, <1>5, Zenon
<1>7. /\ Cardinality(Counted(objects, A)) \in Nat /\ Cardinality(Counted(objects, B)) \in Nat
  BY <1>2
<1> QED BY <1>6, <1>7

\* Only ResponseCount counts.
LEMMA CountSame ==
  ASSUME NEW f, NEW g, NEW cs, \A c \in cs : f[c].ResponseCount = g[c].ResponseCount
  PROVE  Counted(f, cs) = Counted(g, cs)
BY DEF Counted

\* Connections that have served nothing do not count.
LEMMA CountNone ==
  ASSUME NEW f, NEW cs, \A c \in cs : f[c].ResponseCount = 0
  PROVE  Cardinality(Counted(f, cs)) = 0
<1>1. Counted(f, cs) = {}
  BY DEF Counted
<1> QED BY <1>1, FS_EmptySet

\* One more response of one connection is one more of all.
LEMMA CountOneMore ==
  ASSUME ServerAssumption, NEW f, NEW g, NEW cs \in SUBSET Conns, NEW c \in cs,
         f[c].ResponseCount \in Nat, f[c].ResponseCount < MaxResponses,
         g[c].ResponseCount = f[c].ResponseCount + 1,
         \A d \in cs \ {c} : g[d].ResponseCount = f[d].ResponseCount
  PROVE  Cardinality(Counted(g, cs)) = Cardinality(Counted(f, cs)) + 1
<1> DEFINE n == f[c].ResponseCount
<1>1. ASSUME NEW h
      PROVE  /\ Cardinality(Counted(h, cs \ {c})) \in Nat /\ Cardinality(Counted(h, {c})) \in Nat
             /\ Cardinality(Counted(h, cs))
                  = Cardinality(Counted(h, cs \ {c})) + Cardinality(Counted(h, {c}))
  <2>1. PICK rest, one : rest = cs \ {c} /\ one = {c}
    OBVIOUS
  <2>2. rest \in SUBSET Conns /\ one \in SUBSET Conns /\ rest \intersect one = {}
        /\ cs = rest \union one
    BY <2>1
  <2>3. /\ Cardinality(Counted(h, rest)) \in Nat /\ Cardinality(Counted(h, one)) \in Nat
        /\ Cardinality(Counted(h, rest \union one))
             = Cardinality(Counted(h, rest)) + Cardinality(Counted(h, one))
    BY <2>2, CountSplit
  <2> QED BY <2>1, <2>2, <2>3
<1>2. Counted(g, cs \ {c}) = Counted(f, cs \ {c})
  BY CountSame
<1>3. MaxResponses \in Nat /\ n \in Nat /\ n + 1 \in 1 .. MaxResponses
  BY DEF ServerAssumption
<1>4. g[c].ResponseCount = n + 1 /\ f[c].ResponseCount = n
  OBVIOUS
<1> HIDE DEF n
<1>5. Counted(g, {c}) = Counted(f, {c}) \union {<<c, n + 1>>} /\ <<c, n + 1>> \notin Counted(f, {c})
  <2>1. \A p : p \in Counted(g, {c}) <=> \E m \in 1 .. MaxResponses : p = <<c, m>> /\ m <= n + 1
    BY <1>4 DEF Counted
  <2>2. \A p : p \in Counted(f, {c}) <=> \E m \in 1 .. MaxResponses : p = <<c, m>> /\ m <= n
    BY <1>4 DEF Counted
  <2>3. \A m \in 1 .. MaxResponses : m <= n + 1 <=> m <= n \/ m = n + 1
    BY <1>3
  <2>4. ASSUME NEW p PROVE p \in Counted(g, {c}) <=> p \in Counted(f, {c}) \/ p = <<c, n + 1>>
    BY <1>3, <2>1, <2>2, <2>3
  <2>5. <<c, n + 1>> \notin Counted(f, {c})
    <3>1. ASSUME NEW m \in 1 .. MaxResponses, <<c, n + 1>> = <<c, m>>, m <= n PROVE FALSE
      <4>1. n + 1 = m
        BY <3>1
      <4> QED BY <1>3, <3>1, <4>1
    <3> QED BY <2>2, <3>1
  <2> QED BY <2>4, <2>5
<1>6. IsFiniteSet(Counted(f, {c}))
  <2>1. IsFiniteSet({c})
    BY FS_Singleton
  <2>2. IsFiniteSet(1 .. MaxResponses)
    BY <1>3, FS_Interval
  <2>3. IsFiniteSet({c} \X (1 .. MaxResponses))
    BY <2>1, <2>2, FS_Product
  <2>4. Counted(f, {c}) \in SUBSET ({c} \X (1 .. MaxResponses))
    BY DEF Counted
  <2> QED BY <2>3, <2>4, FS_Subset
<1>7. Cardinality(Counted(g, {c})) = Cardinality(Counted(f, {c})) + 1
  <2>1. Cardinality(Counted(f, {c}) \union {<<c, n + 1>>})
          = IF <<c, n + 1>> \in Counted(f, {c}) THEN Cardinality(Counted(f, {c}))
                                              ELSE Cardinality(Counted(f, {c})) + 1
    BY <1>6, FS_AddElement, Zenon
  <2> QED BY <1>5, <2>1, Zenon
<1>8. Cardinality(Counted(f, cs)) = Cardinality(Counted(f, cs \ {c})) + Cardinality(Counted(f, {c}))
      /\ Cardinality(Counted(g, cs)) = Cardinality(Counted(f, cs \ {c})) + (Cardinality(Counted(f, {c})) + 1)
  BY <1>1, <1>2, <1>7
<1>9. Cardinality(Counted(f, cs \ {c})) \in Nat /\ Cardinality(Counted(f, {c})) \in Nat
  BY <1>1
<1> QED BY <1>8, <1>9

-----------------------------------------------------------------------------
(* Owners.                                                                 *)

\* A connection object is a record, and None is not one.
LEMMA Records ==
  ASSUME ServerAssumption, TypeOK
  PROVE  /\ \A c \in Conns : /\ conn[c] \in ConnRecord
                             /\ conn[c].ResponseCount \in 0 .. MaxResponses
                             /\ conn[c].NextConn \in Conns \union {None}
         /\ conn \in [Conns -> ConnRecord] /\ ConnLst \subseteq Conns /\ alive \subseteq Conns
         /\ NextConn \in Conns \union {None} /\ None \notin Conns
         /\ HandedOver \subseteq Conns
         /\ NewHttp \in ConnRecord /\ ~NewHttp.busy /\ NewHttp.NextConn = None
         /\ NewHttp.ResponseCount = 0
<1>1. conn \in [Conns -> ConnRecord] /\ ConnLst \subseteq Conns /\ alive \subseteq Conns
      /\ NextConn \in Conns \union {None} /\ None \notin Conns
  BY DEF TypeOK, ServerAssumption
<1>2. \A c \in Conns : /\ conn[c] \in ConnRecord
                       /\ conn[c].ResponseCount \in 0 .. MaxResponses
                       /\ conn[c].NextConn \in Conns \union {None}
  BY <1>1 DEF ConnRecord
<1>3. HandedOver \subseteq Conns
  BY <1>1, <1>2 DEF HandedOver
<1>4. NewHttp \in ConnRecord /\ ~NewHttp.busy /\ NewHttp.NextConn = None
      /\ NewHttp.ResponseCount = 0
  BY DEF NewHttp, ConnRecord, ServerAssumption
<1> QED BY <1>1, <1>2, <1>3, <1>4

\* The part of the invariant that speaks of owners.
Owners == OneOwner /\ Waiting /\ Handed

\* What the owners ask of an object: which one it waits for, that it does
\* nothing more, that it is a WebSocket, and what it has served.
LEMMA OwnersKept ==
  ASSUME ServerAssumption, TypeOK, Owners, UNCHANGED <<ConnLst, NextConn, alive>>,
         \A c \in alive : /\ conn'[c].NextConn = conn[c].NextConn
                          /\ conn'[c].busy => conn[c].busy
                          /\ conn'[c].ws = conn[c].ws
                          /\ c \notin ConnLst => conn'[c].ResponseCount = conn[c].ResponseCount
  PROVE  Owners'
<1>1. /\ alive = (ConnLst \union HandedOver \union {NextConn}) \ {None} /\ None \notin Conns
      /\ ConnLst \subseteq Conns /\ HandedOver \subseteq Conns
  BY Records DEF Owners, OneOwner
<1>2. ConnLst \subseteq alive /\ HandedOver \subseteq alive
  BY <1>1
<1>3. HandedOver' = HandedOver
  BY <1>2 DEF HandedOver
<1>4. OneOwner'
  <2>1. \A c, d \in ConnLst :
          conn'[c].NextConn = conn'[d].NextConn /\ c # d => conn'[c].NextConn = None
    BY <1>2 DEF Owners, OneOwner
  <2> QED BY <1>3, <2>1 DEF Owners, OneOwner
<1>5. NextConn # None => NextConn \in alive /\ NextConn \notin ConnLst
  BY <1>1 DEF Owners, OneOwner
<1>6. \A w \in HandedOver : w \in alive /\ w \notin ConnLst
  BY <1>2 DEF Owners, OneOwner
<1>7. Waiting'
  <2>1. NextConn # None => /\ ~conn'[NextConn].busy /\ conn'[NextConn].NextConn = None
                           /\ conn'[NextConn].ResponseCount = 0
    BY <1>5 DEF Owners, Waiting
  <2>2. \A w \in HandedOver : conn'[w].ws /\ conn'[w].NextConn = None /\ conn'[w].ResponseCount = 0
    BY <1>6 DEF Owners, Waiting
  <2> QED BY <1>3, <2>1, <2>2 DEF Waiting
<1>8. Handed'
  BY <1>2 DEF Owners, Handed
<1> QED BY <1>4, <1>7, <1>8 DEF Owners

\* RestartAccept() keeps the connection it is given, or creates one.
LEMMA Restarted ==
  ASSUME ServerAssumption, TypeOK, Owners, NEW running \in BOOLEAN, NEW next \in {None, NextConn},
         NEW objects, objects = (ConnLst \union HandedOver \union {next}) \ {None},
         RestartAccept(running, next, objects), UNCHANGED ConnLst
  PROVE  /\ Owners'
         /\ conn' \in [Conns -> ConnRecord] /\ alive' \subseteq Conns
         /\ NextConn' \in Conns \union {None}
         /\ accept' \in {"none", "pending"} /\ (accept' # "none" => NextConn' # None)
         /\ \A c \in ConnLst : conn'[c] = conn[c]
         /\ \A c \in Conns : conn'[c] = conn[c] \/ conn'[c].ResponseCount = 0
         /\ \A c \in alive' : conn'[c].busy => c \in alive /\ conn[c].busy
<1>1. /\ alive = (ConnLst \union HandedOver \union {NextConn}) \ {None} /\ None \notin Conns
      /\ ConnLst \subseteq Conns /\ HandedOver \subseteq Conns /\ NextConn \in Conns \union {None}
      /\ conn \in [Conns -> ConnRecord]
      /\ NewHttp \in ConnRecord /\ ~NewHttp.busy /\ NewHttp.NextConn = None
      /\ NewHttp.ResponseCount = 0
      /\ NextConn \notin ConnLst \union HandedOver /\ ConnLst \intersect HandedOver = {}
  BY Records DEF Owners, OneOwner
<1>2. CASE ~running \/ next # None
  <2>1. /\ NextConn' = next /\ alive' = objects /\ conn' = conn
        /\ accept' \in {"none", "pending"} /\ (accept' = "pending" => next # None)
    BY <1>2 DEF RestartAccept
  <2>2. HandedOver' = HandedOver
    BY <2>1 DEF HandedOver
  <2>3. OneOwner'
    BY <1>1, <2>1, <2>2 DEF Owners, OneOwner
  <2>4. Waiting' /\ Handed'
    BY <2>1, <2>2 DEF Owners, Waiting, Handed
  <2>5. alive' \subseteq alive /\ alive' \subseteq Conns
    BY <1>1, <2>1
  <2> QED BY <1>1, <2>1, <2>3, <2>4, <2>5 DEF Owners
<1>3. CASE running /\ next = None
  <2>1. PICK c \in Conns \ objects :
          /\ NextConn' = c /\ accept' = "pending" /\ alive' = objects \union {c}
          /\ conn' = [conn EXCEPT ![c] = NewHttp]
    BY <1>3 DEF RestartAccept
  <2>2. c \notin ConnLst /\ c \notin HandedOver /\ c # None
    BY <1>1, <2>1
  <2>3. conn'[c] = NewHttp /\ \A d \in Conns : d # c => conn'[d] = conn[d]
    BY <1>1, <2>1
  <2>4. HandedOver' = HandedOver
    BY <1>1, <2>2, <2>3 DEF HandedOver
  <2>5. \A d \in ConnLst \union HandedOver : conn'[d] = conn[d]
    BY <1>1, <2>2, <2>3
  <2>6. OneOwner'
    <3>1. alive' = (ConnLst \union HandedOver \union {c}) \ {None}
      BY <1>1, <1>3, <2>1, <2>2
    <3>2. \A x, y \in ConnLst :
            conn'[x].NextConn = conn'[y].NextConn /\ x # y => conn'[x].NextConn = None
      BY <2>5 DEF Owners, OneOwner
    <3> QED BY <1>1, <2>1, <2>2, <2>4, <3>1, <3>2 DEF OneOwner
  <2>7. Waiting' /\ Handed'
    BY <1>1, <2>1, <2>3, <2>4, <2>5 DEF Owners, Waiting, Handed
  <2>8. conn' \in [Conns -> ConnRecord] /\ alive' \subseteq Conns
    BY <1>1, <2>1
  <2>9. \A d \in alive' : conn'[d].busy => d \in alive /\ conn[d].busy
    <3>1. \A d \in objects : d \in Conns /\ d \in alive /\ d # c
      BY <1>1, <2>1
    <3> QED BY <1>1, <2>1, <2>3, <3>1
  <2> QED BY <1>1, <2>1, <2>2, <2>3, <2>5, <2>6, <2>7, <2>8, <2>9 DEF Owners
<1> QED BY <1>2, <1>3

-----------------------------------------------------------------------------
(* The steps.                                                              *)

\* While a handler runs Stop() has not returned, so the responses are counted.
LEMMA HandlingFacts ==
  ASSUME ServerAssumption, IInv, Handling
  PROVE  /\ TypeOK /\ Owners /\ Accepting /\ CountsBounded
         /\ ~Over /\ thread = "running" /\ ~ctxStopped
         /\ BaseRespCount + Responses(ConnLst) = served
         /\ Responses(ConnLst) \in Nat /\ BaseRespCount \in Nat /\ served \in 0 .. MaxResponses
<1>1. ~Over /\ thread = "running" /\ ~ctxStopped
  BY DEF Handling, IInv, Thread
<1>2. BaseRespCount + Responses(ConnLst) = served
  BY <1>1 DEF IInv, ResponsesAccounted, Over
<1>3. BaseRespCount \in Nat /\ served \in 0 .. MaxResponses
  BY DEF IInv, TypeOK, ServerAssumption
<1>4. Responses(ConnLst) \in Nat
  <2>1. ConnLst \in SUBSET Conns /\ {} \in SUBSET Conns
    BY DEF IInv, TypeOK
  <2> QED BY <2>1, CountSplit DEF Responses
<1> QED BY <1>1, <1>2, <1>3, <1>4 DEF IInv, Owners

\* The count stands when neither the list nor what its members served changes.
LEMMA CountKept ==
  ASSUME ResponsesAccounted, CountsBounded, UNCHANGED <<BaseRespCount, served, ConnLst>>,
         \A c \in ConnLst : conn'[c].ResponseCount = conn[c].ResponseCount,
         \A c \in Conns : conn'[c].ResponseCount = conn[c].ResponseCount
                          \/ conn'[c].ResponseCount = 0,
         served \in Nat, caller' \in {"returned", "crashed"} \/ ~Over
  PROVE  ResponsesAccounted' /\ CountsBounded'
<1>1. Counted(conn', ConnLst) = Counted(conn, ConnLst)
  BY CountSame
<1>2. Responses(ConnLst)' = Responses(ConnLst)
  BY <1>1 DEF Responses, Counted
<1>3. ResponsesAccounted'
  BY <1>2 DEF ResponsesAccounted, Over
<1>4. CountsBounded'
  BY DEF CountsBounded
<1> QED BY <1>3, <1>4

\* The io_context, the thread, and the first part of Stop().
LEMMA StillStep ==
  ASSUME ServerAssumption, IInv,
         \/ \E outcome \in {"ok", "error"} : AcceptCompletes(outcome)
         \/ TimerExpires \/ OnTimerAborted \/ ThreadStarts \/ ThreadExits
         \/ StopCalled \/ StopLocked \/ StopForced
  PROVE  IInv'
<1>1. UNCHANGED <<serverVars, connVars>>
  BY DEF AcceptCompletes, TimerExpires, OnTimerAborted, ThreadStarts, ThreadExits,
         StopCalled, StopLocked, StopForced
<1>2. UNCHANGED <<IsRunning, ConnLst, NextConn, TotalConnCount, TotalRespCount,
                  BaseRespCount, ConnCount, alive, conn, served>>
  BY <1>1 DEF serverVars, connVars
<1>3. OneOwner' /\ Waiting' /\ Handed' /\ CountsBounded'
  BY <1>2 DEF IInv, OneOwner, Waiting, Handed, CountsBounded, HandedOver
<1>4. Over' <=> Over
  BY DEF Over, AcceptCompletes, TimerExpires, OnTimerAborted, ThreadStarts, ThreadExits,
         StopCalled, StopLocked, StopForced
<1>5. ResponsesAccounted'
  <2>1. Responses(ConnLst)' = Responses(ConnLst)
    BY <1>2 DEF Responses
  <2> QED BY <1>2, <1>4, <2>1 DEF IInv, ResponsesAccounted, Over
<1>6. TypeOK'
  <2>1. accept' \in {"none", "pending", "ok", "error", "aborted"}
        /\ timer' \in {"none", "pending", "ok", "aborted"}
    BY DEF IInv, TypeOK, AcceptCompletes, TimerExpires, OnTimerAborted, ThreadStarts,
           ThreadExits, StopCalled, StopLocked, StopForced
  <2>2. /\ thread' \in {"none", "starting", "running", "exited"}
        /\ caller' \in {"idle", "locking", "joining", "returned", "crashed"}
    BY DEF IInv, TypeOK, AcceptCompletes, TimerExpires, OnTimerAborted, ThreadStarts,
           ThreadExits, StopCalled, StopLocked, StopForced
  <2>3. ctxStopped' \in BOOLEAN /\ stopPosted' \in BOOLEAN /\ graceful' \in BOOLEAN
    BY DEF IInv, TypeOK, AcceptCompletes, TimerExpires, OnTimerAborted, ThreadStarts,
           ThreadExits, StopCalled, StopLocked, StopForced
  <2> QED BY <1>2, <2>1, <2>2, <2>3 DEF IInv, TypeOK
<1>7. Accepting'
  BY <1>2, <1>4 DEF IInv, Accepting, AcceptCompletes, TimerExpires, OnTimerAborted,
                    ThreadStarts, ThreadExits, StopCalled, StopLocked, StopForced
<1>8. Thread'
  <2>1. CASE ThreadExits
    <3>1. ctxStopped \/ \A c \in alive : ~conn[c].busy
      BY <2>1 DEF ThreadExits, WorkLeft
    <3> QED BY <1>2, <2>1, <3>1 DEF IInv, Thread, Over, ThreadExits
  <2>2. CASE StopLocked
    BY <1>2, <2>2 DEF IInv, Thread, Over, StopLocked
  <2>3. CASE StopForced
    BY <1>2, <2>3 DEF IInv, Thread, Over, StopForced
  <2>4. CASE StopCalled
    BY <1>2, <2>4 DEF IInv, Thread, Over, StopCalled
  <2>5. CASE ThreadStarts
    BY <1>2, <2>5 DEF IInv, Thread, Over, ThreadStarts
  <2>6. CASE \/ \E outcome \in {"ok", "error"} : AcceptCompletes(outcome)
             \/ TimerExpires \/ OnTimerAborted
    <3>1. UNCHANGED <<thread, ctxStopped, caller, graceful>>
      BY <2>6 DEF AcceptCompletes, TimerExpires, OnTimerAborted
    <3> QED BY <1>2, <3>1 DEF IInv, Thread, Over
  <2> QED BY <2>1, <2>2, <2>3, <2>4, <2>5, <2>6
<1> QED BY <1>3, <1>5, <1>6, <1>7, <1>8 DEF IInv

\* A refused or failed accept: RestartAccept() runs.
LEMMA AcceptStep ==
  ASSUME ServerAssumption, IInv, OnAcceptRefused \/ OnAcceptError
  PROVE  IInv'
<1>1. Handling /\ accept # "none"
  BY DEF OnAcceptRefused, OnAcceptError
<1>2. /\ TypeOK /\ Owners /\ Accepting /\ CountsBounded /\ ~Over /\ thread = "running"
      /\ ~ctxStopped /\ served \in Nat
  BY <1>1, HandlingFacts
<1>3. UNCHANGED <<IsRunning, ConnLst, TotalConnCount, TotalRespCount, BaseRespCount, ConnCount,
                  thread, ctxStopped, timer, stopPosted, caller, graceful, served>>
  BY DEF OnAcceptRefused, OnAcceptError
<1>4. \E next \in {None, NextConn} : \E objects :
        /\ objects = (ConnLst \union HandedOver \union {next}) \ {None}
        /\ RestartAccept(IsRunning, next, objects)
  <2>1. alive = (ConnLst \union HandedOver \union {NextConn}) \ {None}
        /\ NextConn \notin ConnLst \union HandedOver
    BY <1>2 DEF Owners, OneOwner
  <2>2. CASE OnAcceptRefused
    <3>1. alive \ {NextConn} = (ConnLst \union HandedOver \union {None}) \ {None}
      BY <2>1
    <3> QED BY <2>2, <3>1 DEF OnAcceptRefused
  <2>3. CASE OnAcceptError
    BY <2>1, <2>3 DEF OnAcceptError
  <2> QED BY <2>2, <2>3
<1>5. /\ Owners'
      /\ conn' \in [Conns -> ConnRecord] /\ alive' \subseteq Conns
      /\ NextConn' \in Conns \union {None}
      /\ accept' \in {"none", "pending"} /\ (accept' # "none" => NextConn' # None)
      /\ \A c \in ConnLst : conn'[c] = conn[c]
      /\ \A c \in Conns : conn'[c] = conn[c] \/ conn'[c].ResponseCount = 0
      /\ \A c \in alive' : conn'[c].busy => c \in alive /\ conn[c].busy
  <2>1. IsRunning \in BOOLEAN
    BY <1>2 DEF TypeOK
  <2> QED BY <1>2, <1>3, <1>4, <2>1, Restarted
<1>6. ResponsesAccounted' /\ CountsBounded'
  BY <1>2, <1>3, <1>5, CountKept DEF IInv
<1>7. TypeOK'
  BY <1>2, <1>3, <1>5 DEF TypeOK
<1>8. Accepting'
  BY <1>2, <1>3, <1>5 DEF Accepting
<1>9. Thread'
  BY <1>2, <1>3, <1>5 DEF IInv, Thread, Over
<1> QED BY <1>5, <1>6, <1>7, <1>8, <1>9 DEF IInv, Owners

\* Run() starts the accept, the timer and the thread; it is called once.
LEMMA RunStep ==
  ASSUME ServerAssumption, IInv, Run
  PROVE  IInv'
<1>1. /\ TypeOK /\ Owners /\ CountsBounded /\ ~Over /\ ~ctxStopped /\ served \in Nat
      /\ caller = "idle" /\ thread = "none" /\ thread' = "starting"
  BY DEF IInv, Owners, Thread, Run, Over, TypeOK, ServerAssumption
<1>2. /\ IsRunning' = TRUE /\ timer' = "pending"
      /\ UNCHANGED <<ConnLst, TotalConnCount, TotalRespCount, BaseRespCount, ConnCount,
                     ctxStopped, stopPosted, caller, graceful, served>>
  BY DEF Run, RestartTimer
<1>3. /\ Owners'
      /\ conn' \in [Conns -> ConnRecord] /\ alive' \subseteq Conns
      /\ NextConn' \in Conns \union {None}
      /\ accept' \in {"none", "pending"} /\ (accept' # "none" => NextConn' # None)
      /\ \A c \in ConnLst : conn'[c] = conn[c]
      /\ \A c \in Conns : conn'[c] = conn[c] \/ conn'[c].ResponseCount = 0
  <2>1. alive = (ConnLst \union HandedOver \union {NextConn}) \ {None}
        /\ RestartAccept(TRUE, NextConn, alive) /\ UNCHANGED ConnLst
    BY <1>1, <1>2 DEF Owners, OneOwner, Run
  <2> QED BY <1>1, <2>1, Restarted
<1>4. ResponsesAccounted' /\ CountsBounded'
  BY <1>1, <1>2, <1>3, CountKept DEF IInv
<1>5. TypeOK' /\ Accepting'
  BY <1>1, <1>2, <1>3 DEF TypeOK, Accepting
<1>6. Thread'
  BY <1>1, <1>2 DEF Thread, Over
<1> QED BY <1>3, <1>4, <1>5, <1>6 DEF IInv, Owners

\* A client was accepted: NextConn is listed, and a successor is created.
LEMMA StartedStep ==
  ASSUME ServerAssumption, IInv, OnAcceptStarted
  PROVE  IInv'
<1>1. Handling /\ accept = "ok"
  BY DEF OnAcceptStarted
<1>2. /\ TypeOK /\ Owners /\ Accepting /\ CountsBounded /\ ~Over /\ thread = "running"
      /\ ~ctxStopped /\ served \in Nat /\ Responses(ConnLst) \in Nat
      /\ BaseRespCount + Responses(ConnLst) = served
  BY <1>1, HandlingFacts
<1>3. PICK n : /\ n = NextConn /\ n \in Conns /\ n # None /\ n \in alive
               /\ n \notin ConnLst /\ n \notin HandedOver
               /\ ~conn[n].busy /\ conn[n].NextConn = None /\ conn[n].ResponseCount = 0
  BY <1>1, <1>2, Records DEF Owners, OneOwner, Waiting, Accepting
<1>4. /\ conn \in [Conns -> ConnRecord] /\ ConnLst \subseteq alive /\ HandedOver \subseteq alive
      /\ alive \subseteq Conns /\ None \notin Conns /\ ConnLst \subseteq Conns
      /\ NewHttp \in ConnRecord /\ ~NewHttp.busy /\ NewHttp.NextConn = None
      /\ NewHttp.ResponseCount = 0
  BY <1>2, Records DEF Owners, OneOwner
<1>5. /\ TotalConnCount' = TotalConnCount + 1 /\ ConnLst' = ConnLst \union {n}
      /\ UNCHANGED <<IsRunning, TotalRespCount, BaseRespCount, ConnCount, thread,
                     ctxStopped, timer, stopPosted, caller, graceful, served>>
  BY <1>3 DEF OnAcceptStarted
<1>6. PICK x : /\ x \in Free \union {None} /\ NextConn' = x
               /\ alive' = (alive \union {x}) \ {None}
               /\ accept' \in {"none", "pending"} /\ (accept' = "pending" => x # None)
               /\ conn' \in [Conns -> ConnRecord]
               /\ conn'[n] = [conn[n] EXCEPT !.busy = TRUE]
               /\ x # None => conn'[x] = NewHttp
               /\ \A c \in Conns : c # n /\ c # x => conn'[c] = conn[c]
  <2>1. [conn[n] EXCEPT !.busy = TRUE] \in ConnRecord
    BY <1>3, <1>4 DEF ConnRecord
  <2>2. PICK started : started = [conn EXCEPT ![n].busy = TRUE]
    OBVIOUS
  <2>3. /\ started \in [Conns -> ConnRecord] /\ started[n] = [conn[n] EXCEPT !.busy = TRUE]
        /\ \A c \in Conns : c # n => started[c] = conn[c]
    BY <1>3, <1>4, <2>1, <2>2
  <2>4. CASE IsRunning
    <3>1. PICK c \in Free :
            /\ NextConn' = c /\ alive' = alive \union {c} /\ accept' = "pending"
            /\ conn' = [started EXCEPT ![c] = NewHttp]
      BY <1>3, <2>2, <2>4 DEF OnAcceptStarted
    <3>2. c # n /\ c \in Conns /\ c # None
      BY <1>3, <1>4, <3>1 DEF Free
    <3>3. alive' = (alive \union {c}) \ {None}
      BY <1>4, <3>1, <3>2
    <3>4. /\ conn' \in [Conns -> ConnRecord] /\ conn'[c] = NewHttp
          /\ \A d \in Conns : d # c => conn'[d] = started[d]
      BY <1>4, <2>3, <3>1, <3>2
    <3> QED BY <1>3, <2>3, <3>1, <3>2, <3>3, <3>4
  <2>5. CASE ~IsRunning
    <3>1. NextConn' = None /\ conn' = started /\ accept' = "none" /\ alive' = alive
      BY <1>3, <2>2, <2>5 DEF OnAcceptStarted
    <3> QED BY <1>4, <2>3, <3>1
  <2> QED BY <2>4, <2>5
<1>7. /\ conn'[n].NextConn = None /\ conn'[n].ResponseCount = 0 /\ conn'[n].ws = conn[n].ws
      /\ \A c \in alive : c # n => conn'[c] = conn[c]
      /\ x \notin alive /\ x # n
  BY <1>3, <1>4, <1>6 DEF ConnRecord, Free
<1>8. HandedOver' = HandedOver
  <2>1. \A c \in ConnLst : conn'[c] = conn[c]
    BY <1>3, <1>4, <1>7
  <2> QED BY <1>5, <1>7, <2>1 DEF HandedOver
<1>9. OneOwner'
  <2>1. alive' = (ConnLst' \union HandedOver' \union {x}) \ {None}
    BY <1>2, <1>3, <1>5, <1>6, <1>8 DEF Owners, OneOwner
  <2>2. x \notin ConnLst' \union HandedOver'
    BY <1>4, <1>5, <1>7, <1>8
  <2>3. ConnLst' \intersect HandedOver' = {}
    BY <1>2, <1>3, <1>5, <1>8 DEF Owners, OneOwner
  <2>4. ASSUME NEW c \in ConnLst', NEW d \in ConnLst',
               conn'[c].NextConn = conn'[d].NextConn, c # d
        PROVE  conn'[c].NextConn = None
    <3>1. CASE c = n \/ d = n
      BY <1>7, <2>4, <3>1
    <3>2. CASE c # n /\ d # n
      <4>1. c \in ConnLst /\ d \in ConnLst /\ conn'[c] = conn[c] /\ conn'[d] = conn[d]
        BY <1>4, <1>5, <1>7, <3>2
      <4> QED BY <1>2, <2>4, <4>1 DEF Owners, OneOwner
    <3> QED BY <3>1, <3>2
  <2> QED BY <1>6, <2>1, <2>2, <2>3, <2>4 DEF OneOwner
<1>10. Waiting' /\ Handed'
  <2>1. \A w \in HandedOver : conn'[w] = conn[w]
    BY <1>3, <1>4, <1>7
  <2>2. Waiting'
    BY <1>2, <1>4, <1>6, <1>8, <2>1 DEF Owners, Waiting
  <2>3. Handed'
    BY <1>2, <1>4, <1>5, <1>7 DEF Owners, Handed
  <2> QED BY <2>2, <2>3
<1>11. Responses(ConnLst)' = Responses(ConnLst)
  <2>1. ConnLst \in SUBSET Conns /\ {n} \in SUBSET Conns /\ ConnLst \intersect {n} = {}
    BY <1>3, <1>4
  <2>2. Cardinality(Counted(conn', ConnLst \union {n}))
          = Cardinality(Counted(conn', ConnLst)) + Cardinality(Counted(conn', {n}))
    BY <2>1, CountSplit
  <2>3. Counted(conn', ConnLst) = Counted(conn, ConnLst)
    BY <1>3, <1>4, <1>7, CountSame
  <2>4. Cardinality(Counted(conn', {n})) = 0
    BY <1>7, CountNone
  <2>5. Cardinality(Counted(conn, ConnLst)) \in Nat
    BY <1>2 DEF Responses
  <2>6. Cardinality(Counted(conn', ConnLst \union {n})) = Cardinality(Counted(conn, ConnLst))
    BY <2>2, <2>3, <2>4, <2>5
  <2> QED BY <1>5, <2>6 DEF Responses, Counted
<1>12. ResponsesAccounted' /\ CountsBounded'
  <2>1. \A c \in Conns : conn'[c].ResponseCount = conn[c].ResponseCount
                         \/ conn'[c].ResponseCount = 0
    BY <1>4, <1>6, <1>7
  <2>2. CountsBounded'
    BY <1>2, <1>5, <2>1 DEF CountsBounded
  <2> QED BY <1>2, <1>5, <1>11, <2>2 DEF ResponsesAccounted
<1>13. TypeOK'
  <2>1. TotalConnCount' \in 0 .. MaxAccepts
    BY <1>1, <1>2, <1>5 DEF TypeOK, Accepting, ServerAssumption
  <2>2. NextConn' \in Conns \union {None} /\ alive' \subseteq Conns /\ ConnLst' \subseteq Conns
    BY <1>3, <1>4, <1>5, <1>6 DEF Free
  <2> QED BY <1>2, <1>5, <1>6, <2>1, <2>2 DEF TypeOK
<1>14. Accepting' /\ Thread'
  BY <1>2, <1>5, <1>6 DEF Accepting, Thread, Over
<1> QED BY <1>9, <1>10, <1>12, <1>13, <1>14 DEF IInv

\* The one second step: those that stay, and those handed over, are the list;
\* what the others served is kept in BaseRespCount.
LEMMA TimerStep ==
  ASSUME ServerAssumption, IInv, OnTimer
  PROVE  IInv'
<1>1. Handling
  BY DEF OnTimer
<1>2. /\ TypeOK /\ Owners /\ Accepting /\ CountsBounded /\ ~Over /\ thread = "running"
      /\ ~ctxStopped /\ served \in 0 .. MaxResponses
      /\ BaseRespCount + Responses(ConnLst) = served /\ BaseRespCount \in Nat
  BY <1>1, HandlingFacts
<1>3. /\ conn \in [Conns -> ConnRecord] /\ ConnLst \subseteq alive /\ HandedOver \subseteq alive
      /\ alive \subseteq Conns /\ None \notin Conns /\ ConnLst \subseteq Conns
      /\ alive = (ConnLst \union HandedOver \union {NextConn}) \ {None}
      /\ NextConn \notin ConnLst \union HandedOver /\ ConnLst \intersect HandedOver = {}
      /\ HandedOver \subseteq Conns
  BY <1>2, Records DEF Owners, OneOwner
<1>4. PICK kept : kept = {c \in ConnLst : Stays(c)}
  OBVIOUS
<1>5. /\ kept \subseteq ConnLst
      /\ ConnLst' = kept \union HandedOver /\ alive' = alive \ (ConnLst \ kept)
      /\ conn' = [c \in Conns |-> IF c \in ConnLst THEN Stepped(c) ELSE conn[c]]
      /\ BaseRespCount' = BaseRespCount + Responses(ConnLst \ kept)
      /\ TotalRespCount' = BaseRespCount + Responses(ConnLst \ kept) + Responses(kept)
      /\ ConnCount' = Cardinality(kept)
      /\ timer' \in {"none", "pending"}
      /\ UNCHANGED <<IsRunning, NextConn, TotalConnCount, thread, ctxStopped,
                     accept, stopPosted, caller, graceful, served>>
  BY <1>4 DEF OnTimer, BaseAfterStep, RestartTimer
<1>6. ASSUME NEW c \in Conns
      PROVE  /\ conn'[c] \in ConnRecord /\ conn'[c].busy = conn[c].busy
             /\ conn'[c].ws = conn[c].ws /\ conn'[c].ResponseCount = conn[c].ResponseCount
             /\ c \in ConnLst => conn'[c].NextConn = None
             /\ c \notin ConnLst => conn'[c] = conn[c]
  <2>1. CASE c \in ConnLst
    <3>1. conn'[c] = Stepped(c) /\ conn[c] \in ConnRecord
      BY <1>3, <1>5, <2>1
    <3>2. ~TimesOut(c) => conn[c].SilentTime + 1 \in 0 .. MaxSilentTime + 1
      BY <3>1 DEF TimesOut, ConnRecord, ServerAssumption
    <3>3. MaxSilentTime + 1 \in 0 .. MaxSilentTime + 1
      BY DEF ServerAssumption
    <3> QED BY <2>1, <3>1, <3>2, <3>3 DEF Stepped, ConnRecord
  <2>2. CASE c \notin ConnLst
    BY <1>3, <1>5, <2>2
  <2> QED BY <2>1, <2>2
<1>7. \A w \in HandedOver : /\ w \notin ConnLst /\ conn'[w] = conn[w] /\ conn[w].ws
                            /\ conn[w].NextConn = None /\ conn[w].ResponseCount = 0
  BY <1>2, <1>3, <1>6 DEF Owners, Waiting
<1>8. HandedOver' = {}
  <2>1. \A c \in ConnLst' : conn'[c].NextConn = None
    BY <1>3, <1>5, <1>6, <1>7
  <2> QED BY <2>1 DEF HandedOver
<1>9. Owners'
  <2>1. alive' = (ConnLst' \union {NextConn}) \ {None}
    BY <1>3, <1>5
  <2>2. NextConn \notin ConnLst'
    BY <1>3, <1>5
  <2>3. \A c \in ConnLst' : conn'[c].NextConn = None
    BY <1>3, <1>5, <1>6, <1>7
  <2>4. OneOwner'
    BY <1>5, <1>8, <2>1, <2>2, <2>3 DEF OneOwner
  <2>5. NextConn # None => conn'[NextConn] = conn[NextConn]
    BY <1>2, <1>3, <1>6, Records
  <2>6. Waiting'
    BY <1>2, <1>5, <1>8, <2>5 DEF Owners, Waiting
  <2>7. Handed'
    BY <2>3 DEF Handed
  <2> QED BY <2>4, <2>6, <2>7 DEF Owners
<1>10. /\ Responses(ConnLst) = Responses(ConnLst \ kept) + Responses(kept)
       /\ Responses(ConnLst \ kept) \in Nat /\ Responses(kept) \in Nat
       /\ Responses(ConnLst)' = Responses(kept)
  <2>1. PICK gone : gone = ConnLst \ kept
    OBVIOUS
  <2>2. /\ gone \in SUBSET Conns /\ kept \in SUBSET Conns /\ gone \intersect kept = {}
        /\ gone \union kept = ConnLst
        /\ HandedOver \in SUBSET Conns /\ kept \intersect HandedOver = {}
    BY <1>3, <1>5, <2>1
  <2>3. /\ Cardinality(Counted(conn, gone)) \in Nat /\ Cardinality(Counted(conn, kept)) \in Nat
        /\ Cardinality(Counted(conn, gone \union kept))
             = Cardinality(Counted(conn, gone)) + Cardinality(Counted(conn, kept))
    BY <2>2, CountSplit
  <2>4. Cardinality(Counted(conn', kept \union HandedOver))
          = Cardinality(Counted(conn', kept)) + Cardinality(Counted(conn', HandedOver))
    BY <2>2, CountSplit
  <2>5. Counted(conn', kept) = Counted(conn, kept)
    BY <1>6, <2>2, CountSame
  <2>6. Cardinality(Counted(conn', HandedOver)) = 0
    BY <1>7, CountNone
  <2>7. Cardinality(Counted(conn', kept \union HandedOver)) = Cardinality(Counted(conn, kept))
    BY <2>3, <2>4, <2>5, <2>6
  <2> QED BY <1>5, <2>1, <2>2, <2>3, <2>7 DEF Responses, Counted
<1>11. ResponsesAccounted' /\ CountsBounded'
  <2>1. BaseRespCount' + Responses(ConnLst)' = served
    BY <1>2, <1>5, <1>10
  <2>2. CountsBounded'
    BY <1>2, <1>5, <1>6 DEF CountsBounded
  <2> QED BY <1>5, <2>1, <2>2 DEF ResponsesAccounted
<1>12. TypeOK'
  <2>1. BaseRespCount' \in 0 .. MaxResponses /\ TotalRespCount' \in 0 .. MaxResponses
    BY <1>2, <1>5, <1>10 DEF ServerAssumption
  <2>2. ConnCount' \in 0 .. Cardinality(Conns)
    <3>1. IsFiniteSet(Conns) /\ kept \in SUBSET Conns
      BY <1>3, <1>5 DEF ServerAssumption
    <3>2. /\ IsFiniteSet(kept) /\ Cardinality(kept) <= Cardinality(Conns)
          /\ Cardinality(Conns) \in Nat
      BY <3>1, FS_Subset, FS_CardinalityType
    <3>3. Cardinality(kept) \in Nat
      BY <3>2, FS_CardinalityType
    <3> QED BY <1>5, <3>2, <3>3
  <2>3. conn' \in [Conns -> ConnRecord]
    BY <1>5, <1>6
  <2>4. ConnLst' \subseteq Conns /\ alive' \subseteq Conns
    BY <1>3, <1>5
  <2> QED BY <1>2, <1>5, <2>1, <2>2, <2>3, <2>4 DEF TypeOK
<1>13. Accepting' /\ Thread'
  BY <1>2, <1>5 DEF Accepting, Thread, Over
<1> QED BY <1>9, <1>11, <1>12, <1>13 DEF IInv, Owners

\* Stop(), in the io_context: every listed connection is stopped.
LEMMA StopInternalStep ==
  ASSUME ServerAssumption, IInv, StopInternal
  PROVE  IInv'
<1>1. Handling
  BY DEF StopInternal
<1>2. /\ TypeOK /\ Owners /\ Accepting /\ CountsBounded /\ ~Over /\ thread = "running"
      /\ ~ctxStopped /\ served \in Nat /\ ResponsesAccounted
  BY <1>1, HandlingFacts DEF IInv
<1>3. /\ conn \in [Conns -> ConnRecord] /\ alive \subseteq Conns /\ ConnLst \subseteq Conns
  BY <1>2, Records
<1>4. /\ conn' = [c \in Conns |-> IF c \in ConnLst THEN Stopped(c) ELSE conn[c]]
      /\ IsRunning' = FALSE /\ stopPosted' = FALSE
      /\ accept' = IF accept = "pending" THEN "aborted" ELSE accept
      /\ timer' = IF timer = "pending" THEN "aborted" ELSE timer
      /\ UNCHANGED <<ConnLst, NextConn, TotalConnCount, TotalRespCount, BaseRespCount,
                     ConnCount, thread, ctxStopped, caller, graceful, alive, served>>
  BY DEF StopInternal
<1>5. ASSUME NEW c \in Conns
      PROVE  /\ conn'[c] \in ConnRecord /\ conn'[c].busy = conn[c].busy
             /\ conn'[c].NextConn = conn[c].NextConn
             /\ conn'[c].ws = conn[c].ws /\ conn'[c].ResponseCount = conn[c].ResponseCount
  <2>1. conn[c] \in ConnRecord
    BY <1>3
  <2> QED BY <1>4, <2>1 DEF Stopped, ConnRecord
<1>6. Owners'
  BY <1>2, <1>3, <1>4, <1>5, OwnersKept
<1>7. ResponsesAccounted' /\ CountsBounded'
  BY <1>2, <1>3, <1>4, <1>5, CountKept
<1>8. TypeOK'
  <2>1. conn' \in [Conns -> ConnRecord]
    BY <1>4, <1>5
  <2> QED BY <1>2, <1>4, <2>1 DEF TypeOK
<1>9. Accepting' /\ Thread'
  BY <1>2, <1>4 DEF Accepting, Thread, Over
<1> QED BY <1>6, <1>7, <1>8, <1>9 DEF IInv, Owners

\* An HTTP connection that runs a handler is listed: the one for the next
\* client does not run yet, and what waits for its turn is a WebSocket.
LEMMA RunningIsListed ==
  ASSUME ServerAssumption, TypeOK, Owners, NEW c \in alive, conn[c].busy
  PROVE  /\ c \in Conns /\ c # NextConn /\ (~conn[c].ws => c \in ConnLst)
         /\ c \in ConnLst => conn[c].NextConn = None
<1>1. c \in ConnLst \union HandedOver \union {NextConn} /\ c \in Conns /\ c # None
  BY Records DEF Owners, OneOwner
<1>2. c # NextConn
  BY <1>1 DEF Owners, Waiting
<1>3. ~conn[c].ws => c \notin HandedOver
  BY DEF Owners, Waiting
<1>4. c \in ConnLst => conn[c].NextConn = None
  BY DEF Owners, Handed
<1> QED BY <1>1, <1>2, <1>3, <1>4

\* A connection moves data, ends, or serves a request.
LEMMA LocalStep ==
  ASSUME ServerAssumption, IInv, NEW c \in Conns,
         Progress(c) \/ Finish(c) \/ HandlerClosed(c) \/ Respond(c)
  PROVE  IInv'
<1>1. Handling /\ c \in alive /\ conn[c].busy
  BY DEF ConnStep, Progress, Finish, HandlerClosed, Respond
<1>2. /\ TypeOK /\ Owners /\ Accepting /\ CountsBounded /\ ~Over /\ thread = "running"
      /\ ~ctxStopped /\ served \in 0 .. MaxResponses /\ ResponsesAccounted
      /\ BaseRespCount + Responses(ConnLst) = served /\ BaseRespCount \in Nat
      /\ Responses(ConnLst) \in Nat
  BY <1>1, HandlingFacts DEF IInv
<1>3. /\ conn \in [Conns -> ConnRecord] /\ alive \subseteq Conns /\ ConnLst \subseteq Conns
      /\ conn[c] \in ConnRecord /\ MaxResponses \in Nat
  BY <1>2, Records DEF ServerAssumption
<1>4. UNCHANGED <<serverVars, ctxVars, alive>>
  BY DEF ConnFrame, Progress, Finish, HandlerClosed, Respond
<1>5. UNCHANGED <<IsRunning, ConnLst, NextConn, TotalConnCount, TotalRespCount, BaseRespCount,
                  ConnCount, thread, ctxStopped, accept, timer, stopPosted, caller, graceful,
                  alive>>
  BY <1>4 DEF serverVars, ctxVars
<1>6. PICK r :
        /\ conn' = [conn EXCEPT ![c] = r] /\ r \in ConnRecord
        /\ r.NextConn = conn[c].NextConn /\ r.ws = conn[c].ws
        /\ \/ served' = served /\ r.ResponseCount = conn[c].ResponseCount
           \/ /\ served' = served + 1 /\ r.ResponseCount = conn[c].ResponseCount + 1
              /\ served < MaxResponses /\ ~conn[c].ws
  <2>1. conn[c].ResponseCount \in Nat /\ served \in Nat /\ conn[c].ResponseCount <= served
    BY <1>2, <1>3 DEF CountsBounded, ConnRecord
  <2>2. CASE Progress(c)
    <3>1. PICK r : r = [conn[c] EXCEPT !.SilentTime = 0]
      OBVIOUS
    <3>2. r \in ConnRecord
      BY <1>3, <3>1 DEF ConnRecord, ServerAssumption
    <3>3. conn' = [conn EXCEPT ![c] = r]
      BY <1>3, <2>2, <3>1 DEF Progress
    <3>4. served' = served
      BY <2>2 DEF Progress
    <3>5. r.NextConn = conn[c].NextConn /\ r.ws = conn[c].ws
          /\ r.ResponseCount = conn[c].ResponseCount
      BY <1>3, <3>1 DEF ConnRecord
    <3> QED BY <3>2, <3>3, <3>4, <3>5
  <2>3. CASE Finish(c)
    <3>1. PICK r : r = [conn[c] EXCEPT !.busy = FALSE, !.handler = FALSE,
                                      !.open = @ /\ conn[c].ws]
      OBVIOUS
    <3>2. r \in ConnRecord
      BY <1>3, <3>1 DEF ConnRecord, ServerAssumption
    <3>3. conn' = [conn EXCEPT ![c] = r]
      BY <1>3, <2>3, <3>1 DEF Finish
    <3>4. served' = served
      BY <2>3 DEF Finish
    <3>5. r.NextConn = conn[c].NextConn /\ r.ws = conn[c].ws
          /\ r.ResponseCount = conn[c].ResponseCount
      BY <1>3, <3>1 DEF ConnRecord
    <3> QED BY <3>2, <3>3, <3>4, <3>5
  <2>4. CASE HandlerClosed(c)
    <3>1. PICK r : r = [conn[c] EXCEPT !.handler = FALSE]
      OBVIOUS
    <3>2. r \in ConnRecord
      BY <1>3, <3>1 DEF ConnRecord, ServerAssumption
    <3>3. conn' = [conn EXCEPT ![c] = r]
      BY <1>3, <2>4, <3>1 DEF HandlerClosed
    <3>4. served' = served
      BY <2>4 DEF HandlerClosed
    <3>5. r.NextConn = conn[c].NextConn /\ r.ws = conn[c].ws
          /\ r.ResponseCount = conn[c].ResponseCount
      BY <1>3, <3>1 DEF ConnRecord
    <3> QED BY <3>2, <3>3, <3>4, <3>5
  <2>5. CASE Respond(c)
    <3>1. PICK r : r = [conn[c] EXCEPT !.ResponseCount = @ + 1, !.SilentTime = 0]
      OBVIOUS
    <3>2. served < MaxResponses /\ ~conn[c].ws /\ served' = served + 1
      BY <2>5 DEF Respond
    <3>3. r \in ConnRecord
      <4>1. conn[c].ResponseCount + 1 \in 0 .. MaxResponses
        BY <1>3, <2>1, <3>2
      <4>2. 0 \in 0 .. MaxSilentTime + 1
        BY DEF ServerAssumption
      <4> QED BY <1>3, <3>1, <4>1, <4>2 DEF ConnRecord
    <3>4. conn' = [conn EXCEPT ![c] = r]
      BY <1>3, <2>5, <3>1 DEF Respond
    <3>5. r.NextConn = conn[c].NextConn /\ r.ws = conn[c].ws
          /\ r.ResponseCount = conn[c].ResponseCount + 1
      BY <1>3, <3>1 DEF ConnRecord
    <3> QED BY <3>2, <3>3, <3>4, <3>5
  <2> QED BY <2>2, <2>3, <2>4, <2>5
<1>7. conn'[c] = r /\ \A d \in Conns : d # c => conn'[d] = conn[d]
  BY <1>3, <1>6
<1>8. ~conn[c].ws => c \in ConnLst
  BY <1>1, <1>2, RunningIsListed
<1>9. Owners'
  <2>1. \A d \in alive : /\ conn'[d].NextConn = conn[d].NextConn
                         /\ conn'[d].busy => conn[d].busy
                         /\ conn'[d].ws = conn[d].ws
                         /\ d \notin ConnLst => conn'[d].ResponseCount = conn[d].ResponseCount
    BY <1>1, <1>3, <1>6, <1>7, <1>8
  <2> QED BY <1>2, <1>5, <2>1, OwnersKept
<1>10. ResponsesAccounted' /\ CountsBounded'
  <2>1. CASE served' = served /\ r.ResponseCount = conn[c].ResponseCount
    <3>1. served' = served /\ \A d \in Conns : conn'[d].ResponseCount = conn[d].ResponseCount
      BY <1>2, <1>3, <1>6, <1>7, <2>1 DEF ConnRecord
    <3> QED BY <1>2, <1>3, <1>5, <3>1, CountKept
  <2>2. CASE /\ served' = served + 1 /\ r.ResponseCount = conn[c].ResponseCount + 1
             /\ served < MaxResponses /\ ~conn[c].ws
    <3>1. Cardinality(Counted(conn', ConnLst)) = Cardinality(Counted(conn, ConnLst)) + 1
      <4>1. conn[c].ResponseCount \in Nat /\ conn[c].ResponseCount < MaxResponses
        BY <1>2, <1>3, <1>6, <2>2 DEF CountsBounded, ConnRecord
      <4>2. /\ ConnLst \in SUBSET Conns /\ c \in ConnLst
            /\ conn'[c].ResponseCount = conn[c].ResponseCount + 1
            /\ \A d \in ConnLst \ {c} : conn'[d].ResponseCount = conn[d].ResponseCount
        BY <1>3, <1>6, <1>7, <1>8, <2>2
      <4> QED BY <4>1, <4>2, CountOneMore
    <3>2. Responses(ConnLst)' = Responses(ConnLst) + 1
      BY <1>5, <3>1 DEF Responses, Counted
    <3>3. BaseRespCount' + Responses(ConnLst)' = served'
      BY <1>2, <1>5, <1>6, <2>2, <3>2, SMTT(30)
    <3>4. CountsBounded'
      BY <1>2, <1>3, <1>6, <1>7, <2>2 DEF CountsBounded, ConnRecord
    <3> QED BY <3>3, <3>4 DEF ResponsesAccounted
  <2> QED BY <1>6, <2>1, <2>2
<1>11. TypeOK'
  <2>1. conn' \in [Conns -> ConnRecord] /\ served' \in 0 .. MaxResponses
    BY <1>2, <1>3, <1>6
  <2> QED BY <1>2, <1>5, <2>1 DEF TypeOK
<1>12. Accepting' /\ Thread'
  BY <1>2, <1>5 DEF Accepting, Thread, Over
<1> QED BY <1>9, <1>10, <1>11, <1>12 DEF IInv, Owners

\* A connection begins with no successor, no response and no time passed.
LEMMA NewRecord ==
  ASSUME ServerAssumption
  PROVE  NewHttp \in ConnRecord /\ NewHttp.NextConn = None /\ NewHttp.ResponseCount = 0
<1>1. 0 \in 0 .. MaxSilentTime + 1 /\ 0 \in 0 .. MaxResponses
  BY DEF ServerAssumption
<1>2. /\ NewHttp.NextConn = None /\ NewHttp.ResponseCount = 0
      /\ NewHttp = [ws |-> FALSE, busy |-> FALSE, handler |-> FALSE, open |-> TRUE,
                    SilentTime |-> 0, ResponseCount |-> 0, NextConn |-> None]
  BY DEF NewHttp
<1> QED BY <1>1, <1>2 DEF ConnRecord

\* A request upgrades its connection: the WebSocket connection is alive from
\* then on, and the connection it came from owns it until the next OnStep().
LEMMA UpgradeStep ==
  ASSUME ServerAssumption, IInv, NEW c \in Conns, Upgrade(c)
  PROVE  IInv'
<1>1. Handling /\ c \in alive /\ conn[c].busy /\ ~conn[c].ws /\ served < MaxResponses
      /\ served' = served + 1
  BY DEF ConnStep, Upgrade
<1>2. /\ TypeOK /\ Owners /\ Accepting /\ CountsBounded /\ ~Over /\ thread = "running"
      /\ ~ctxStopped /\ served \in 0 .. MaxResponses
      /\ BaseRespCount + Responses(ConnLst) = served /\ BaseRespCount \in Nat
      /\ Responses(ConnLst) \in Nat
  BY <1>1, HandlingFacts
<1>3. /\ conn \in [Conns -> ConnRecord] /\ alive \subseteq Conns /\ ConnLst \subseteq alive
      /\ HandedOver \subseteq alive /\ None \notin Conns /\ MaxResponses \in Nat
      /\ alive = (ConnLst \union HandedOver \union {NextConn}) \ {None}
      /\ NextConn \notin ConnLst \union HandedOver /\ ConnLst \intersect HandedOver = {}
      /\ ConnLst \subseteq Conns /\ NextConn \in Conns \union {None}
  BY <1>2, Records DEF Owners, OneOwner, ServerAssumption
<1>4. c \in ConnLst /\ conn[c].NextConn = None
  BY <1>1, <1>2, RunningIsListed
<1>5. PICK w \in Free :
        /\ conn' = [conn EXCEPT ![c].ResponseCount = @ + 1, ![c].busy = FALSE,
                                ![c].open = FALSE, ![c].NextConn = w,
                                ![w] = NewWs(conn[c].open)]
        /\ alive' = alive \union {w}
  BY DEF Upgrade
<1>6. w \in Conns /\ w \notin alive /\ w # c /\ w # None
  BY <1>1, <1>3, <1>5 DEF Free
<1>7. UNCHANGED <<IsRunning, ConnLst, NextConn, TotalConnCount, TotalRespCount, BaseRespCount,
                  ConnCount, thread, ctxStopped, accept, timer, stopPosted, caller, graceful>>
  BY DEF Upgrade, ConnFrame, serverVars, ctxVars
<1>8. conn[c].ResponseCount + 1 \in 0 .. MaxResponses /\ conn[c].ResponseCount \in Nat
  BY <1>1, <1>2, <1>3 DEF CountsBounded, ConnRecord
<1>9. /\ conn'[c] \in ConnRecord /\ conn'[c].NextConn = w /\ ~conn'[c].busy
      /\ conn'[c].ResponseCount = conn[c].ResponseCount + 1
  <2>1. conn'[c] = [conn[c] EXCEPT !.ResponseCount = conn[c].ResponseCount + 1, !.busy = FALSE,
                                   !.open = FALSE, !.NextConn = w]
    BY <1>3, <1>5, <1>6 DEF ConnRecord
  <2>2. conn[c] \in ConnRecord
    BY <1>3
  <2> QED BY <1>6, <1>8, <2>1, <2>2 DEF ConnRecord
<1>10. /\ conn'[w] \in ConnRecord /\ conn'[w].ws /\ conn'[w].NextConn = None
       /\ conn'[w].ResponseCount = 0
  <2>1. conn'[w] = NewWs(conn[c].open) /\ conn[c].open \in BOOLEAN
    BY <1>3, <1>5, <1>6 DEF ConnRecord
  <2>2. NewHttp \in ConnRecord /\ NewHttp.NextConn = None /\ NewHttp.ResponseCount = 0
    BY NewRecord
  <2>3. NewWs(conn[c].open) = [NewHttp EXCEPT !.ws = TRUE, !.busy = TRUE, !.handler = TRUE,
                                              !.open = conn[c].open]
    BY DEF NewWs
  <2> QED BY <2>1, <2>2, <2>3 DEF ConnRecord
<1>11. \A d \in Conns : d # c /\ d # w => conn'[d] = conn[d]
  BY <1>3, <1>5
<1>12. conn' \in [Conns -> ConnRecord]
  <2>1. \A d \in Conns : conn'[d] \in ConnRecord
    BY <1>3, <1>9, <1>10, <1>11
  <2>2. conn' = [d \in Conns |-> conn'[d]]
    BY <1>3, <1>5
  <2> QED BY <2>1, <2>2
<1>13. HandedOver' = HandedOver \union {w}
  <2>1. \A d \in ConnLst : d # c => conn'[d] = conn[d]
    BY <1>3, <1>6, <1>11
  <2> QED BY <1>4, <1>6, <1>7, <1>9, <2>1 DEF HandedOver
<1>14. OneOwner'
  <2>1. alive' = (ConnLst \union HandedOver' \union {NextConn}) \ {None}
    BY <1>3, <1>5, <1>6, <1>13
  <2>2. NextConn # w /\ w \notin ConnLst
    BY <1>3, <1>6
  <2>3. NextConn \notin ConnLst \union HandedOver' /\ ConnLst \intersect HandedOver' = {}
    BY <1>3, <1>13, <2>2
  <2>4. ASSUME NEW x \in ConnLst, NEW y \in ConnLst, conn'[x].NextConn = conn'[y].NextConn, x # y
        PROVE  conn'[x].NextConn = None
    <3>1. \A d \in ConnLst : d # c => conn'[d] = conn[d] /\ conn[d].NextConn # w
      <4>1. \A d \in ConnLst : conn[d].NextConn # w
        BY <1>3, <1>6 DEF HandedOver
      <4> QED BY <1>3, <1>6, <1>11, <4>1
    <3>2. x # c /\ y # c
      BY <1>9, <2>4, <3>1
    <3>3. conn[x].NextConn = conn[y].NextConn
      BY <2>4, <3>1, <3>2
    <3>4. conn[x].NextConn = None
      BY <1>2, <2>4, <3>3 DEF Owners, OneOwner
    <3> QED BY <3>1, <3>2, <3>4
  <2> QED BY <1>7, <2>1, <2>3, <2>4 DEF OneOwner
<1>15. Waiting' /\ Handed'
  <2>1. NextConn # None => conn'[NextConn] = conn[NextConn]
    BY <1>3, <1>4, <1>6, <1>11
  <2>2. \A h \in HandedOver : conn'[h] = conn[h]
    BY <1>3, <1>4, <1>6, <1>11
  <2>3. Waiting'
    BY <1>2, <1>7, <1>10, <1>13, <2>1, <2>2 DEF Owners, Waiting
  <2>4. Handed'
    <3>1. \A d \in ConnLst : d # c => conn'[d] = conn[d]
      BY <1>3, <1>6, <1>11
    <3> QED BY <1>2, <1>7, <1>9, <3>1 DEF Owners, Handed
  <2> QED BY <2>3, <2>4
<1>16. ResponsesAccounted' /\ CountsBounded'
  <2>1. \A d \in ConnLst \ {c} : conn'[d].ResponseCount = conn[d].ResponseCount
    BY <1>3, <1>6, <1>11
  <2>2. conn[c].ResponseCount < MaxResponses
    BY <1>1, <1>2, <1>3, <1>8 DEF CountsBounded
  <2>3. Cardinality(Counted(conn', ConnLst)) = Cardinality(Counted(conn, ConnLst)) + 1
    <3>1. ConnLst \in SUBSET Conns
      BY <1>3
    <3> QED BY <1>4, <1>8, <1>9, <2>1, <2>2, <3>1, CountOneMore
  <2>4. Responses(ConnLst)' = Responses(ConnLst) + 1
    BY <1>7, <2>3 DEF Responses, Counted
  <2>5. BaseRespCount' + Responses(ConnLst)' = served'
    BY <1>1, <1>2, <1>7, <2>4
  <2>6. CountsBounded'
    <3>1. ASSUME NEW d \in Conns PROVE conn'[d].ResponseCount <= served + 1
      <4>1. conn[d].ResponseCount <= served /\ conn[d].ResponseCount \in Nat /\ served \in Nat
        BY <1>2, <1>3 DEF CountsBounded, ConnRecord
      <4> QED BY <1>8, <1>9, <1>10, <1>11, <4>1
    <3> QED BY <1>1, <3>1 DEF CountsBounded
  <2> QED BY <2>5, <2>6 DEF ResponsesAccounted
<1>17. TypeOK'
  <2>1. served' \in 0 .. MaxResponses /\ alive' \subseteq Conns
    BY <1>1, <1>2, <1>3, <1>5, <1>6
  <2> QED BY <1>2, <1>7, <1>12, <2>1 DEF TypeOK
<1>18. Accepting' /\ Thread'
  BY <1>2, <1>7 DEF Accepting, Thread, Over
<1> QED BY <1>14, <1>15, <1>16, <1>17, <1>18 DEF IInv

\* Stop() comes back: everything it can reach is deleted, and that is all.
LEMMA JoinedStep ==
  ASSUME ServerAssumption, IInv, StopJoined
  PROVE  IInv' /\ alive' = {}
<1>1. /\ TypeOK /\ OneOwner /\ CountsBounded /\ Accepting
      /\ alive = (ConnLst \union HandedOver \union {NextConn}) \ {None}
  BY DEF IInv, OneOwner
<1>2. /\ caller' \in {"returned", "crashed"} /\ thread' = "none"
      /\ alive' = alive \ (ConnLst \union HandedOver \union {NextConn})
      /\ ConnLst' = {} /\ NextConn' = None
      /\ UNCHANGED <<IsRunning, TotalConnCount, TotalRespCount, BaseRespCount,
                     ConnCount, ctxStopped, accept, timer, stopPosted,
                     graceful, conn, served>>
  BY DEF StopJoined
<1>3. HandedOver' = {} /\ alive' = {}
  BY <1>1, <1>2 DEF HandedOver
<1>4. OneOwner' /\ Waiting' /\ Handed'
  BY <1>2, <1>3 DEF OneOwner, Waiting, Handed
<1>5. ResponsesAccounted' /\ CountsBounded'
  BY <1>1, <1>2 DEF ResponsesAccounted, CountsBounded
<1>6. TypeOK'
  BY <1>1, <1>2, <1>3 DEF TypeOK
<1>7. Accepting' /\ Thread'
  BY <1>1, <1>2 DEF Accepting, Thread, Over
<1> QED BY <1>3, <1>4, <1>5, <1>6, <1>7 DEF IInv

-----------------------------------------------------------------------------
(* The server.                                                             *)

\* The invariant holds at first, and every handler and every step of Stop()
\* keeps it.
LEMMA Inductive == Spec => []IInv
<1>1. ASSUME Init PROVE IInv
  <2>1. Cardinality(Conns) \in Nat /\ NewHttp \in ConnRecord /\ NewHttp.ResponseCount = 0
    BY ServerAssumption, FS_CardinalityType, NewRecord DEF ServerAssumption
  <2>2. TypeOK
    <3>1. conn \in [Conns -> ConnRecord]
      BY <1>1, <2>1 DEF Init
    <3>2. 0 \in 0 .. MaxAccepts /\ 0 \in 0 .. MaxResponses /\ 0 \in 0 .. Cardinality(Conns)
      BY <2>1, ServerAssumption DEF ServerAssumption
    <3> QED BY <1>1, <3>1, <3>2 DEF Init, TypeOK
  <2>3. HandedOver = {}
    BY <1>1 DEF Init, HandedOver
  <2>4. OneOwner /\ Waiting /\ Handed /\ Accepting /\ Thread
    BY <1>1, <2>3, ServerAssumption DEF Init, OneOwner, Waiting, Handed, Accepting, Thread, Over
  <2>5. Cardinality(Counted(conn, {})) = 0
    BY CountNone
  <2>6. ResponsesAccounted /\ CountsBounded
    BY <1>1, <2>1, <2>5 DEF Init, ResponsesAccounted, Responses, CountsBounded
  <2> QED BY <2>2, <2>4, <2>6 DEF IInv
<1>2. ASSUME IInv, [Next]_vars PROVE IInv'
  <2> USE ServerAssumption
  <2>1. ASSUME NEW outcome \in {"ok", "error"}, AcceptCompletes(outcome) PROVE IInv'
    BY <1>2, <2>1, StillStep
  <2>2. CASE TimerExpires \/ OnTimerAborted \/ ThreadStarts \/ ThreadExits
             \/ StopCalled \/ StopLocked \/ StopForced
    BY <1>2, <2>2, StillStep
  <2>3. CASE OnAcceptStarted
    BY <1>2, <2>3, StartedStep
  <2>4. CASE OnAcceptRefused \/ OnAcceptError
    BY <1>2, <2>4, AcceptStep
  <2>5. CASE OnTimer
    BY <1>2, <2>5, TimerStep
  <2>6. CASE StopInternal
    BY <1>2, <2>6, StopInternalStep
  <2>7. ASSUME NEW c \in Conns, ConnHandler(c) PROVE IInv'
    BY <1>2, <2>7, LocalStep, UpgradeStep DEF ConnHandler
  <2>8. CASE Run
    BY <1>2, <2>8, RunStep
  <2>9. CASE StopJoined
    BY <1>2, <2>9, JoinedStep
  <2>10. CASE UNCHANGED vars
    <3>1. UNCHANGED <<IsRunning, ConnLst, NextConn, TotalConnCount, TotalRespCount,
                      BaseRespCount, ConnCount, thread, ctxStopped, accept, timer, stopPosted,
                      caller, graceful, alive, conn, served>>
      BY <2>10 DEF vars, serverVars, ctxVars, connVars
    <3>2. Responses(ConnLst)' = Responses(ConnLst) /\ HandedOver' = HandedOver
      BY <3>1 DEF Responses, HandedOver
    <3> QED BY <1>2, <3>1, <3>2 DEF IInv, TypeOK, OneOwner, Waiting, Handed, ResponsesAccounted,
                                    CountsBounded, Accepting, Thread, Over
  <2> QED BY <1>2, <2>1, <2>2, <2>3, <2>4, <2>5, <2>6, <2>7, <2>8, <2>9, <2>10
      DEF Next, ServerHandler, StopStep
<1> QED BY <1>1, <1>2, PTL DEF Spec

\* Every variable keeps its type: no counter exceeds what clients have done.
THEOREM TypeCorrect == Spec => []TypeOK
<1>1. IInv => TypeOK
  BY DEF IInv
<1> QED BY <1>1, Inductive, PTL

\* Every connection object has one owner, through accept, upgrade, deletion and
\* Stop(): none leaks, none is deleted twice or reached after its deletion.
THEOREM OwnedOnce == Spec => []OneOwner
<1>1. IInv => OneOwner
  BY DEF IInv
<1> QED BY <1>1, Inductive, PTL

\* Until Stop() drops the list no response is lost from the count, or counted
\* twice.
THEOREM NoneLost == Spec => []ResponsesAccounted
<1>1. IInv => ResponsesAccounted
  BY DEF IInv
<1> QED BY <1>1, Inductive, PTL

\* No connection is deleted while a handler of its may still run, unless Stop()
\* gave up and returned false.
THEOREM DeletedSafely == Spec => DeletedWhenQuiet
<1>1. IInv /\ [Next]_vars =>
        [\A c \in alive \ alive' : conn[c].busy => caller = "joining" /\ ~graceful]_vars
  <2> SUFFICES ASSUME IInv, Next, NEW c \in alive \ alive', conn[c].busy
               PROVE  caller = "joining" /\ ~graceful
    OBVIOUS
  <2> USE ServerAssumption
  <2>1. /\ TypeOK /\ Owners /\ c \in Conns
        /\ alive = (ConnLst \union HandedOver \union {NextConn}) \ {None}
    BY DEF IInv, Owners, OneOwner, TypeOK
  <2>2. c # NextConn
    BY <2>1, RunningIsListed
  <2>3. CASE OnAcceptStarted
    BY <2>3 DEF OnAcceptStarted
  <2>4. CASE OnAcceptRefused
    BY <2>2, <2>4 DEF OnAcceptRefused, RestartAccept
  <2>5. CASE OnAcceptError
    BY <2>5 DEF OnAcceptError, RestartAccept
  <2>6. CASE OnTimer
    BY <2>6 DEF OnTimer, Stays
  <2>7. CASE Run
    BY <2>7 DEF Run, RestartAccept
  <2>8. CASE StopJoined
    BY <2>8 DEF StopJoined, IInv, Thread
  <2>9. ASSUME NEW d \in Conns, ConnHandler(d) PROVE FALSE
    BY <2>9 DEF ConnHandler, Progress, Respond, Upgrade, Finish, HandlerClosed
  <2>10. CASE \/ \E outcome \in {"ok", "error"} : AcceptCompletes(outcome)
              \/ TimerExpires \/ OnTimerAborted \/ ThreadStarts \/ ThreadExits
              \/ StopCalled \/ StopLocked \/ StopForced \/ StopInternal
    BY <2>10 DEF AcceptCompletes, TimerExpires, OnTimerAborted, ThreadStarts, ThreadExits,
                 StopCalled, StopLocked, StopForced, StopInternal, connVars
  <2> QED BY <2>3, <2>4, <2>5, <2>6, <2>7, <2>8, <2>9, <2>10 DEF Next, ServerHandler, StopStep
<1> QED BY <1>1, Inductive, PTL DEF Spec, DeletedWhenQuiet
=============================================================================
