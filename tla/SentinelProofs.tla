---------------------------- MODULE SentinelProofs ----------------------------
(* Theorems about Sentinel, for every set of callers, workers, groups and          *)
(* documents and any number of faults: that it uses HubProxy as it is specified,   *)
(* that channels are closed after their producers, that connections stay in the    *)
(* pool, and that the web server ends for a reason only.                           *)
EXTENDS Sentinel, HubProxyProofs

USE DEF hubVars, callVars, goVars, netVars, envVars, ghosts

LEMMA SlotForm ==
  /\ \A g \in Goroutine : g[1] \in Caller /\ g[2] \in Slot /\ g = <<g[1], g[2]>>
  /\ \A c \in Caller, s \in Slot : <<c, s>> \in Goroutine /\ <<c, s>>[1] = c /\ <<c, s>>[2] = s
  /\ \A s \in Slot : s \in Nat
BY HubProxyAssumption DEF HubProxyAssumption, Goroutine, Slot

LEMMA CountType == \A m \in ShardCounts \cup {0} : m \in Nat
<1>1. \A m \in ShardCounts : m \in Nat
  BY SentinelAssumption DEF SentinelAssumption
<1> QED BY <1>1

(* The part of the types that the proofs need.                                     *)
CallerTypes ==
  /\ process \in {"up", "exited"}
  /\ shards \in ShardCounts /\ alive \subseteq Endpoint
  /\ pc \in [Caller -> {"idle", "loop", "wait", "returned"}]
  /\ op \in [Caller -> Query \cup Write]
  /\ n \in [Caller -> ShardCounts \cup {0}] /\ i \in [Caller -> Nat]
  /\ expired \in [Caller -> BOOLEAN] /\ closed \in [Caller -> BOOLEAN]

PoolTypes ==
  /\ conns \in [Target -> Seq(ConnState)]
  /\ pool \in [Target -> Nat] /\ \A t \in Target : pool[t] \in 0 .. Len(conns[t])

GoTypes ==
  /\ gpc \in [Goroutine -> Progress]
  /\ target \in [Goroutine -> Target] /\ conn \in [Goroutine -> Nat]

Shape == CallerTypes /\ PoolTypes /\ GoTypes

(* The group a caller asks for exists.                                             *)
LoopIsInGroup ==
  \A c \in Caller : pc[c] = "loop" =>
    i[c] \in Group /\ (op[c] \in Query => n[c] \in ShardCounts /\ i[c] < n[c])

(* A goroutine inside GetGrpcConn or an RPC and the pool's connection: one that is  *)
(* about to be replaced or was is not in use by anyone else.                       *)
Pooled(g) ==
  LET t == target[g]
  IN  /\ gpc[g] \in {"close", "call"} =>
           conn[g] \in DOMAIN conns[t] /\ pool[t] = conn[g]
      /\ gpc[g] = "call"  => ~ConnIs(g, "closed")
      /\ gpc[g] = "close" => ~ConnIs(g, "ready")
      /\ gpc[g] = "dial"  => pool[t] = 0
      /\ gpc[g] \in {"close", "dial"} => ~InUse(g, t)

PoolIsCurrent ==
  process = "up" /\ "shared" \notin upsets =>
    /\ \A g \in Goroutine : Pooled(g)
    /\ \A t \in Target : \A k \in DOMAIN conns[t] : conns[t][k] # "closed" => pool[t] = k

(* What can end the web server leaves a trace in the history.                      *)
Causes ==
  /\ alive # Endpoint => "fault" \in upsets
  /\ \A c \in Caller : expired[c] => "expired" \in upsets
  /\ \A g \in Goroutine :
       gpc[g] \notin {"none", "done"} /\ target[g] = NoEndpoint => HasCause
  /\ ExitHasCause

(* The goroutines that a caller's wait group waits for: those of the groups that a  *)
(* query has not come to as well, and those that a write has started.               *)
Waited(c) ==
  {s \in Slot : IF op[c] \in Query THEN s \in 0 .. n[c] - 1 /\ gpc[<<c, s>>] # "done"
                                   ELSE gpc[<<c, s>>] \notin {"none", "done"}}

Counting(c) == Running(c) /\ (op[c] \in Query \/ pc[c] = "wait")

(* Goroutines are started in the groups that the loop has passed, or all at once.    *)
StartedIn(c, s) ==
  /\ Running(c)
  /\ op[c] \in Query => s \in 0 .. n[c] - 1 /\ (pc[c] = "loop" => s < i[c])
  /\ op[c] \notin Query => pc[c] = "wait"

WaitGroup(c) ==
  /\ pending[c] \in Nat
  /\ Running(c) /\ op[c] \in Query => n[c] \in ShardCounts
  /\ \A s \in Slot : gpc[<<c, s>>] # "none" => StartedIn(c, s)
  /\ Counting(c) => IsFiniteSet(Waited(c)) /\ pending[c] = Cardinality(Waited(c))

WaitGroups == pending = [c \in Caller |-> pending[c]] /\ \A c \in Caller : WaitGroup(c)

Inv == /\ HubInv /\ Shape /\ LoopIsInGroup /\ WaitGroups
       /\ ClosedAfterProducers /\ PoolIsCurrent /\ Causes

------------------------------------------------------------------------------
(* The steps, by who takes them.                                                   *)
CallerStep(c) ==
  \/ \E o \in Query : BeginQuery(c, o)
  \/ \E o \in Write, d \in Written : BeginWrite(c, o, d)
  \/ Find(c) \/ AwaitWatch(c) \/ FindOne(c) \/ SkipGroup(c) \/ NoReplica(c) \/ AskReplicas(c)
  \/ (op[c] \in Query /\ (AskGroup(c) \/ ReturnQuery(c)))
  \/ CloseChannels(c) \/ ReturnWrite(c) \/ Expire(c)

GoStep(g) ==
  \/ Check(g) \/ CloseStale(g) \/ Dial(g) \/ Connect(g)
  \/ ServeWrite(g) \/ ServeQuery(g) \/ Fail(g) \/ Break(g) \/ Send(g) \/ Receive(g)

EnvStep ==
  \/ \E e \in Unsteady : Crash(e) \/ Register(e)
  \/ \E m \in ShardCounts : Resize(m)

LEMMA Steps ==
  ASSUME Next
  PROVE  (\E c \in Caller : CallerStep(c)) \/ (\E g \in Goroutine : GoStep(g)) \/ EnvStep
<1>1. ASSUME NEW c \in Caller, NEW o \in Query, QueryCall(c, o)
      PROVE  CallerStep(c) \/ \E g \in Goroutine : GoStep(g)
  BY <1>1 DEF QueryCall, QueryStep, ProducerStep, GetGrpcConn, QueryAnswered, CallerStep, GoStep
<1>2. ASSUME NEW c \in Caller, NEW o \in Write, WriteCall(c, o)
      PROVE  CallerStep(c) \/ \E g \in Goroutine : GoStep(g)
  BY <1>2 DEF WriteCall, ReplicaStep, GetGrpcConn, CallerStep, GoStep
<1>3. "search" \in Query /\ "count" \in Query /\ "add" \in Write /\ "delete" \in Write
  BY DEF Query, Write
<1>4. ASSUME NEW c \in Caller, Expire(c) PROVE CallerStep(c)
  BY <1>4 DEF CallerStep
<1> QED BY <1>1, <1>2, <1>3, <1>4 DEF Next, Search, Count, AddDoc, DeleteDoc, EnvStep

(* A goroutine leaves the callers and the proxy alone, ...                          *)
LEMMA GoFrame ==
  ASSUME NEW g \in Goroutine, GoStep(g)
  PROVE  /\ process = "up"
         /\ UNCHANGED hubVars \/ Elsewhere
         /\ UNCHANGED <<pc, op, n, i, expired, closed, target, shards, alive>>
BY DEF GoStep, Check, CloseStale, Dial, Connect, ServeWrite, ServeQuery, Served, Fail, Break,
       Send, Receive

(* ... and once it is done, or before it is started, it stays so.                   *)
LEMMA GoProgress ==
  ASSUME Shape, NEW g \in Goroutine, GoStep(g)
  PROVE  /\ gpc' \in [Goroutine -> Progress]
         /\ \A h \in Goroutine \ {g} : gpc'[h] = gpc[h]
         /\ gpc'[g] # gpc[g] =>
              gpc[g] \notin {"none", "done"} /\ gpc'[g] \notin {"none", "check"}
BY DEF GoStep, Check, CloseStale, Dial, Connect, ServeWrite, ServeQuery, Served, Fail, Failed,
       Break, Send, Receive, Go, Done, Shape, GoTypes, Progress

------------------------------------------------------------------------------
(* The proxy: every step is one of its own or leaves it alone.                     *)
LEMMA HubNextStep ==
  ASSUME LoopIsInGroup, Next
  PROVE  [HubNext]_hubVars
<1>1. ASSUME NEW c \in Caller, CallerStep(c) PROVE [HubNext]_hubVars
  <2>1. CASE \E o \in Query : BeginQuery(c, o)
    BY <2>1 DEF BeginQuery, ReadsNoGroup, HubNext
  <2>2. CASE \E o \in Write, d \in Written : BeginWrite(c, o, d)
    BY <2>2 DEF BeginWrite, ReadsNoGroup, HubNext
  <2>3. CASE Find(c) \/ AwaitWatch(c)
    BY <2>3 DEF Find, AwaitWatch, LoopIsInGroup, HubNext, HubStep
  <2>4. CASE FindOne(c)
    BY <2>4 DEF FindOne, HubNext, HubStep
  <2>5. CASE SkipGroup(c) \/ AskGroup(c) \/ NoReplica(c) \/ AskReplicas(c)
    BY <2>5 DEF SkipGroup, AskGroup, NextGroup, NoReplica, AskReplicas, HubNext, HubStep
  <2>6. CASE CloseChannels(c) \/ ReturnQuery(c) \/ ReturnWrite(c) \/ Expire(c)
    BY <2>6 DEF CloseChannels, ReturnQuery, ReturnWrite, Expire
  <2> QED BY <1>1, <2>1, <2>2, <2>3, <2>4, <2>5, <2>6 DEF CallerStep
<1>2. ASSUME NEW g \in Goroutine, GoStep(g) PROVE [HubNext]_hubVars
  BY <1>2, GoFrame DEF HubNext
<1>3. ASSUME EnvStep PROVE [HubNext]_hubVars
  BY <1>3 DEF EnvStep, Crash, Register, Resize, Fault, HubNext
<1> QED BY <1>1, <1>2, <1>3, Steps

------------------------------------------------------------------------------
(* The types.                                                                       *)
LEMMA CallerShape ==
  ASSUME Inv, NEW c \in Caller, CallerStep(c)
  PROVE  CallerTypes' /\ PoolTypes' /\ LoopIsInGroup'
<1> USE SentinelAssumption DEF SentinelAssumption
<1>1. ASSUME NEW o \in Query, BeginQuery(c, o)
      PROVE  CallerTypes' /\ PoolTypes' /\ LoopIsInGroup'
  <2>1. /\ pc' = [pc EXCEPT ![c] = pc'[c]] /\ pc'[c] \in {"loop", "returned"}
        /\ op' = [op EXCEPT ![c] = o] /\ i' = [i EXCEPT ![c] = 0]
        /\ n' = [n EXCEPT ![c] = n'[c]] /\ n'[c] \in {0, shards}
        /\ expired' = [expired EXCEPT ![c] = FALSE] /\ closed' = [closed EXCEPT ![c] = FALSE]
        /\ pc'[c] = "loop" => n'[c] = shards /\ shards > 0
        /\ UNCHANGED <<process, envVars, netVars>>
    BY <1>1 DEF BeginQuery, Begin, ReadsNoGroup, Inv, Shape, CallerTypes
  <2>2. shards \in ShardCounts /\ shards \in Nat /\ o \in Query \cup Write
    BY DEF Inv, Shape, CallerTypes
  <2>3. CallerTypes' /\ PoolTypes'
    <3>1. /\ n'[c] \in ShardCounts \cup {0} /\ n' = [n EXCEPT ![c] = n'[c]]
          /\ n \in [Caller -> ShardCounts \cup {0}]
      BY <2>1, <2>2 DEF Inv, Shape, CallerTypes
    <3>2. n' \in [Caller -> ShardCounts \cup {0}]
      BY <3>1
    <3>3. pc' \in [Caller -> {"idle", "loop", "wait", "returned"}]
      BY <2>1 DEF Inv, Shape, CallerTypes
    <3>4. /\ op' \in [Caller -> Query \cup Write] /\ i' \in [Caller -> Nat]
          /\ expired' \in [Caller -> BOOLEAN] /\ closed' \in [Caller -> BOOLEAN]
      BY <2>1, <2>2 DEF Inv, Shape, CallerTypes
    <3> QED BY <2>1, <3>2, <3>3, <3>4 DEF Inv, Shape, CallerTypes, PoolTypes
  <2>4. \A a \in Caller : pc'[a] = "loop" =>
          IF a = c THEN i'[a] = 0 /\ n'[a] = shards /\ shards > 0
                   ELSE /\ pc[a] = "loop" /\ i'[a] = i[a] /\ n'[a] = n[a] /\ op'[a] = op[a]
    BY <2>1 DEF Inv, Shape, CallerTypes
  <2>5. LoopIsInGroup'
    BY <2>2, <2>4, HubProxyAssumption DEF HubProxyAssumption, Inv, LoopIsInGroup
  <2> QED BY <2>3, <2>5
<1>2. ASSUME NEW o \in Write, NEW d \in Written, BeginWrite(c, o, d)
      PROVE  CallerTypes' /\ PoolTypes' /\ LoopIsInGroup'
  <2>1. shards > 0 => GroupIndex(d) \in Group /\ GroupIndex(d) \in Nat
    <3> HAVE shards > 0
    <3>1. Hash[d] \in Nat /\ shards \in Nat
      BY DEF Inv, Shape, CallerTypes
    <3>2. Hash[d] % shards \in 0 .. shards - 1
      BY <3>1
    <3> QED BY <3>1, <3>2 DEF GroupIndex, Inv, Shape, CallerTypes
  <2>2. /\ pc' = [pc EXCEPT ![c] = pc'[c]] /\ pc'[c] \in {"loop", pc[c]} /\ pc[c] # "loop"
        /\ op' = [op EXCEPT ![c] = o] /\ n' = [n EXCEPT ![c] = 0]
        /\ i' = [i EXCEPT ![c] = i'[c]] /\ i'[c] \in Nat
        /\ expired' = [expired EXCEPT ![c] = FALSE] /\ closed' = [closed EXCEPT ![c] = FALSE]
        /\ pc'[c] = "loop" => i'[c] \in Group
        /\ process' \in {"up", "exited"} /\ UNCHANGED <<envVars, netVars>>
    BY <1>2, <2>1 DEF BeginWrite, Begin, Running, Inv, Shape, CallerTypes
  <2>3. o \notin Query
    BY DEF Query, Write
  <2>4. CallerTypes' /\ PoolTypes'
    <3>1. pc' \in [Caller -> {"idle", "loop", "wait", "returned"}]
      BY <2>2 DEF Inv, Shape, CallerTypes
    <3>2. i' \in [Caller -> Nat] /\ n' \in [Caller -> ShardCounts \cup {0}]
      BY <2>2 DEF Inv, Shape, CallerTypes
    <3>3. op' \in [Caller -> Query \cup Write]
      BY <2>2 DEF Inv, Shape, CallerTypes
    <3>4. expired' \in [Caller -> BOOLEAN] /\ closed' \in [Caller -> BOOLEAN]
      BY <2>2 DEF Inv, Shape, CallerTypes
    <3> QED BY <2>2, <3>1, <3>2, <3>3, <3>4 DEF Inv, Shape, CallerTypes, PoolTypes
  <2>5. \A a \in Caller : pc'[a] = "loop" =>
          IF a = c THEN op'[a] \notin Query /\ i'[a] \in Group
                   ELSE /\ pc[a] = "loop" /\ i'[a] = i[a] /\ n'[a] = n[a] /\ op'[a] = op[a]
    BY <2>2, <2>3 DEF Inv, Shape, CallerTypes
  <2>6. LoopIsInGroup'
    BY <2>5 DEF Inv, LoopIsInGroup
  <2> QED BY <2>4, <2>6
<1>3. CASE Find(c) \/ AwaitWatch(c) \/ FindOne(c)
  BY <1>3 DEF Find, AwaitWatch, FindOne, Inv, Shape, CallerTypes, PoolTypes, LoopIsInGroup
<1>4. CASE op[c] \in Query /\ (SkipGroup(c) \/ AskGroup(c))
  <2>1. /\ pc' \in [Caller -> {"idle", "loop", "wait", "returned"}]
        /\ i' = [i EXCEPT ![c] = i[c] + 1] /\ pc[c] = "loop"
        /\ \A a \in Caller \ {c} : pc'[a] = pc[a]
        /\ pc'[c] = "loop" => i[c] + 1 # n[c]
        /\ UNCHANGED <<process, op, n, expired, closed, envVars, netVars>>
    BY <1>4 DEF SkipGroup, AskGroup, NextGroup, Inv, Shape, CallerTypes
  <2>2. n[c] \in Nat /\ i[c] \in Nat /\ i[c] < n[c] /\ n[c] \in ShardCounts
    BY <1>4, <2>1 DEF Inv, LoopIsInGroup, Shape, CallerTypes
  <2>3. pc'[c] = "loop" => i[c] + 1 < n[c] /\ i[c] + 1 \in 0 .. n[c] - 1
    BY <2>1, <2>2
  <2> QED BY <2>1, <2>2, <2>3 DEF Inv, Shape, CallerTypes, PoolTypes, LoopIsInGroup
<1>5. CASE NoReplica(c) \/ AskReplicas(c)
  <2>1. /\ pc' = [pc EXCEPT ![c] = "returned"] \/ pc' = [pc EXCEPT ![c] = "wait"]
        /\ UNCHANGED <<process, op, n, i, expired, closed, envVars, netVars>>
    BY <1>5 DEF NoReplica, AskReplicas
  <2>2. /\ pc' \in [Caller -> {"idle", "loop", "wait", "returned"}]
        /\ \A a \in Caller : pc'[a] = "loop" => pc[a] = "loop"
    BY <2>1 DEF Inv, Shape, CallerTypes
  <2> QED BY <2>1, <2>2 DEF Inv, Shape, CallerTypes, PoolTypes, LoopIsInGroup
<1>6. CASE CloseChannels(c) \/ Expire(c)
  <2>1. /\ UNCHANGED <<process, pc, op, n, i, envVars, netVars>>
        /\ \/ closed' = [closed EXCEPT ![c] = TRUE] /\ UNCHANGED expired
           \/ expired' = [expired EXCEPT ![c] = TRUE] /\ UNCHANGED closed
    BY <1>6 DEF CloseChannels, Expire
  <2>2. closed' \in [Caller -> BOOLEAN] /\ expired' \in [Caller -> BOOLEAN]
    BY <2>1 DEF Inv, Shape, CallerTypes
  <2> QED BY <2>1, <2>2 DEF Inv, Shape, CallerTypes, PoolTypes, LoopIsInGroup
<1>7. CASE ReturnQuery(c) \/ ReturnWrite(c)
  <2>1. /\ pc' = [pc EXCEPT ![c] = "returned"]
        /\ UNCHANGED <<process, op, n, i, expired, closed, envVars, netVars>>
    BY <1>7 DEF ReturnQuery, ReturnWrite
  <2> QED BY <2>1 DEF Inv, Shape, CallerTypes, PoolTypes, LoopIsInGroup
<1>8. SkipGroup(c) => op[c] \in Query
  BY DEF SkipGroup
<1> QED BY <1>1, <1>2, <1>3, <1>4, <1>5, <1>6, <1>7, <1>8 DEF CallerStep

(* What a caller does to the goroutines: it starts some of its own, leaves one out, *)
(* or forgets them all when it returns.  One that stays as it is keeps its target.  *)
LEMMA CallerProgress ==
  ASSUME Inv, NEW c \in Caller, CallerStep(c)
  PROVE  /\ GoTypes'
         /\ \A g \in Goroutine :
              \/ gpc'[g] = gpc[g] /\ target'[g] = target[g] /\ conn'[g] = conn[g]
              \/ g[1] = c /\ pc[c] = "loop" /\ gpc'[g] = "done"
              \/ g[1] = c /\ pc[c] = "loop" /\ gpc'[g] = "check"
                 /\ (target'[g] = NoEndpoint => at[c] = "picked" /\ picked[c] = NoEndpoint)
              \/ g[1] = c /\ pc'[c] = "returned" /\ gpc'[g] = "none"
<1>1. CASE \/ \E o \in Query : BeginQuery(c, o)
           \/ \E o \in Write, d \in Written : BeginWrite(c, o, d)
           \/ Find(c) \/ AwaitWatch(c) \/ FindOne(c) \/ NoReplica(c) \/ CloseChannels(c)
           \/ Expire(c)
  <2>1. UNCHANGED <<gpc, target, conn>>
    BY <1>1 DEF BeginQuery, BeginWrite, Begin, Find, AwaitWatch, FindOne, NoReplica, CloseChannels, Expire
  <2> QED BY <2>1 DEF Inv, Shape, GoTypes
<1>2. CASE SkipGroup(c)
  <2>1. gpc' = [gpc EXCEPT ![<<c, i[c]>>] = "done"] /\ UNCHANGED <<target, conn>> /\ pc[c] = "loop"
    BY <1>2 DEF SkipGroup
  <2>2. gpc' \in [Goroutine -> Progress]
    BY <2>1 DEF Inv, Shape, GoTypes, Progress
  <2> QED BY <2>1, <2>2 DEF Inv, Shape, GoTypes, Goroutine
<1>3. CASE AskGroup(c)
  <2>1. /\ gpc' = [gpc EXCEPT ![<<c, i[c]>>] = "check"] /\ UNCHANGED conn
        /\ target' = [target EXCEPT ![<<c, i[c]>>] = picked[c]]
        /\ pc[c] = "loop" /\ at[c] = "picked"
    BY <1>3 DEF AskGroup
  <2>2. gpc' \in [Goroutine -> Progress] /\ target' \in [Goroutine -> Target]
    BY <2>1 DEF Inv, Shape, GoTypes, Progress, Target, HubInv, HubTypeOK
  <2>3. <<c, i[c]>> \in Goroutine /\ <<c, i[c]>>[1] = c
    BY <2>1 DEF Inv, LoopIsInGroup, Goroutine, Slot
  <2> QED BY <2>1, <2>2, <2>3 DEF Inv, Shape, GoTypes
<1>4. CASE AskReplicas(c)
  <2>1. list[c] \subseteq Endpoint /\ NoEndpoint \notin Endpoint
    BY HubProxyAssumption DEF HubProxyAssumption, Inv, HubInv, HubTypeOK, List
  <2>2. /\ gpc' = [g \in Goroutine |-> IF g[1] = c /\ g[2] \in list[c] THEN "check" ELSE gpc[g]]
        /\ target' = [g \in Goroutine |-> IF g[1] = c /\ g[2] \in list[c] THEN g[2] ELSE target[g]]
        /\ UNCHANGED conn /\ pc[c] = "loop"
    BY <1>4 DEF AskReplicas
  <2> QED BY <2>1, <2>2 DEF Inv, Shape, GoTypes, Progress, Target
<1>5. CASE ReturnQuery(c) \/ ReturnWrite(c)
  <2>1. Forget(c) /\ pc' = [pc EXCEPT ![c] = "returned"]
    BY <1>5 DEF ReturnQuery, ReturnWrite
  <2>2. /\ gpc' = [g \in Goroutine |-> IF g[1] = c THEN "none" ELSE gpc[g]]
        /\ target' = [g \in Goroutine |-> IF g[1] = c THEN NoEndpoint ELSE target[g]]
        /\ conn' = [g \in Goroutine |-> IF g[1] = c THEN 0 ELSE conn[g]]
        /\ pc'[c] = "returned"
    BY <2>1 DEF Forget, Inv, Shape, CallerTypes
  <2> QED BY <2>2 DEF Inv, Shape, GoTypes, Progress, Target
<1> QED BY <1>1, <1>2, <1>3, <1>4, <1>5 DEF CallerStep

(* Changing an element of a sequence.                                               *)
LEMMA ExceptSeqType ==
  ASSUME NEW S, NEW s \in Seq(S), NEW k, NEW x \in S
  PROVE  [s EXCEPT ![k] = x] \in Seq(S) /\ Len([s EXCEPT ![k] = x]) = Len(s)
<1>1. Len(s) \in Nat /\ DOMAIN s = 1 .. Len(s) /\ s \in [1 .. Len(s) -> S]
  OBVIOUS
<1> DEFINE m == Len(s)
           r == [s EXCEPT ![k] = x]
<1>2. r \in [1 .. m -> S]
  BY <1>1
<1> QED BY <1>1, <1>2

(* A goroutine's step keeps the pool's types.                                       *)
LEMMA GoPoolTypes ==
  ASSUME Inv, NEW g \in Goroutine, GoStep(g)
  PROVE  PoolTypes'
<1> DEFINE t == target[g]
<1>1. t \in Target /\ conn[g] \in Nat
  BY DEF Inv, Shape, GoTypes
<1>2. CASE UNCHANGED <<conns, pool>>
  BY <1>2 DEF Inv, Shape, PoolTypes
<1>3. ASSUME NEW state \in ConnState, SetConn(g, state), pool' = pool \/ pool' = [pool EXCEPT ![t] = 0]
      PROVE  PoolTypes'
  <2>1. conns[t] \in Seq(ConnState)
    BY <1>1 DEF Inv, Shape, PoolTypes
  <2>2. conns' = [conns EXCEPT ![t] = [conns[t] EXCEPT ![conn[g]] = state]]
    BY <1>1, <1>3 DEF SetConn, Inv, Shape, PoolTypes
  <2>3. /\ [conns[t] EXCEPT ![conn[g]] = state] \in Seq(ConnState)
        /\ Len([conns[t] EXCEPT ![conn[g]] = state]) = Len(conns[t])
    <3> DEFINE s == conns[t]
               k == conn[g]
    <3>1. s \in Seq(ConnState) /\ state \in ConnState
      BY <1>3, <2>1
    <3> HIDE DEF s, k
    <3>2. [s EXCEPT ![k] = state] \in Seq(ConnState) /\ Len([s EXCEPT ![k] = state]) = Len(s)
      BY <3>1, ExceptSeqType
    <3> QED BY <3>2 DEF s, k
  <2>4. /\ conns'[t] \in Seq(ConnState) /\ Len(conns'[t]) = Len(conns[t])
        /\ \A u \in Target \ {t} : conns'[u] = conns[u]
        /\ conns' \in [Target -> Seq(ConnState)]
    BY <1>1, <2>1, <2>2, <2>3 DEF Inv, Shape, PoolTypes
  <2>5. \A u \in Target : Len(conns'[u]) = Len(conns[u]) /\ pool'[u] \in {0, pool[u]}
    BY <1>1, <1>3, <2>4 DEF Inv, Shape, PoolTypes
  <2>6. pool' \in [Target -> Nat]
    BY <1>1, <1>3 DEF Inv, Shape, PoolTypes
  <2>7. \A u \in Target : Len(conns[u]) \in Nat
    BY DEF Inv, Shape, PoolTypes
  <2>8. \A u \in Target : pool[u] \in 0 .. Len(conns[u])
    BY DEF Inv, Shape, PoolTypes
  <2>9. \A u \in Target : pool'[u] \in 0 .. Len(conns'[u])
    BY <2>5, <2>7, <2>8
  <2> QED BY <2>4, <2>6, <2>9 DEF PoolTypes
<1>4. CASE Dial(g)
  <2>1. /\ conns' = [conns EXCEPT ![t] = Append(conns[t], "idle")]
        /\ pool' = [pool EXCEPT ![t] = Len(conns[t]) + 1]
    BY <1>4 DEF Dial, Inv, Shape, PoolTypes
  <2>2. /\ conns[t] \in Seq(ConnState) /\ "idle" \in ConnState
    BY <1>1 DEF Inv, Shape, PoolTypes, ConnState
  <2>3. /\ Append(conns[t], "idle") \in Seq(ConnState)
        /\ Len(Append(conns[t], "idle")) = Len(conns[t]) + 1
        /\ Len(conns[t]) \in Nat
    BY <2>2
  <2> QED BY <1>1, <2>1, <2>3 DEF Inv, Shape, PoolTypes
<1>5. "idle" \in ConnState /\ "ready" \in ConnState /\ "closed" \in ConnState
  BY DEF ConnState
<1>6. CASE CloseStale(g) \/ Connect(g) \/ Break(g)
  BY <1>3, <1>5, <1>6 DEF CloseStale, Connect, Break
<1>7. CASE Check(g) \/ ServeWrite(g) \/ ServeQuery(g) \/ Fail(g) \/ Send(g) \/ Receive(g)
  BY <1>2, <1>7 DEF Check, ServeWrite, ServeQuery, Fail, Send, Receive
<1> QED BY <1>4, <1>6, <1>7 DEF GoStep

LEMMA GoShape ==
  ASSUME Inv, NEW g \in Goroutine, GoStep(g)
  PROVE  Shape' /\ LoopIsInGroup'
<1>1. conn' \in [Goroutine -> Nat]
  <2>1. target[g] \in Target /\ pool[target[g]] \in Nat /\ Len(conns[target[g]]) + 1 \in Nat
    BY DEF Inv, Shape, GoTypes, PoolTypes
  <2>2. CASE Check(g) \/ Dial(g)
    BY <2>1, <2>2 DEF Check, Dial, Inv, Shape, GoTypes
  <2>3. CASE /\ ~Check(g) /\ ~Dial(g)
    <3>1. UNCHANGED conn
      BY <2>3 DEF GoStep, CloseStale, Connect, ServeWrite, ServeQuery, Fail, Break, Send, Receive
    <3> QED BY <3>1 DEF Inv, Shape, GoTypes
  <2> QED BY <2>2, <2>3
<1>2. process' \in {"up", "exited"}
  BY DEF GoStep, Check, CloseStale, Dial, Connect, ServeWrite, ServeQuery, Served, Fail, Failed,
         Break, Send, Receive, Inv, Shape, CallerTypes
<1> QED BY <1>1, <1>2, GoPoolTypes, GoFrame, GoProgress
           DEF Inv, Shape, CallerTypes, GoTypes, LoopIsInGroup

LEMMA EnvShape ==
  ASSUME Inv, EnvStep
  PROVE  Shape' /\ LoopIsInGroup'
<1>1. ASSUME NEW e \in Unsteady, Crash(e) PROVE Shape'
  <2> DEFINE lost == [k \in DOMAIN conns[e] |-> IF conns[e][k] = "ready" THEN "idle" ELSE conns[e][k]]
  <2>1. e \in Target /\ conns[e] \in Seq(ConnState)
    BY HubProxyAssumption DEF HubProxyAssumption, Target, Inv, Shape, PoolTypes
  <2>2. lost \in Seq(ConnState) /\ Len(lost) = Len(conns[e])
    BY <2>1 DEF ConnState
  <2>3. conns' = [conns EXCEPT ![e] = lost] /\ alive' = alive \ {e}
    BY <1>1, <2>1 DEF Crash, Inv, Shape, PoolTypes
  <2>4. UNCHANGED <<process, shards, callVars, goVars, pool>>
    BY <1>1 DEF Crash, Fault
  <2> HIDE DEF lost
  <2> QED BY <2>1, <2>2, <2>3, <2>4 DEF Inv, Shape, CallerTypes, PoolTypes, GoTypes
<1>2. ASSUME NEW e \in Unsteady, Register(e) PROVE Shape'
  BY <1>2 DEF Register, Inv, Shape, CallerTypes, PoolTypes, GoTypes
<1>3. ASSUME NEW m \in ShardCounts, Resize(m) PROVE Shape'
  BY <1>3 DEF Resize, Fault, Inv, Shape, CallerTypes, PoolTypes, GoTypes
<1>4. UNCHANGED callVars
  BY DEF EnvStep, Crash, Register, Resize, Fault
<1> QED BY <1>1, <1>2, <1>3, <1>4 DEF EnvStep, Inv, LoopIsInGroup

LEMMA InitInv == Init => Inv
<1> SUFFICES ASSUME Init PROVE Inv
  OBVIOUS
<1> USE SentinelAssumption, HubProxyAssumption DEF SentinelAssumption, HubProxyAssumption
<1>1. HubInv
  BY HubInitInv DEF Init
<1>2. CallerTypes /\ LoopIsInGroup /\ ClosedAfterProducers
  BY DEF Init, CallerTypes, LoopIsInGroup, ClosedAfterProducers, Running, Query
<1>3. PoolTypes
  <2>1. <<>> \in Seq(ConnState) /\ Len(<<>>) = 0
    OBVIOUS
  <2>2. conns = [t \in Target |-> <<>>] /\ pool = [t \in Target |-> 0]
    BY DEF Init
  <2> QED BY <2>1, <2>2 DEF PoolTypes
<1>4. GoTypes
  BY DEF Init, GoTypes, Progress, Target
<1>5. PoolIsCurrent
  BY DEF Init, PoolIsCurrent, Pooled, InUse
<1>6. Causes
  BY DEF Init, Causes, ExitHasCause
<1>7. WaitGroups
  BY SlotForm DEF Init, WaitGroups, WaitGroup, Counting, Running
<1> QED BY <1>1, <1>2, <1>3, <1>4, <1>5, <1>6, <1>7 DEF Inv, Shape

------------------------------------------------------------------------------
(* A caller's step leaves the other callers, the pool and past events alone.        *)
LEMMA CallerFrame ==
  ASSUME Inv, NEW c \in Caller, CallerStep(c)
  PROVE  /\ process = "up" /\ upsets \subseteq upsets'
         /\ UNCHANGED <<conns, pool, alive>>
         /\ \A a \in Caller \ {c} :
              /\ pc'[a] = pc[a] /\ op'[a] = op[a] /\ n'[a] = n[a] /\ i'[a] = i[a]
              /\ pending'[a] = pending[a]
              /\ closed'[a] = closed[a] /\ expired'[a] = expired[a]
<1> USE DEF Inv, Shape, CallerTypes, WaitGroups
<1>1. CASE \/ \E o \in Query : BeginQuery(c, o)
           \/ \E o \in Write, d \in Written : BeginWrite(c, o, d)
  BY <1>1 DEF BeginQuery, BeginWrite, Begin, ReadsNoGroup
<1>2. CASE Find(c) \/ AwaitWatch(c) \/ FindOne(c) \/ SkipGroup(c) \/ AskGroup(c)
  BY <1>2 DEF Find, AwaitWatch, FindOne, SkipGroup, AskGroup, NextGroup
<1>3. CASE NoReplica(c) \/ AskReplicas(c) \/ CloseChannels(c) \/ ReturnQuery(c)
           \/ ReturnWrite(c) \/ Expire(c)
  BY <1>3 DEF NoReplica, AskReplicas, CloseChannels, ReturnQuery, ReturnWrite, Expire
<1> QED BY <1>1, <1>2, <1>3 DEF CallerStep

------------------------------------------------------------------------------
(* The wait groups.  What is counted depends on these.                              *)
LEMMA WaitGroupKept ==
  ASSUME NEW a \in Caller, WaitGroup(a),
         pc'[a] = pc[a], op'[a] = op[a], n'[a] = n[a], i'[a] = i[a], pending'[a] = pending[a],
         \A s \in Slot : /\ gpc'[<<a, s>>] = "none" <=> gpc[<<a, s>>] = "none"
                         /\ gpc'[<<a, s>>] = "done" <=> gpc[<<a, s>>] = "done"
  PROVE  WaitGroup(a)'
<1>1. /\ Running(a)' <=> Running(a)
      /\ Counting(a)' <=> Counting(a)
  BY DEF Running, Counting
<1>2. Waited(a)' = Waited(a)
  BY DEF Waited
<1>3. \A s \in Slot : StartedIn(a, s)' <=> StartedIn(a, s)
  BY <1>1 DEF StartedIn
<1> QED BY <1>1, <1>2, <1>3 DEF WaitGroup

LEMMA StillWaitGroup ==
  ASSUME WaitGroups, UNCHANGED <<pc, op, n, i, pending, gpc>>
  PROVE  WaitGroups'
<1>1. ASSUME NEW a \in Caller PROVE WaitGroup(a)'
  BY WaitGroupKept DEF WaitGroups
<1> QED BY <1>1 DEF WaitGroups

(* One that is done is no longer counted.                                           *)
LEMMA OneLessWaited ==
  ASSUME NEW W, IsFiniteSet(W), NEW k, k = Cardinality(W), NEW s \in W
  PROVE  k - 1 \in Nat /\ IsFiniteSet(W \ {s}) /\ k - 1 = Cardinality(W \ {s})
<1>1. k \in Nat /\ k # 0
  BY FS_CardinalityType, FS_EmptySet
<1>2. IsFiniteSet(W \ {s}) /\ Cardinality(W \ {s}) = k - 1
  BY FS_RemoveElement
<1> QED BY <1>1, <1>2

(* At zero every goroutine that was started is done.                                *)
LEMMA NobodyIsWaitedFor ==
  ASSUME WaitGroups, NEW c \in Caller, pc[c] = "wait", pending[c] = 0
  PROVE  /\ op[c] \in Query => \A g \in Producers(c) : gpc[g] = "done"
         /\ op[c] \notin Query => \A g \in Goroutine : g[1] = c => gpc[g] \in {"none", "done"}
<1>1. IsFiniteSet(Waited(c)) /\ Cardinality(Waited(c)) = 0
  BY DEF WaitGroups, WaitGroup, Counting, Running
<1>2. Waited(c) = {}
  BY <1>1, FS_EmptySet
<1> QED BY <1>2, SlotForm DEF Waited, Producers

(* A query's loop takes a slot, which it counts off at once if it skips the group.   *)
LEMMA GroupWaitGroup ==
  ASSUME Inv, NEW c \in Caller, op[c] \in Query, SkipGroup(c) \/ AskGroup(c)
  PROVE  WaitGroup(c)'
<1> DEFINE s == i[c]
<1>1. /\ WaitGroup(c) /\ Running(c) /\ pc[c] = "loop" /\ n[c] \in ShardCounts /\ n[c] \in Nat
      /\ s \in Nat /\ s < n[c] /\ s \in Slot /\ s \in 0 .. n[c] - 1
  BY CountType DEF SkipGroup, AskGroup, Inv, WaitGroups, Running, LoopIsInGroup, Slot, Shape,
     CallerTypes
<1>2. gpc[<<c, s>>] = "none"
  BY <1>1 DEF WaitGroup, StartedIn
<1>3. /\ pc'[c] = IF s + 1 = n[c] THEN "wait" ELSE "loop"
      /\ i'[c] = s + 1 /\ UNCHANGED <<op, n>>
  BY <1>1 DEF SkipGroup, AskGroup, NextGroup, Inv, Shape, CallerTypes
<1>4. /\ gpc'[<<c, s>>] = IF SkipGroup(c) THEN "done" ELSE "check"
      /\ \A r \in Slot \ {s} : gpc'[<<c, r>>] = gpc[<<c, r>>]
  <2>1. <<c, s>> \in Goroutine /\ \A r \in Slot \ {s} : <<c, r>> \in Goroutine /\ <<c, r>> # <<c, s>>
    BY <1>1, SlotForm
  <2>2. gpc' = [gpc EXCEPT ![<<c, s>>] = IF SkipGroup(c) THEN "done" ELSE "check"]
    BY DEF SkipGroup, AskGroup
  <2> QED BY <2>1, <2>2 DEF Inv, Shape, GoTypes
<1>5. pending'[c] = IF SkipGroup(c) THEN pending[c] - 1 ELSE pending[c]
  BY DEF SkipGroup, AskGroup, Inv, WaitGroups
<1>6. /\ IsFiniteSet(Waited(c)) /\ pending[c] = Cardinality(Waited(c)) /\ s \in Waited(c)
      /\ pending[c] \in Nat
  BY <1>1, <1>2 DEF WaitGroup, Counting, Waited
<1>7. Waited(c)' = IF SkipGroup(c) THEN Waited(c) \ {s} ELSE Waited(c)
  BY <1>1, <1>2, <1>3, <1>4 DEF Waited
<1>8. \A r \in Slot : gpc'[<<c, r>>] # "none" => StartedIn(c, r)'
  <2> SUFFICES ASSUME NEW r \in Slot, gpc'[<<c, r>>] # "none" PROVE StartedIn(c, r)'
    OBVIOUS
  <2>1. r \in 0 .. n[c] - 1 /\ r <= s
    BY <1>1, <1>4, SlotForm DEF WaitGroup, StartedIn
  <2> QED BY <1>1, <1>3, <2>1 DEF StartedIn, Running
<1>9. pending'[c] \in Nat /\ IsFiniteSet(Waited(c)') /\ pending'[c] = Cardinality(Waited(c)')
  BY <1>5, <1>6, <1>7, OneLessWaited
<1> QED BY <1>1, <1>3, <1>8, <1>9 DEF WaitGroup

(* A write starts a goroutine for each endpoint of its list, and counts them.        *)
LEMMA ReplicaWaitGroup ==
  ASSUME Inv, NEW c \in Caller, AskReplicas(c)
  PROVE  WaitGroup(c)'
<1>1. list[c] \in SUBSET Endpoint /\ IsFiniteSet(list[c]) /\ list[c] \subseteq Slot
  <2>1. list[c] \in SUBSET Endpoint
    BY DEF Inv, HubInv, HubTypeOK, List
  <2> QED BY <2>1, HubProxyAssumption, FS_Subset DEF HubProxyAssumption, Slot
<1>2. /\ pc[c] = "loop" /\ pc'[c] = "wait" /\ op[c] \notin Query /\ op'[c] = op[c]
      /\ pending'[c] = Cardinality(list[c])
  BY DEF AskReplicas, Query, Write, Inv, Shape, CallerTypes, WaitGroups
<1>3. \A s \in Slot : gpc[<<c, s>>] = "none"
  BY <1>2 DEF Inv, WaitGroups, WaitGroup, StartedIn
<1>4. \A s \in Slot : gpc'[<<c, s>>] = IF s \in list[c] THEN "check" ELSE "none"
  BY <1>3, SlotForm DEF AskReplicas
<1>5. Waited(c)' = list[c]
  BY <1>1, <1>2, <1>4 DEF Waited
<1>6. Cardinality(list[c]) \in Nat
  BY <1>1, FS_CardinalityType
<1> QED BY <1>1, <1>2, <1>5, <1>6 DEF WaitGroup, StartedIn, Running

LEMMA BeginWaitGroup ==
  ASSUME Inv, NEW c \in Caller,
         (\E o \in Query : BeginQuery(c, o)) \/ (\E o \in Write, d \in Written : BeginWrite(c, o, d))
  PROVE  WaitGroup(c)'
<1>1. /\ ~Running(c) /\ UNCHANGED gpc /\ WaitGroup(c)
  BY DEF BeginQuery, BeginWrite, Begin, Inv, WaitGroups
<1>2. \A s \in Slot : gpc'[<<c, s>>] = "none"
  BY <1>1 DEF WaitGroup, StartedIn
<1>3. CASE pc'[c] = "loop" /\ \E o \in Query : BeginQuery(c, o)
  <2>1. /\ op'[c] \in Query /\ n'[c] = shards /\ pending'[c] = shards /\ shards > 0
        /\ shards \in ShardCounts
    BY <1>3 DEF BeginQuery, Begin, Inv, Shape, CallerTypes, WaitGroups
  <2>2. shards \in Nat /\ 0 .. shards - 1 \subseteq Slot
    BY <2>1, CountType, SentinelAssumption DEF SentinelAssumption, Slot
  <2>3. Waited(c)' = 0 .. shards - 1
    BY <1>2, <2>1, <2>2 DEF Waited
  <2>4. IsFiniteSet(0 .. shards - 1) /\ Cardinality(0 .. shards - 1) = shards
    <3>1. 0 \in Int /\ shards - 1 \in Int /\ ~(0 > shards - 1) /\ shards - 1 - 0 + 1 = shards
      BY <2>1, <2>2
    <3> QED BY <3>1, FS_Interval, Zenon
  <2> QED BY <1>2, <2>1, <2>2, <2>3, <2>4 DEF WaitGroup
<1>4. CASE ~(pc'[c] = "loop" /\ \E o \in Query : BeginQuery(c, o))
  <2>1. /\ pending' = pending
        /\ \/ pc'[c] \notin {"loop", "wait"}
           \/ pc'[c] = "loop" /\ op'[c] \in Write
    BY <1>1, <1>4 DEF BeginQuery, BeginWrite, Begin, Running, Inv, Shape, CallerTypes
  <2>2. \A o \in Write : o \notin Query
    BY DEF Query, Write
  <2> QED BY <1>1, <1>2, <2>1, <2>2 DEF WaitGroup, Running, Counting
<1> QED BY <1>3, <1>4

LEMMA CallerWaitGroup ==
  ASSUME Inv, NEW c \in Caller, CallerStep(c)
  PROVE  WaitGroups'
<1>1. pending' = [a \in Caller |-> pending'[a]]
  BY DEF CallerStep, BeginQuery, BeginWrite, Find, AwaitWatch, FindOne, SkipGroup, AskGroup,
     NextGroup, NoReplica, AskReplicas, CloseChannels, ReturnQuery, ReturnWrite, Expire, Inv, WaitGroups
<1>2. ASSUME NEW a \in Caller \ {c} PROVE WaitGroup(a)'
  <2>1. \A s \in Slot : gpc'[<<a, s>>] = gpc[<<a, s>>]
    BY SlotForm, CallerProgress
  <2> QED BY <2>1, CallerFrame, WaitGroupKept DEF Inv, WaitGroups
<1>3. WaitGroup(c)'
  <2>1. CASE Find(c) \/ AwaitWatch(c) \/ FindOne(c) \/ CloseChannels(c) \/ Expire(c)
    <3>1. UNCHANGED <<pc, op, n, i, pending, gpc>>
      BY <2>1 DEF Find, AwaitWatch, FindOne, CloseChannels, Expire
    <3> QED BY <3>1, WaitGroupKept DEF Inv, WaitGroups
  <2>2. CASE NoReplica(c)
    <3>1. /\ pc[c] = "loop" /\ op[c] \notin Query /\ pc'[c] = "returned"
          /\ UNCHANGED <<pending, gpc>>
      BY <2>2 DEF NoReplica, Query, Write, Inv, Shape, CallerTypes
    <3>2. \A s \in Slot : gpc[<<c, s>>] = "none"
      BY <3>1 DEF Inv, WaitGroups, WaitGroup, StartedIn
    <3> QED BY <3>1, <3>2 DEF Inv, WaitGroups, WaitGroup, Counting, Running
  <2>3. CASE ReturnQuery(c) \/ ReturnWrite(c)
    <3>1. /\ pc'[c] = "returned" /\ UNCHANGED pending
          /\ gpc' = [g \in Goroutine |-> IF g[1] = c THEN "none" ELSE gpc[g]]
      BY <2>3 DEF ReturnQuery, ReturnWrite, Forget, Inv, Shape, CallerTypes
    <3>2. \A s \in Slot : gpc'[<<c, s>>] = "none"
      BY <3>1, SlotForm
    <3> QED BY <3>1, <3>2 DEF Inv, WaitGroups, WaitGroup, Counting, Running
  <2>4. SkipGroup(c) => op[c] \in Query
    BY DEF SkipGroup
  <2> QED BY <2>1, <2>2, <2>3, <2>4, GroupWaitGroup, ReplicaWaitGroup, BeginWaitGroup DEF CallerStep
<1> QED BY <1>1, <1>2, <1>3 DEF WaitGroups

(* A goroutine that ends, and no other, counts itself off.                          *)
LEMMA GoCountsOff ==
  ASSUME Inv, NEW g \in Goroutine, GoStep(g)
  PROVE  \/ pending' = pending /\ (gpc'[g] = "done" <=> gpc[g] = "done")
         \/ /\ gpc[g] \notin {"none", "done"} /\ gpc'[g] = "done"
            /\ pending' = [pending EXCEPT ![g[1]] = pending[g[1]] - 1]
<1> USE DEF Inv, Shape, GoTypes
<1>1. CASE Check(g) \/ CloseStale(g) \/ Dial(g) \/ Connect(g) \/ Receive(g)
  BY <1>1 DEF Check, CloseStale, Dial, Connect, Receive, Go
<1>2. CASE ServeWrite(g) \/ ServeQuery(g)
  BY <1>2 DEF ServeWrite, ServeQuery, Served, Go, Done
<1>3. CASE Fail(g) \/ Break(g)
  BY <1>3 DEF Fail, Break, Failed, Go, Done
<1>4. CASE Send(g)
  BY <1>4 DEF Send, Go, Done
<1> QED BY <1>1, <1>2, <1>3, <1>4 DEF GoStep

LEMMA GoWaitGroup ==
  ASSUME Inv, NEW g \in Goroutine, GoStep(g)
  PROVE  WaitGroups'
<1> DEFINE c == g[1]
<1>1. UNCHANGED <<pc, op, n, i>> /\ c \in Caller /\ g[2] \in Slot /\ g = <<c, g[2]>>
  BY GoFrame, SlotForm
<1>2. \A h \in Goroutine \ {g} : gpc'[h] = gpc[h]
  BY GoProgress DEF Inv
<1>3. gpc'[g] = "none" <=> gpc[g] = "none"
  BY GoProgress DEF Inv
<1>4. CASE pending' = pending /\ (gpc'[g] = "done" <=> gpc[g] = "done")
  <2>1. ASSUME NEW a \in Caller PROVE WaitGroup(a)'
    <3>1. \A s \in Slot : /\ gpc'[<<a, s>>] = "none" <=> gpc[<<a, s>>] = "none"
                          /\ gpc'[<<a, s>>] = "done" <=> gpc[<<a, s>>] = "done"
      BY <1>2, <1>3, <1>4, SlotForm
    <3> QED BY <1>1, <1>4, <3>1, WaitGroupKept DEF Inv, WaitGroups
  <2> QED BY <1>4, <2>1 DEF Inv, WaitGroups
<1>5. CASE /\ gpc[g] \notin {"none", "done"} /\ gpc'[g] = "done"
           /\ pending' = [pending EXCEPT ![c] = pending[c] - 1]
  <2>1. pending' = [a \in Caller |-> pending'[a]] /\ pending'[c] = pending[c] - 1
        /\ \A a \in Caller \ {c} : pending'[a] = pending[a]
    BY <1>1, <1>5 DEF Inv, WaitGroups
  <2>2. ASSUME NEW a \in Caller \ {c} PROVE WaitGroup(a)'
    <3>1. \A s \in Slot : gpc'[<<a, s>>] = gpc[<<a, s>>]
      BY <1>2, SlotForm
    <3> QED BY <1>1, <2>1, <3>1, WaitGroupKept DEF Inv, WaitGroups
  <2>3. WaitGroup(c) /\ StartedIn(c, g[2])
    BY <1>1, <1>5 DEF Inv, WaitGroups, WaitGroup
  <2>4. Counting(c) /\ g[2] \in Waited(c)
    BY <1>1, <1>5, <2>3 DEF StartedIn, Counting, Waited
  <2>5. \A s \in Slot \ {g[2]} : gpc'[<<c, s>>] = gpc[<<c, s>>]
    BY <1>1, <1>2, SlotForm
  <2>6. Waited(c)' = Waited(c) \ {g[2]}
    BY <1>1, <1>5, <2>5 DEF Waited
  <2>7. pending'[c] \in Nat /\ IsFiniteSet(Waited(c)') /\ pending'[c] = Cardinality(Waited(c)')
    BY <2>1, <2>3, <2>4, <2>6, OneLessWaited DEF WaitGroup
  <2>8. \A s \in Slot : gpc'[<<c, s>>] # "none" => StartedIn(c, s)'
    BY <1>1, <2>3, <2>5 DEF WaitGroup, StartedIn, Running
  <2>9. WaitGroup(c)'
    BY <1>1, <2>3, <2>7, <2>8 DEF WaitGroup, Running
  <2> QED BY <2>1, <2>2, <2>9 DEF WaitGroups
<1> QED BY <1>4, <1>5, GoCountsOff

LEMMA EnvWaitGroup == Inv /\ EnvStep => WaitGroups'
<1> SUFFICES ASSUME Inv, EnvStep PROVE WaitGroups'
  OBVIOUS
<1>1. UNCHANGED <<pc, op, n, i, pending, gpc>>
  BY DEF EnvStep, Crash, Register, Resize, Fault
<1> QED BY <1>1, StillWaitGroup DEF Inv

------------------------------------------------------------------------------
(* Channels: a caller closes them when its wait group is at zero, and so when its    *)
(* producers are done, ...                                                          *)
LEMMA CallerCloses ==
  ASSUME Inv, NEW c \in Caller, CallerStep(c)
  PROVE  ClosedAfterProducers'
<1> SUFFICES ASSUME NEW a \in Caller, Running(a)', op'[a] \in Query, closed'[a]
             PROVE  pc'[a] = "wait" /\ \A g \in Producers(a)' : gpc'[g] = "done"
  BY DEF ClosedAfterProducers
<1>1. CASE a # c
  <2>1. /\ pc'[a] = pc[a] /\ op'[a] = op[a] /\ n'[a] = n[a] /\ closed'[a] = closed[a]
    BY <1>1, CallerFrame
  <2>2. \A g \in Goroutine : g[1] = a => gpc'[g] = gpc[g]
    BY <1>1, CallerProgress
  <2>3. Producers(a)' = Producers(a)
    BY <2>1 DEF Producers
  <2> QED BY <2>1, <2>2, <2>3 DEF Inv, ClosedAfterProducers, Running, Producers
<1>2. CASE a = c
  <2>1. CASE \/ \E o \in Query : BeginQuery(c, o)
             \/ \E o \in Write, d \in Written : BeginWrite(c, o, d)
    <3>1. closed' = [closed EXCEPT ![c] = FALSE]
      BY <2>1 DEF BeginQuery, BeginWrite, Begin
    <3> QED BY <1>2, <3>1 DEF Inv, Shape, CallerTypes
  <2>2. CASE Find(c) \/ AwaitWatch(c) \/ FindOne(c) \/ SkipGroup(c) \/ AskGroup(c)
    <3>1. pc[c] = "loop" /\ UNCHANGED <<op, closed>>
      BY <2>2 DEF Find, AwaitWatch, FindOne, SkipGroup, AskGroup, NextGroup
    <3> QED BY <1>2, <3>1 DEF Inv, ClosedAfterProducers, Running
  <2>3. CASE NoReplica(c) \/ AskReplicas(c)
    BY <1>2, <2>3 DEF NoReplica, AskReplicas, Query, Write
  <2>4. CASE CloseChannels(c)
    <3>1. /\ pc[c] = "wait" /\ op[c] \in Query /\ pending[c] = 0
          /\ UNCHANGED <<pc, op, n, gpc>>
      BY <2>4 DEF CloseChannels
    <3>2. \A g \in Producers(c) : gpc[g] = "done"
      BY <3>1, NobodyIsWaitedFor DEF Inv
    <3> QED BY <1>2, <3>1, <3>2 DEF Producers
  <2>5. CASE ReturnQuery(c) \/ ReturnWrite(c)
    BY <1>2, <2>5 DEF ReturnQuery, ReturnWrite, Running, Inv, Shape, CallerTypes
  <2>6. CASE Expire(c)
    <3>1. UNCHANGED <<pc, op, n, closed, gpc>>
      BY <2>6 DEF Expire
    <3> QED BY <1>2, <3>1 DEF Inv, ClosedAfterProducers, Running, Producers
  <2> QED BY <2>1, <2>2, <2>3, <2>4, <2>5, <2>6 DEF CallerStep
<1> QED BY <1>1, <1>2

(* ... and these stay so.                                                           *)
LEMMA GoCloses ==
  ASSUME Inv, NEW g \in Goroutine, GoStep(g)
  PROVE  ClosedAfterProducers'
<1>1. UNCHANGED <<pc, op, n, closed>>
  BY GoFrame
<1>2. \A h \in Goroutine : gpc[h] = "done" => gpc'[h] = "done"
  BY GoProgress DEF Inv
<1> QED BY <1>1, <1>2 DEF Inv, ClosedAfterProducers, Running, Producers

LEMMA EnvCloses == Inv /\ EnvStep => ClosedAfterProducers'
<1> SUFFICES ASSUME Inv, EnvStep PROVE ClosedAfterProducers'
  OBVIOUS
<1>1. UNCHANGED <<pc, op, n, closed, gpc>>
  BY DEF EnvStep, Crash, Register, Resize, Fault
<1> QED BY <1>1 DEF Inv, ClosedAfterProducers, Running, Producers

------------------------------------------------------------------------------
(* The pool.  A caller only starts goroutines, or lets them end.                    *)
LEMMA CallerPool ==
  ASSUME Inv, NEW c \in Caller, CallerStep(c)
  PROVE  PoolIsCurrent'
<1>1. process = "up" /\ upsets \subseteq upsets' /\ UNCHANGED <<conns, pool>>
  BY CallerFrame
<1>2. \A g \in Goroutine :
        \/ gpc'[g] = gpc[g] /\ target'[g] = target[g] /\ conn'[g] = conn[g]
        \/ gpc'[g] \in {"done", "check", "none"}
  BY CallerProgress
<1>3. SUFFICES ASSUME PoolIsCurrent, process = "up", "shared" \notin upsets, NEW g \in Goroutine
               PROVE  Pooled(g)'
  BY <1>1 DEF PoolIsCurrent, Inv
<1>4. CASE gpc'[g] = gpc[g] /\ target'[g] = target[g] /\ conn'[g] = conn[g]
  <2>1. Pooled(g)
    BY <1>3 DEF PoolIsCurrent
  <2>2. InUse(g, target[g])' => InUse(g, target[g])
    BY <1>2, <1>4 DEF InUse
  <2> QED BY <1>1, <1>4, <2>1, <2>2 DEF Pooled, ConnIs
<1>5. CASE gpc'[g] \in {"done", "check", "none"}
  BY <1>5 DEF Pooled
<1> QED BY <1>2, <1>4, <1>5

(* A goroutine looks for a connection ...                                           *)
LEMMA CheckPool ==
  ASSUME Inv, NEW g \in Goroutine, Check(g)
  PROVE  PoolIsCurrent'
<1> DEFINE t == target[g]
           k == pool[t]
           ready == k # 0 /\ conns[t][k] = "ready"
<1>1. /\ process = "up" /\ UNCHANGED <<conns, pool, target>>
      /\ conn' = [conn EXCEPT ![g] = k]
      /\ gpc' = [gpc EXCEPT ![g] = IF k = 0 THEN "dial" ELSE IF ready THEN "call" ELSE "close"]
      /\ upsets' = IF ~ready /\ InUse(g, t) THEN upsets \cup {"shared"} ELSE upsets
  BY DEF Check, Go
<1> HIDE DEF ready
<1>2. t \in Target /\ k \in 0 .. Len(conns[t]) /\ conns[t] \in Seq(ConnState)
  BY DEF Inv, Shape, GoTypes, PoolTypes
<1>d. k # 0 => k \in DOMAIN conns[t]
  BY <1>2
<1>3. /\ gpc'[g] = IF k = 0 THEN "dial" ELSE IF ready THEN "call" ELSE "close"
      /\ conn'[g] = k
      /\ \A h \in Goroutine \ {g} : gpc'[h] = gpc[h] /\ conn'[h] = conn[h]
  BY <1>1 DEF Inv, Shape, GoTypes
<1>4. SUFFICES ASSUME PoolIsCurrent, process = "up", "shared" \notin upsets,
                      ~ready => ~InUse(g, t)
               PROVE  \A h \in Goroutine : Pooled(h)'
  BY <1>1 DEF PoolIsCurrent, Inv
<1>5. Pooled(g)'
  <2>1. InUse(g, t)' = InUse(g, t)
    BY <1>1, <1>3 DEF InUse
  <2>2. ready => k # 0 /\ conns[t][k] = "ready"
    BY DEF ready
  <2>3. k # 0 /\ ~ready => conns[t][k] # "ready"
    BY DEF ready
  <2> QED BY <1>1, <1>d, <1>3, <1>4, <2>1, <2>2, <2>3 DEF Pooled, ConnIs
<1>6. ASSUME NEW h \in Goroutine, h # g PROVE Pooled(h)'
  <2>1. Pooled(h)
    BY <1>4 DEF PoolIsCurrent
  <2>2. gpc[h] \in {"close", "dial"} => target[h] # t
    <3> SUFFICES ASSUME gpc[h] \in {"close", "dial"}, target[h] = t PROVE FALSE
      OBVIOUS
    <3>1. InUse(g, t)
      BY <1>6 DEF InUse
    <3>2. ready
      BY <1>4, <3>1
    <3> QED BY <2>1, <3>2 DEF Pooled, ConnIs, ready
  <2>3. gpc[h] \in {"close", "dial"} => (InUse(h, target[h])' => InUse(h, target[h]))
    BY <1>1, <1>3, <2>2 DEF InUse
  <2> QED BY <1>1, <1>3, <1>6, <2>1, <2>3 DEF Pooled, ConnIs
<1> QED BY <1>5, <1>6

(* ... replaces it while nobody else uses it, ...                                   *)
LEMMA DialPool ==
  ASSUME Inv, NEW g \in Goroutine, CloseStale(g) \/ Dial(g)
  PROVE  PoolIsCurrent'
<1> DEFINE t == target[g]
<1>1. /\ process = "up" /\ UNCHANGED <<target, upsets, process>>
      /\ gpc[g] \in {"close", "dial"}
      /\ gpc' = [gpc EXCEPT ![g] = gpc'[g]] /\ conn' = [conn EXCEPT ![g] = conn'[g]]
  BY DEF CloseStale, Dial, Go, Inv, Shape, GoTypes
<1>2. SUFFICES ASSUME PoolIsCurrent, "shared" \notin upsets PROVE PoolIsCurrent'
  BY <1>1 DEF PoolIsCurrent, Inv
<1>3. Pooled(g) /\ t \in Target /\ conns[t] \in Seq(ConnState) /\ pool[t] \in Nat
  BY <1>1, <1>2 DEF PoolIsCurrent, Inv, Shape, GoTypes, PoolTypes
<1>4. ~InUse(g, t)
  BY <1>1, <1>3 DEF Pooled
<1>5. \A j \in DOMAIN conns[t] : conns[t][j] # "closed" => pool[t] = j
  BY <1>1, <1>2, <1>3 DEF PoolIsCurrent
<1>6. \A h \in Goroutine \ {g} : gpc'[h] = gpc[h] /\ conn'[h] = conn[h]
  BY <1>1 DEF Inv, Shape, GoTypes
<1>7. /\ \A u \in Target \ {t} : conns'[u] = conns[u] /\ pool'[u] = pool[u]
      /\ \A j \in DOMAIN conns'[t] : conns'[t][j] # "closed" => pool'[t] = j
      /\ \/ gpc'[g] = "dial" /\ pool'[t] = 0
         \/ /\ gpc'[g] = "call" /\ conn'[g] \in DOMAIN conns'[t] /\ pool'[t] = conn'[g]
            /\ conns'[t][conn'[g]] # "closed"
  <2>1. CASE CloseStale(g)
    <3>1. /\ conns' = [conns EXCEPT ![t] = [conns[t] EXCEPT ![conn[g]] = "closed"]]
          /\ pool' = [pool EXCEPT ![t] = 0] /\ gpc'[g] = "dial"
      BY <2>1 DEF CloseStale, SetConn, Go, Inv, Shape, PoolTypes, GoTypes
    <3>2. conn[g] = pool[t]
      BY <1>3, <2>1 DEF CloseStale, Pooled
    <3>3. /\ conns'[t] = [conns[t] EXCEPT ![conn[g]] = "closed"] /\ pool'[t] = 0
          /\ \A u \in Target \ {t} : conns'[u] = conns[u] /\ pool'[u] = pool[u]
      BY <1>3, <3>1 DEF Inv, Shape, PoolTypes
    <3>4. \A j \in DOMAIN conns'[t] : conns'[t][j] = "closed"
      BY <1>5, <3>2, <3>3
    <3> QED BY <3>1, <3>3, <3>4
  <2>2. CASE Dial(g)
    <3> DEFINE m == Len(conns[t]) + 1
    <3>1. /\ conns' = [conns EXCEPT ![t] = Append(conns[t], "idle")]
          /\ pool' = [pool EXCEPT ![t] = m] /\ gpc'[g] = "call" /\ conn'[g] = m
      BY <2>2 DEF Dial, Go, Inv, Shape, PoolTypes, GoTypes
    <3>2. pool[t] = 0
      BY <1>3, <2>2 DEF Dial, Pooled
    <3>3. /\ conns'[t] = Append(conns[t], "idle") /\ pool'[t] = m
          /\ \A u \in Target \ {t} : conns'[u] = conns[u] /\ pool'[u] = pool[u]
      BY <1>3, <3>1 DEF Inv, Shape, PoolTypes
    <3>4. /\ DOMAIN conns'[t] = 1 .. m /\ conns'[t][m] = "idle"
          /\ \A j \in 1 .. m : j # m => j \in DOMAIN conns[t] /\ conns'[t][j] = conns[t][j] /\ j # 0
      BY <1>3, <3>3
    <3>5. m \in 1 .. m
      BY <1>3
    <3>6. \A j \in DOMAIN conns'[t] : conns'[t][j] # "closed" => j = m
      BY <1>5, <3>2, <3>4
    <3> HIDE DEF m
    <3> QED BY <3>1, <3>3, <3>4, <3>5, <3>6
  <2> QED BY <2>1, <2>2
<1>8. ASSUME NEW h \in Goroutine PROVE Pooled(h)'
  <2>1. CASE h = g
    <3>1. ~InUse(g, t)'
      BY <1>1, <1>4, <1>6 DEF InUse
    <3> QED BY <1>1, <1>7, <2>1, <3>1 DEF Pooled, ConnIs
  <2>2. CASE h # g /\ target[h] = t
    <3>1. gpc[h] \notin {"close", "dial", "call"}
      BY <1>4, <2>2 DEF InUse
    <3> QED BY <1>6, <2>2, <3>1 DEF Pooled
  <2>3. CASE h # g /\ target[h] # t
    <3>1. Pooled(h) /\ target[h] \in Target
      BY <1>1, <1>2 DEF PoolIsCurrent, Inv, Shape, GoTypes
    <3>2. InUse(h, target[h])' => InUse(h, target[h])
      BY <1>1, <1>6, <2>3 DEF InUse
    <3> QED BY <1>1, <1>6, <1>7, <2>3, <3>1, <3>2 DEF Pooled, ConnIs
  <2> QED BY <2>1, <2>2, <2>3
<1>9. \A u \in Target : \A j \in DOMAIN conns'[u] : conns'[u][j] # "closed" => pool'[u] = j
  BY <1>1, <1>2, <1>7 DEF PoolIsCurrent
<1> QED BY <1>8, <1>9 DEF PoolIsCurrent

(* ... and connects it, or loses it, in an RPC, which leaves it in the pool.        *)
LEMMA UsePool ==
  ASSUME Inv, NEW g \in Goroutine, Connect(g) \/ Break(g)
  PROVE  PoolIsCurrent'
<1> DEFINE t == target[g]
<1>1. /\ process = "up" /\ UNCHANGED <<target, pool, conn>> /\ upsets \subseteq upsets'
      /\ gpc[g] = "call" /\ gpc'[g] \in {"call", "done"}
      /\ \A h \in Goroutine \ {g} : gpc'[h] = gpc[h]
  BY DEF Connect, Break, Failed, Go, Done, Inv, Shape, GoTypes
<1>2. SUFFICES ASSUME PoolIsCurrent, "shared" \notin upsets, process = "up" PROVE PoolIsCurrent'
  BY <1>1 DEF PoolIsCurrent, Inv
<1>3. /\ Pooled(g) /\ t \in Target /\ conns[t] \in Seq(ConnState)
      /\ conn[g] \in DOMAIN conns[t] /\ pool[t] = conn[g] /\ conns[t][conn[g]] # "closed"
  BY <1>1, <1>2 DEF PoolIsCurrent, Pooled, ConnIs, Inv, Shape, GoTypes, PoolTypes
<1>4. PICK state \in {"idle", "ready"} :
        conns' = [conns EXCEPT ![t] = [conns[t] EXCEPT ![conn[g]] = state]]
  BY DEF Connect, Break, SetConn, Inv, Shape, PoolTypes
<1>5. /\ \A u \in Target \ {t} : conns'[u] = conns[u]
      /\ conns'[t] = [conns[t] EXCEPT ![conn[g]] = state]
  BY <1>3, <1>4 DEF Inv, Shape, PoolTypes
<1>6. /\ DOMAIN conns'[t] = DOMAIN conns[t]
      /\ \A j \in DOMAIN conns[t] : conns'[t][j] # "closed" <=> conns[t][j] # "closed"
  BY <1>3, <1>5
<1>7. ASSUME NEW h \in Goroutine PROVE Pooled(h)'
  <2>1. Pooled(h) /\ target[h] \in Target
    BY <1>2 DEF PoolIsCurrent, Inv, Shape, GoTypes
  <2>2. InUse(h, target[h])' => InUse(h, target[h])
    BY <1>1 DEF InUse
  <2>3. CASE target[h] # t
    BY <1>1, <1>5, <2>1, <2>2, <2>3 DEF Pooled, ConnIs
  <2>4. CASE target[h] = t
    <3>1. gpc'[h] \notin {"close", "dial"}
      BY <1>1, <2>1, <2>4 DEF Pooled, InUse
    <3>2. gpc'[h] = "call" => gpc[h] = "call"
      BY <1>1
    <3> QED BY <1>1, <1>6, <2>1, <2>4, <3>1, <3>2 DEF Pooled, ConnIs
  <2> QED BY <2>3, <2>4
<1>8. \A u \in Target : \A j \in DOMAIN conns'[u] : conns'[u][j] # "closed" => pool'[u] = j
  BY <1>1, <1>2, <1>5, <1>6 DEF PoolIsCurrent
<1> QED BY <1>7, <1>8 DEF PoolIsCurrent

(* The other steps of a goroutine do not touch connections.                         *)
LEMMA GoPool ==
  ASSUME Inv, NEW g \in Goroutine, GoStep(g)
  PROVE  PoolIsCurrent'
<1>1. CASE ServeWrite(g) \/ ServeQuery(g) \/ Fail(g) \/ Send(g) \/ Receive(g)
  <2>1. /\ process = "up" /\ UNCHANGED <<target, pool, conn, conns>> /\ upsets \subseteq upsets'
        /\ gpc'[g] \in {"done", "send", gpc[g]}
        /\ \A h \in Goroutine \ {g} : gpc'[h] = gpc[h]
    BY <1>1 DEF ServeWrite, ServeQuery, Served, Fail, Failed, Send, Receive, Go, Done,
       Inv, Shape, GoTypes
  <2>2. SUFFICES ASSUME PoolIsCurrent, "shared" \notin upsets, process = "up",
                        NEW h \in Goroutine
                 PROVE  Pooled(h)'
    BY <2>1 DEF PoolIsCurrent, Inv
  <2>3. Pooled(h) /\ gpc'[h] \in {"done", "send", gpc[h]}
    BY <2>1, <2>2 DEF PoolIsCurrent
  <2>4. InUse(h, target[h])' => InUse(h, target[h])
    BY <2>1 DEF InUse
  <2> QED BY <2>1, <2>3, <2>4 DEF Pooled, ConnIs
<1> QED BY <1>1, CheckPool, DialPool, UsePool DEF GoStep

(* A crash makes connections idle, never closes one.                                *)
LEMMA EnvPool == Inv /\ EnvStep => PoolIsCurrent'
<1> SUFFICES ASSUME Inv, EnvStep PROVE PoolIsCurrent'
  OBVIOUS
<1>1. /\ process = "up" /\ upsets \subseteq upsets' /\ UNCHANGED <<goVars, pool>>
  BY DEF EnvStep, Crash, Register, Resize, Fault
<1>2. \A u \in Target :
        /\ DOMAIN conns'[u] = DOMAIN conns[u]
        /\ \A j \in DOMAIN conns[u] : /\ conns'[u][j] # "closed" <=> conns[u][j] # "closed"
                                      /\ conns'[u][j] = "ready" => conns[u][j] = "ready"
  <2>1. CASE UNCHANGED conns
    BY <2>1
  <2>2. ASSUME NEW e \in Unsteady, Crash(e), NEW u \in Target
        PROVE  /\ DOMAIN conns'[u] = DOMAIN conns[u]
               /\ \A j \in DOMAIN conns[u] :
                    /\ conns'[u][j] # "closed" <=> conns[u][j] # "closed"
                    /\ conns'[u][j] = "ready" => conns[u][j] = "ready"
    <3>1. u # e => conns'[u] = conns[u]
      BY <2>2 DEF Crash, Inv, Shape, PoolTypes
    <3>2. conns'[e] = [k \in DOMAIN conns[e] |->
                         IF conns[e][k] = "ready" THEN "idle" ELSE conns[e][k]]
      BY <2>2, HubProxyAssumption DEF HubProxyAssumption, Crash, Target, Inv, Shape, PoolTypes
    <3> QED BY <3>1, <3>2
  <2>3. UNCHANGED conns \/ \E e \in Unsteady : Crash(e)
    BY DEF EnvStep, Register, Resize
  <2> QED BY <2>1, <2>2, <2>3
<1>3. SUFFICES ASSUME PoolIsCurrent, "shared" \notin upsets, process = "up" PROVE PoolIsCurrent'
  BY <1>1 DEF PoolIsCurrent, Inv
<1>4. ASSUME NEW h \in Goroutine PROVE Pooled(h)'
  <2>1. Pooled(h) /\ target[h] \in Target
    BY <1>3 DEF PoolIsCurrent, Inv, Shape, GoTypes
  <2>2. InUse(h, target[h])' => InUse(h, target[h])
    BY <1>1 DEF InUse
  <2>3. CASE gpc[h] \in {"close", "call"}
    <3>1. conn[h] \in DOMAIN conns[target[h]]
      BY <2>1, <2>3 DEF Pooled
    <3> QED BY <1>1, <1>2, <2>1, <2>2, <3>1 DEF Pooled, ConnIs
  <2>4. CASE gpc[h] \notin {"close", "call"}
    BY <1>1, <2>1, <2>2, <2>4 DEF Pooled
  <2> QED BY <2>3, <2>4
<1>5. \A u \in Target : \A j \in DOMAIN conns'[u] : conns'[u][j] # "closed" => pool'[u] = j
  BY <1>1, <1>2, <1>3 DEF PoolIsCurrent
<1> QED BY <1>4, <1>5 DEF PoolIsCurrent

LEMMA PoolIsCurrentImplies == Inv => ConnectionsKept
<1>1. ASSUME Inv, process = "up", "shared" \notin upsets, NEW g \in Goroutine, gpc[g] = "call"
      PROVE  ~ConnIs(g, "closed") /\ pool[target[g]] = conn[g]
  BY <1>1 DEF Inv, PoolIsCurrent, Pooled
<1> QED BY <1>1 DEF Inv, PoolIsCurrent, ConnectionsKept

------------------------------------------------------------------------------
(* The causes.  What has happened stays in the history.                             *)
LEMMA HistoryGrows ==
  ASSUME Inv, Next
  PROVE  upsets \subseteq upsets' /\ changed \subseteq changed' /\ (failed => failed')
<1>1. upsets \subseteq upsets'
  <2>1. ASSUME NEW g \in Goroutine, GoStep(g) PROVE upsets \subseteq upsets'
    BY <2>1 DEF GoStep, Check, CloseStale, Dial, Connect, ServeWrite, ServeQuery, Fail, Break, Send,
                Receive
  <2>2. ASSUME EnvStep PROVE upsets \subseteq upsets'
    BY <2>2 DEF EnvStep, Crash, Register, Resize, Fault
  <2> QED BY <2>1, <2>2, CallerFrame, Steps
<1>2. [HubNext]_hubVars
  BY HubNextStep DEF Inv
<1>3. ASSUME NEW c \in Caller, HubStep(c) PROVE UNCHANGED changed /\ (failed => failed')
  BY <1>3 DEF HubStep, StartWatch, Watch, Lookup, Load, Fetch, Read, Store, FetchOne, Add, ReadAcc, Use
<1> QED BY <1>1, <1>2, <1>3 DEF HubNext, Join, Leave, Change, Elsewhere

LEMMA CauseGrows == ASSUME Inv, Next, HasCause PROVE HasCause'
BY HistoryGrows DEF HasCause, Inv, HubInv, HubTypeOK

(* The balancer gives no endpoint after a change or a failed read only.             *)
LEMMA NoEndpointHasCause ==
  ASSUME Inv, NEW c \in Caller, at[c] = "picked", picked[c] = NoEndpoint
  PROVE  HasCause
<1>1. failed \/ (cache[group[c]] # NoList /\ cache[group[c]] \subseteq changed)
  BY HubInvImplies DEF Inv, PickIsOfGroup
<1>2. cache[group[c]] # NoList => cache[group[c]] # {}
  BY DEF Inv, HubInv, HubTypeOK, CacheIsCurrent
<1> QED BY <1>1, <1>2 DEF HasCause

LEMMA CallerCauses ==
  ASSUME Inv, Next, NEW c \in Caller, CallerStep(c)
  PROVE  Causes'
<1>1. alive' # Endpoint => "fault" \in upsets'
  BY CallerFrame DEF Inv, Causes
<1>2. ASSUME NEW a \in Caller, expired'[a] PROVE "expired" \in upsets'
  <2>1. a # c => expired[a]
    BY <1>2, CallerFrame
  <2>2. CASE \/ \E o \in Query : BeginQuery(c, o)
             \/ \E o \in Write, d \in Written : BeginWrite(c, o, d)
    <3>1. expired' = [expired EXCEPT ![c] = FALSE]
      BY <2>2 DEF BeginQuery, BeginWrite, Begin
    <3>2. a # c
      BY <1>2, <3>1 DEF Inv, Shape, CallerTypes
    <3> QED BY <2>1, <3>2, HistoryGrows DEF Inv, Causes
  <2>3. CASE Find(c) \/ AwaitWatch(c) \/ FindOne(c) \/ SkipGroup(c) \/ AskGroup(c)
             \/ NoReplica(c) \/ AskReplicas(c) \/ CloseChannels(c) \/ ReturnQuery(c) \/ ReturnWrite(c)
    <3>1. UNCHANGED expired
      BY <2>3 DEF Find, AwaitWatch, FindOne, SkipGroup, AskGroup, NextGroup, NoReplica,
                  AskReplicas, CloseChannels, ReturnQuery, ReturnWrite
    <3> QED BY <1>2, <3>1, HistoryGrows DEF Inv, Causes
  <2>4. CASE Expire(c)
    BY <2>4 DEF Expire
  <2> QED BY <2>2, <2>3, <2>4 DEF CallerStep
<1>3. ASSUME NEW g \in Goroutine, gpc'[g] \notin {"none", "done"}, target'[g] = NoEndpoint
      PROVE  HasCause'
  <2>1. CASE gpc'[g] = gpc[g] /\ target'[g] = target[g]
    BY <1>3, <2>1, CauseGrows DEF Inv, Causes
  <2>2. CASE at[c] = "picked" /\ picked[c] = NoEndpoint
    BY <2>2, NoEndpointHasCause, CauseGrows
  <2> QED BY <1>3, <2>1, <2>2, CallerProgress
<1>4. ExitHasCause'
  <2>1. CASE \E o \in Write, d \in Written : BeginWrite(c, o, d)
    <3>1. process' = "exited" => "nogroup" \in upsets'
      BY <2>1, CallerFrame DEF BeginWrite, ReadsNoGroup
    <3> QED BY <3>1 DEF ExitHasCause, HasCause
  <2>2. CASE ~ \E o \in Write, d \in Written : BeginWrite(c, o, d)
    <3>1. process' = process /\ process = "up"
      BY <2>2, CallerFrame DEF CallerStep, BeginQuery, Find, AwaitWatch, FindOne, SkipGroup, AskGroup,
         NoReplica, AskReplicas, CloseChannels, ReturnQuery, ReturnWrite, Expire
    <3> QED BY <3>1 DEF ExitHasCause
  <2> QED BY <2>1, <2>2
<1> QED BY <1>1, <1>2, <1>3, <1>4 DEF Causes

LEMMA GoCauses ==
  ASSUME Inv, Next, NEW g \in Goroutine, GoStep(g)
  PROVE  Causes'
<1>1. /\ process = "up" /\ UNCHANGED <<alive, expired, target>> /\ upsets \subseteq upsets'
  BY GoFrame, HistoryGrows
<1>2. ASSUME NEW h \in Goroutine, gpc'[h] \notin {"none", "done"}, target'[h] = NoEndpoint
      PROVE  HasCause'
  <2>1. gpc[h] \notin {"none", "done"} /\ target[h] = NoEndpoint
    BY <1>1, <1>2, GoProgress DEF Inv
  <2> QED BY <2>1, CauseGrows DEF Inv, Causes
<1>3. ASSUME process' = "exited" PROVE HasCause'
  <2>1. CASE Fail(g)
    <3>1. gpc[g] = "call" /\ target[g] \in Target /\ g[1] \in Caller
      BY <2>1 DEF Fail, Inv, Shape, GoTypes, Goroutine
    <3>2. CASE ConnIs(g, "closed")
      <4>1. "shared" \in upsets
        BY <1>1, <3>1, <3>2, PoolIsCurrentImplies DEF ConnectionsKept
      <4> QED BY <4>1, CauseGrows DEF HasCause
    <3>3. CASE target[g] \notin alive
      <4>1. CASE target[g] = NoEndpoint
        BY <3>1, <4>1, CauseGrows DEF Inv, Causes
      <4>2. CASE target[g] # NoEndpoint
        <5>1. "fault" \in upsets
          BY <3>1, <3>3, <4>2 DEF Inv, Causes, Target
        <5> QED BY <5>1, CauseGrows DEF HasCause
      <4> QED BY <4>1, <4>2
    <3>4. CASE expired[g[1]]
      <4>1. "expired" \in upsets
        BY <3>1, <3>4 DEF Inv, Causes
      <4> QED BY <4>1, CauseGrows DEF HasCause
    <3> QED BY <2>1, <3>2, <3>3, <3>4 DEF Fail
  <2>2. CASE Break(g)
    BY <2>2 DEF Break, HasCause
  <2>3. CASE ~Fail(g) /\ ~Break(g)
    <3>1. UNCHANGED process
      BY <2>3 DEF GoStep, Check, CloseStale, Dial, Connect, ServeWrite, ServeQuery, Send, Receive
    <3> QED BY <1>1, <1>3, <3>1
  <2> QED BY <2>1, <2>2, <2>3
<1> QED BY <1>1, <1>2, <1>3 DEF Causes, ExitHasCause, Inv

LEMMA EnvCauses ==
  ASSUME Inv, Next, EnvStep
  PROVE  Causes'
<1>1. /\ process = "up" /\ process' = "up" /\ UNCHANGED <<callVars, goVars>>
      /\ upsets \subseteq upsets' /\ (UNCHANGED alive \/ "fault" \in upsets')
  BY DEF EnvStep, Crash, Register, Resize, Fault
<1>2. ASSUME NEW h \in Goroutine, gpc'[h] \notin {"none", "done"}, target'[h] = NoEndpoint
      PROVE  HasCause'
  BY <1>1, <1>2, CauseGrows DEF Inv, Causes
<1> QED BY <1>1, <1>2 DEF Causes, ExitHasCause, Inv

------------------------------------------------------------------------------
LEMMA NextInv == Inv /\ [Next]_vars => Inv'
<1>1. ASSUME Inv, Next PROVE Inv'
  <2>1. HubInv'
    BY <1>1, HubNextStep, HubNextInv DEF Inv
  <2>2. ASSUME NEW c \in Caller, CallerStep(c) PROVE Inv'
    BY <1>1, <2>1, <2>2, CallerShape, CallerProgress, CallerWaitGroup, CallerCloses, CallerPool,
       CallerCauses
       DEF Inv, Shape
  <2>3. ASSUME NEW g \in Goroutine, GoStep(g) PROVE Inv'
    BY <1>1, <2>1, <2>3, GoShape, GoWaitGroup, GoCloses, GoPool, GoCauses DEF Inv
  <2>4. ASSUME EnvStep PROVE Inv'
    BY <1>1, <2>1, <2>4, EnvShape, EnvWaitGroup, EnvCloses, EnvPool, EnvCauses DEF Inv
  <2> QED BY <1>1, <2>2, <2>3, <2>4, Steps
<1>2. ASSUME Inv, UNCHANGED vars PROVE Inv'
  <2>1. HubInv'
    BY <1>2, HubNextInv DEF Inv, vars
  <2>7. WaitGroups'
    BY <1>2, StillWaitGroup DEF Inv, vars
  <2>2. Shape' /\ LoopIsInGroup' /\ ClosedAfterProducers'
    BY <1>2 DEF Inv, vars, Shape, CallerTypes, PoolTypes, GoTypes, LoopIsInGroup,
       ClosedAfterProducers, Running, Producers
  <2>3. UNCHANGED <<goVars, process, upsets, conns, pool, alive, expired, changed, failed>>
    BY <1>2 DEF vars
  <2>4. \A g \in Goroutine : Pooled(g)' <=> Pooled(g)
    BY <2>3 DEF Pooled, InUse, ConnIs
  <2>5. PoolIsCurrent'
    BY <1>2, <2>3, <2>4 DEF Inv, PoolIsCurrent
  <2>6. Causes'
    BY <1>2, <2>3 DEF Inv, Causes, ExitHasCause, HasCause
  <2> QED BY <2>1, <2>2, <2>5, <2>6, <2>7 DEF Inv
<1> QED BY <1>1, <1>2

(* The four methods of Sentinel, with all their goroutines, take the steps of the   *)
(* endpoint cache and the balancer that ServiceHubProxy and RoundRobin specify, so  *)
(* that what is proved of these holds of what Search and AddDoc are given.          *)
THEOREM SentinelUsesHubProxy == Spec => UsesHubProxy
<1>1. Init => HubInit
  BY DEF Init
<1>2. Inv /\ [Next]_vars => [HubNext]_hubVars
  <2>1. ASSUME Inv, Next PROVE [HubNext]_hubVars
    BY <2>1, HubNextStep DEF Inv
  <2>2. UNCHANGED vars => UNCHANGED hubVars
    BY DEF vars
  <2> QED BY <2>1, <2>2
<1> QED BY <1>1, <1>2, InitInv, NextInv, PTL DEF Spec, UsesHubProxy, HubSpec

(* So what GetServiceEndpoints and GetServiceEndpoint give to Search, Count, AddDoc  *)
(* and DeleteDoc are the workers of the group, but for those that came or left.     *)
COROLLARY SentinelFindsWorkers == Spec => [](CacheIsCurrent /\ PickIsOfGroup)
BY SentinelUsesHubProxy, CacheFollowsEtcd, PicksAreOfGroup, PTL DEF UsesHubProxy

(* Sentinel.Search and Count close a result channel when the counter of producerWg   *)
(* is zero, and by then every producer that sends on it has ended: the counter, that *)
(* skipped groups and ending producers count down, never falls short of those that   *)
(* are still to end, so no send on a closed channel panics.                          *)
THEOREM SentinelClosesLate == Spec => []ClosedAfterProducers
<1>1. Inv => ClosedAfterProducers
  BY DEF Inv
<1> QED BY <1>1, InitInv, NextInv, PTL DEF Spec

(* GetGrpcConn keeps the connection of every RPC in the pool, and closes none that  *)
(* an RPC uses, unless two goroutines are at one endpoint that is not connected.    *)
THEOREM SentinelKeepsConnections == Spec => []ConnectionsKept
BY PoolIsCurrentImplies, InitInv, NextInv, PTL DEF Spec

(* Log.Fatalf in Search and Count, and the modulo by zero in AddDoc and DeleteDoc,   *)
(* end the web server only after a fault (a crash of a worker, a broken connection, a *)
(* change of total-shards), a change of the workers, a failed read of a group's       *)
(* endpoints, an expired query, two goroutines at an endpoint that is not connected,  *)
(* or a call that found total-shards to be 0 or could not read it.                    *)
THEOREM SentinelExitHasCause == Spec => []ExitHasCause
<1>1. Inv => ExitHasCause
  BY DEF Inv, Causes
<1> QED BY <1>1, InitInv, NextInv, PTL DEF Spec
==============================================================================
