---------------------------- MODULE SentinelAnswers ---------------------------
(* Theorems about the data that Sentinel moves, for every set of callers, workers,  *)
(* groups and documents: the types of all of its state, that the replicas of a      *)
(* group agree, and that an answer has exactly the documents that are stored.       *)
EXTENDS SentinelProofs

(* What the goroutines of a caller hold.  A slot is in use only for a group the     *)
(* loop of the query has passed, or for a worker of the write's group.              *)
FreeSlots ==
  \A g \in Goroutine :
    /\ ~Running(g[1]) => gpc[g] = "none"
    /\ gpc[g] = "none" =>
         target[g] = NoEndpoint /\ conn[g] = 0 /\ answer[g] = <<>> /\ channel[g] = <<>>

QuerySlots ==
  /\ \A c \in Caller : Running(c) /\ op[c] \in Query =>
       n[c] > 0 /\ (pc[c] = "wait" => i[c] = n[c])
  /\ \A g \in Goroutine : gpc[g] # "none" /\ op[g[1]] \in Query => g[2] < i[g[1]]

WriteSlots ==
  /\ \A c \in Caller : Running(c) /\ op[c] \in Write => doc[c] \in Doc
  /\ \A g \in Goroutine : gpc[g] # "none" /\ op[g[1]] \in Write =>
       /\ pc[g[1]] = "wait" /\ g[2] \in Endpoint /\ target[g] = g[2]
       /\ gpc[g] # "send" /\ answer[g] = <<>> /\ channel[g] = <<>>

(* An answer is there once the RPC is done, and is sent as far as it can be.        *)
AnswerType(c) == IF op[c] = "search" THEN Seq(Doc) ELSE Seq(Nat)

AnswerTypes ==
  \A g \in Goroutine :
    /\ answer[g] \in AnswerType(g[1]) /\ channel[g] \in AnswerType(g[1])
    /\ Len(channel[g]) <= Capacity
    /\ gpc[g] \in {"check", "close", "dial", "call"} => answer[g] = <<>> /\ channel[g] = <<>>
    /\ gpc[g] = "send" => answer[g] # <<>>
    /\ gpc[g] = "done" => answer[g] = <<>> \/ expired[g[1]]

(* A write has counted no more replicas than have answered.                         *)
DoneReplicas(c) == {e \in Endpoint : gpc[<<c, e>>] = "done"}

TotalCounts ==
  \A c \in Caller : op[c] \in Write =>
    /\ pc[c] = "loop" => total[c] = 0
    /\ total[c] <= Cardinality(IF pc[c] = "wait" THEN DoneReplicas(c) ELSE Endpoint)

DataTypes ==
  /\ stored \in [Endpoint -> SUBSET Doc]
  /\ doc \in [Caller -> {NoDoc} \cup Doc]
  /\ got = [c \in Caller |-> got[c]]
  /\ \A c \in Caller : IsABag(got[c]) /\ BagToSet(got[c]) \subseteq Doc
  /\ total \in [Caller -> Nat]
  /\ \A g \in Goroutine : conn[g] \in 0 .. Len(conns[target[g]])
  /\ answer \in [Goroutine -> Seq(Doc \cup Nat)]
  /\ channel \in [Goroutine -> Seq(Doc \cup Nat)]
  /\ calls \in Nat
  /\ upsets \subseteq {"fault", "expired", "shared", "overlap", "nogroup"}
  /\ known \in [Doc -> Known] /\ quiet \in [Caller -> [Doc -> Known]]

Slots == FreeSlots /\ QuerySlots /\ WriteSlots /\ AnswerTypes /\ TotalCounts /\ DataTypes

------------------------------------------------------------------------------
(* While nothing fails or changes.  A caller in its loop looks for its own group.   *)
Replicas(d) == {e \in Endpoint : OnReplica(d, e)}

LoopFinds ==
  \A c \in Caller :
    /\ pc[c] # "loop" => at[c] = "idle"
    /\ at[c] # "idle" => group[c] = i[c]

(* A document is on workers of its group only, and one call at a time writes it.    *)
StoredInGroup == \A d \in Doc, e \in Endpoint : d \in stored[e] => OnReplica(d, e)

WritesInGroup ==
  \A c \in Caller : Running(c) /\ op[c] \in Write =>
    /\ shards > 0 /\ (pc[c] = "loop" => i[c] = GroupIndex(doc[c]))
    /\ Writing(doc[c]) = {c}

(* The replicas agree until the writer starts its goroutines, of which there is one *)
(* for each replica; those that are done have left the replica as it should be.     *)
AgreeBefore ==
  \A d \in Doc : (\A c \in Writing(d) : pc[c] = "loop") =>
    \A e, f \in Replicas(d) : d \in stored[e] <=> d \in stored[f]

WriteArrives ==
  \A c \in Caller : pc[c] = "wait" /\ op[c] \in Write =>
    /\ Replicas(doc[c]) # {}
    /\ \A e \in Endpoint :
         /\ gpc[<<c, e>>] # "none" <=> e \in Replicas(doc[c])
         /\ gpc[<<c, e>>] = "done" => (doc[c] \in stored[e] <=> op[c] = "add")

KnownIsStored ==
  \A d \in Doc :
    /\ known[d] # "unknown" => Writing(d) = {}
    /\ known[d] = "present" => shards > 0 /\ Replicas(d) # {} /\ \A e \in Replicas(d) : d \in stored[e]
    /\ known[d] = "absent"  => \A e \in Endpoint : d \notin stored[e]

QuietIsKnown ==
  \A c \in Caller, d \in Doc : quiet[c][d] # "unknown" => known[d] = quiet[c][d]

Agreement == /\ LoopFinds /\ StoredInGroup /\ WritesInGroup /\ AgreeBefore
             /\ WriteArrives /\ KnownIsStored /\ QuietIsKnown

------------------------------------------------------------------------------
(* No name of a group begins with that of another, as with up to ten groups.        *)
NamesApart == \A g, h \in Group : NameBegins(h, g) => h = g

(* A query asks all groups, and of each group a worker.                             *)
AsksAll(c) ==
  /\ n[c] > 0 => n[c] = shards
  /\ \A s \in Slot : gpc[<<c, s>>] \notin {"none", "done"} => target[<<c, s>>] \in EndpointsOf(s)

(* The documents on their way from a worker to the caller.                          *)
InTransit(g) == ToSet(answer[g]) \cup ToSet(channel[g])

Once(g) == /\ IsInjective(answer[g]) /\ IsInjective(channel[g])
           /\ ToSet(answer[g]) \cap ToSet(channel[g]) = {}

Answered(g) == gpc[g] \in {"send", "done"}

(* A group's answer to a search has each document once, and those of the group only. *)
TransitOnce(c) ==
  \A s \in Slot : Once(<<c, s>>) /\ \A d \in InTransit(<<c, s>>) : GroupIndex(d) = s

(* A document that is there throughout is nowhere before its group has answered,    *)
(* and then either on its way or received; one that is not there is in no answer.   *)
Gathered(c, d) ==
  LET g == <<c, GroupIndex(d)>>
  IN  /\ quiet[c][d] = "present" =>
           /\ BagIn(d, got[c]) => Answered(g) /\ d \notin InTransit(g) /\ got[c][d] = 1
           /\ Answered(g) /\ d \notin InTransit(g) => BagIn(d, got[c])
      /\ quiet[c][d] = "absent" => ~BagIn(d, got[c]) /\ d \notin InTransit(g)

(* Each group has its number counted, or on its way.                                *)
Present(c, S)  == {d \in Doc : quiet[c][d] = "present" /\ GroupIndex(d) \in S}
AllKnown(c)    == \A d \in Doc : quiet[c][d] # "unknown"
Counted(c)     == {s \in Slot : s < n[c] /\ gpc[<<c, s>>] = "done" /\ channel[<<c, s>>] = <<>>}
Number(c, s)   == Cardinality(Present(c, {s}))

CountOf(c, s) ==
  /\ gpc[<<c, s>>] = "send" => answer[<<c, s>>] = <<Number(c, s)>> /\ channel[<<c, s>>] = <<>>
  /\ gpc[<<c, s>>] = "done" => channel[<<c, s>>] \in {<<>>, <<Number(c, s)>>}

CountGathers(c) ==
  total[c] = Cardinality(Present(c, Counted(c))) /\ \A s \in Slot : CountOf(c, s)

(* What the answer is in the end.                                                   *)
SearchIsWhole(c) ==
  \A d \in Doc :
    /\ quiet[c][d] = "present" => BagIn(d, got[c]) /\ got[c][d] = 1
    /\ quiet[c][d] = "absent"  => ~BagIn(d, got[c])

CountIsWhole(c) == total[c] = Cardinality({d \in Doc : quiet[c][d] = "present"})

(* A query while it runs, and when it has returned.                                 *)
Gathers(c) ==
  /\ op[c] \in Query => AsksAll(c)
  /\ op[c] = "search" => TransitOnce(c)
  /\ Running(c) /\ op[c] = "search" => \A d \in Doc : Gathered(c, d)
  /\ Running(c) /\ op[c] = "count" /\ AllKnown(c) => CountGathers(c)
  /\ pc[c] = "returned" /\ n[c] > 0 /\ op[c] = "search" => SearchIsWhole(c)
  /\ pc[c] = "returned" /\ n[c] > 0 /\ op[c] = "count" /\ AllKnown(c) => CountIsWhole(c)

Gathering == \A c \in Caller : Gathers(c)

DataInv == Steady => Agreement
AnswerInv == Undisturbed => Gathering

------------------------------------------------------------------------------
USE DEF hubVars, callVars, goVars, netVars, envVars, ghosts

(* A finite set as a sequence: each of its elements once.                           *)
LEMMA SetToSeqForm ==
  ASSUME NEW S, IsFiniteSet(S)
  PROVE  /\ SetToSeq(S) \in Seq(S) /\ Len(SetToSeq(S)) = Cardinality(S)
         /\ IsInjective(SetToSeq(S)) /\ ToSet(SetToSeq(S)) = S
         /\ S # {} => SetToSeq(S) # <<>>
<1> DEFINE k == Cardinality(S)
           f == SetToSeq(S)
<1>1. k \in Nat /\ ExistsBijection(1 .. k, S)
  BY FS_CardinalityType
<1>2. PICK b : b \in Bijection(1 .. k, S)
  BY <1>1 DEF ExistsBijection
<1>3. b \in [1 .. k -> S] /\ IsInjective(b)
  BY <1>2 DEF Bijection, Injection, Surjection
<1>4. f \in [1 .. k -> S] /\ IsInjective(f)
  BY <1>3 DEF SetToSeq
<1>5. f \in Seq(S) /\ Len(f) = k /\ DOMAIN f = 1 .. k
  BY <1>1, <1>4
<1>6. f \in Injection(1 .. k, S) /\ IsFiniteSet(1 .. k) /\ Cardinality(1 .. k) = k
  BY <1>1, <1>4, FS_Interval DEF Injection
<1>7. f \in Surjection(1 .. k, S)
  BY <1>6, FS_Injection
<1>8. ToSet(f) = S
  BY <1>4, <1>5, <1>7 DEF ToSet, Surjection
<1>9. ASSUME S # {} PROVE f # <<>>
  BY <1>5, <1>8, <1>9 DEF ToSet
<1> HIDE DEF k, f
<1> QED BY <1>4, <1>5, <1>8, <1>9 DEF k, f

LEMMA StoredIsFinite == ASSUME NEW S \in SUBSET Doc PROVE IsFiniteSet(S) /\ Cardinality(S) \in Nat
BY SentinelAssumption, FS_Subset, FS_CardinalityType DEF SentinelAssumption

------------------------------------------------------------------------------
(* A goroutine moves: the others stay, and nobody starts or ends.                   *)
LEMMA GoMoves ==
  ASSUME Inv, Slots, NEW g \in Goroutine, GoStep(g)
  PROVE  /\ UNCHANGED <<pc, op, doc, n, i, expired, target, calls, known, quiet>>
         /\ gpc[g] # "none" /\ gpc'[g] # "none"
         /\ \A h \in Goroutine \ {g} :
              /\ gpc'[h] = gpc[h] /\ conn'[h] = conn[h]
              /\ answer'[h] = answer[h] /\ channel'[h] = channel[h]
<1>1. /\ gpc \in [Goroutine -> Progress] /\ conn \in [Goroutine -> Nat]
      /\ answer \in [Goroutine -> Seq(Doc \cup Nat)] /\ channel \in [Goroutine -> Seq(Doc \cup Nat)]
  BY DEF Inv, Shape, GoTypes, Slots, DataTypes
<1>2. UNCHANGED <<pc, op, doc, n, i, expired, target, calls, known, quiet>>
  BY DEF GoStep, Check, CloseStale, Dial, Connect, ServeWrite, ServeQuery, Served, Fail, Break,
         Send, Receive
<1>3. gpc[g] # "none"
  BY DEF GoStep, Check, CloseStale, Dial, Connect, ServeWrite, ServeQuery, Served, Fail, Break,
         Send, Receive, Slots, FreeSlots
<1>4. gpc'[g] # "none" /\ \A h \in Goroutine \ {g} : gpc'[h] = gpc[h]
  BY <1>3, GoProgress DEF Inv
<1>5. \A h \in Goroutine \ {g} : conn'[h] = conn[h]
  BY <1>1 DEF GoStep, Check, CloseStale, Dial, Connect, ServeWrite, ServeQuery, Fail, Break,
         Send, Receive
<1>6. \A h \in Goroutine \ {g} : answer'[h] = answer[h] /\ channel'[h] = channel[h]
  BY <1>1 DEF GoStep, Check, CloseStale, Dial, Connect, ServeWrite, ServeQuery, Fail, Break,
         Send, Receive
<1> QED BY <1>2, <1>3, <1>4, <1>5, <1>6

LEMMA GoFreeSlots ==
  ASSUME Inv, Slots, NEW g \in Goroutine, GoStep(g)
  PROVE  FreeSlots' /\ QuerySlots'
<1>1. \A h \in Goroutine : gpc'[h] = "none" <=> gpc[h] = "none"
  BY GoMoves
<1>2. UNCHANGED <<pc, op, doc, n, i, target>> /\ gpc[g] # "none"
  BY GoMoves
<1>3. \A h \in Goroutine : gpc[h] = "none" =>
         conn'[h] = conn[h] /\ answer'[h] = answer[h] /\ channel'[h] = channel[h]
  BY <1>2, GoMoves
<1> QED BY <1>1, <1>2, <1>3 DEF Slots, FreeSlots, QuerySlots, Running

LEMMA GoWriteSlots ==
  ASSUME Inv, Slots, NEW g \in Goroutine, GoStep(g)
  PROVE  WriteSlots'
<1>1. UNCHANGED <<pc, op, doc, target>> /\ gpc[g] # "none"
  BY GoMoves
<1>2. ASSUME op[g[1]] \in Write
      PROVE  gpc'[g] # "send" /\ answer'[g] = answer[g] /\ channel'[g] = channel[g]
  <2>1. gpc[g] # "send" /\ channel[g] = <<>>
    BY <1>1, <1>2 DEF Slots, WriteSlots
  <2>2. op[g[1]] \notin Query
    BY <1>2 DEF Query, Write
  <2>3. gpc \in [Goroutine -> Progress]
    BY DEF Inv, Shape, GoTypes
  <2> QED BY <2>1, <2>2, <2>3
          DEF GoStep, Check, CloseStale, Dial, Connect, ServeWrite, ServeQuery, Fail, Failed,
              Break, Send, Receive, Go, Done
<1>3. \A h \in Goroutine : gpc'[h] # "none" => gpc[h] # "none"
  BY <1>1, GoMoves
<1>4. \A h \in Goroutine : op[h[1]] \in Write /\ gpc[h] # "none" =>
         gpc'[h] # "send" /\ answer'[h] = answer[h] /\ channel'[h] = channel[h]
  BY <1>2, GoMoves DEF Slots, WriteSlots
<1> QED BY <1>1, <1>3, <1>4 DEF Slots, WriteSlots, Running

------------------------------------------------------------------------------
(* Sequences: what is sent or taken at one end.                                     *)
LEMMA AppendType ==
  ASSUME NEW S, NEW s \in Seq(S), NEW x \in S
  PROVE  Append(s, x) \in Seq(S) /\ Len(Append(s, x)) = Len(s) + 1 /\ Append(s, x) # <<>>
OBVIOUS

LEMMA TailType ==
  ASSUME NEW S, NEW s \in Seq(S), s # <<>>
  PROVE  /\ Head(s) \in S /\ Tail(s) \in Seq(S) /\ Len(Tail(s)) = Len(s) - 1
         /\ Len(s) \in Nat \ {0} /\ (Tail(s) = <<>> <=> Len(s) = 1)
<1>1. Len(s) \in Nat \ {0}
  OBVIOUS
<1>2. Tail(s) \in Seq(S) /\ Len(Tail(s)) = Len(s) - 1
  BY <1>1
<1>3. Tail(s) = <<>> <=> Len(Tail(s)) = 0
  <2> DEFINE t == Tail(s)
  <2> HIDE DEF t
  <2>1. t \in Seq(S) => (t = <<>> <=> Len(t) = 0)
    OBVIOUS
  <2> QED BY <1>2, <2>1 DEF t
<1>4. Head(s) \in S
  BY <1>1
<1>5. Len(Tail(s)) = 0 <=> Len(s) = 1
  BY <1>1, <1>2
<1> QED BY <1>1, <1>2, <1>3, <1>4, <1>5

(* What a worker answers is a sequence of documents, or a number.                   *)
LEMMA AnswerForm ==
  ASSUME NEW S \in SUBSET Doc
  PROVE  /\ SetToSeq(S) \in Seq(Doc) /\ (SetToSeq(S) = <<>> <=> S = {})
         /\ <<Cardinality(S)>> \in Seq(Nat) /\ <<Cardinality(S)>> # <<>>
<1>1. IsFiniteSet(S) /\ Cardinality(S) \in Nat
  BY StoredIsFinite
<1>2. SetToSeq(S) \in Seq(S) /\ Len(SetToSeq(S)) = Cardinality(S) /\ (S # {} => SetToSeq(S) # <<>>)
  BY <1>1, SetToSeqForm
<1>3. S = {} => Len(SetToSeq(S)) = 0
  BY <1>2, FS_EmptySet
<1>4. SetToSeq(S) \in Seq(Doc)
  <2> DEFINE f == SetToSeq(S)
  <2> HIDE DEF f
  <2>1. f \in Seq(S) => f \in Seq(Doc)
    OBVIOUS
  <2> QED BY <1>2, <2>1 DEF f
<1>5. <<Cardinality(S)>> \in Seq(Nat) /\ <<Cardinality(S)>> # <<>>
  BY <1>1
<1>6. S = {} => SetToSeq(S) = <<>>
  <2> DEFINE f == SetToSeq(S)
  <2> HIDE DEF f
  <2>1. f \in Seq(Doc) /\ Len(f) = 0 => f = <<>>
    OBVIOUS
  <2> QED BY <1>3, <1>4, <2>1 DEF f
<1> QED BY <1>2, <1>4, <1>5, <1>6

(* A goroutine that runs belongs to a running caller.                               *)
LEMMA GoRuns ==
  ASSUME Inv, Slots, NEW g \in Goroutine, gpc[g] # "none"
  PROVE  /\ g[1] \in Caller /\ Running(g[1]) /\ op[g[1]] \in Query \cup Write
         /\ op[g[1]] \in Write => doc[g[1]] \in Doc /\ target[g] \in Endpoint
         /\ op[g[1]] = "search" => AnswerType(g[1]) = Seq(Doc)
         /\ op[g[1]] # "search" => AnswerType(g[1]) = Seq(Nat)
BY SlotForm DEF Inv, Shape, CallerTypes, Slots, FreeSlots, WriteSlots, AnswerType

LEMMA GoAnswerTypes ==
  ASSUME Inv, Slots, NEW g \in Goroutine, GoStep(g)
  PROVE  AnswerTypes'
<1> DEFINE c == g[1]
           T == AnswerType(c)
<1>1. /\ UNCHANGED <<pc, op, expired, target>> /\ gpc[g] # "none"
      /\ \A h \in Goroutine \ {g} :
           gpc'[h] = gpc[h] /\ answer'[h] = answer[h] /\ channel'[h] = channel[h]
  BY GoMoves
<1>2. \A h \in Goroutine : AnswerType(h[1])' = AnswerType(h[1])
  BY <1>1 DEF AnswerType
<1>3. /\ gpc \in [Goroutine -> Progress]
      /\ answer \in [Goroutine -> Seq(Doc \cup Nat)] /\ channel \in [Goroutine -> Seq(Doc \cup Nat)]
  BY DEF Inv, Shape, GoTypes, Slots, DataTypes
<1>4. /\ answer[g] \in T /\ channel[g] \in T /\ Len(channel[g]) <= Capacity
      /\ gpc[g] \in {"check", "close", "dial", "call"} => answer[g] = <<>> /\ channel[g] = <<>>
      /\ gpc[g] = "send" => answer[g] # <<>>
      /\ gpc[g] = "done" => answer[g] = <<>> \/ expired[c]
  BY DEF Slots, AnswerTypes
<1>5. /\ c \in Caller /\ op[c] \in Query \cup Write
      /\ op[c] = "search" => T = Seq(Doc)
      /\ op[c] # "search" => T = Seq(Nat)
  BY <1>1, GoRuns
<1>6. PICK S : T = Seq(S)
  BY <1>5
<1> HIDE DEF c, T
<1> SUFFICES
      /\ answer'[g] \in T /\ channel'[g] \in T /\ Len(channel'[g]) <= Capacity
      /\ gpc'[g] \in {"check", "close", "dial", "call"} => answer'[g] = <<>> /\ channel'[g] = <<>>
      /\ gpc'[g] = "send" => answer'[g] # <<>>
      /\ gpc'[g] = "done" => answer'[g] = <<>> \/ expired[c]
  BY <1>1, <1>2 DEF c, T, Slots, AnswerTypes
<1>7. CASE Check(g) \/ CloseStale(g) \/ Dial(g) \/ Connect(g)
  <2>1. /\ UNCHANGED <<answer, channel>> /\ gpc[g] \in {"check", "close", "dial", "call"}
        /\ gpc'[g] \notin {"send", "done"}
    BY <1>3, <1>7 DEF Check, CloseStale, Dial, Connect, Go
  <2> QED BY <1>4, <2>1
<1>8. CASE ServeWrite(g) \/ Fail(g) \/ Break(g)
  <2>1. /\ UNCHANGED <<answer, channel>> /\ gpc[g] = "call" /\ gpc'[g] \in {"call", "done"}
    BY <1>3, <1>8 DEF ServeWrite, Served, Fail, Break, Failed, Go, Done
  <2> QED BY <1>4, <2>1
<1>9. CASE ServeQuery(g)
  <2> DEFINE docs == stored[target[g]]
  <2>1. /\ UNCHANGED channel /\ gpc[g] = "call" /\ op[c] \in Query /\ target[g] \in alive
        /\ answer'[g] = IF op[c] = "search" THEN SetToSeq(docs) ELSE <<Cardinality(docs)>>
        /\ gpc'[g] = IF op[c] = "search" /\ docs = {} THEN "done" ELSE "send"
    BY <1>3, <1>9 DEF ServeQuery, Served, Go, Done, c
  <2>2. docs \in SUBSET Doc
    BY <2>1 DEF Inv, Shape, CallerTypes, Slots, DataTypes
  <2>3. answer'[g] \in T /\ (answer'[g] = <<>> <=> op[c] = "search" /\ docs = {})
    BY <1>5, <2>1, <2>2, AnswerForm
  <2> QED BY <1>4, <2>1, <2>3
<1>10. CASE Send(g)
  <2>1. CASE Len(channel[g]) < Capacity /\ channel' = [channel EXCEPT ![g] = Append(@, Head(answer[g]))]
             /\ answer' = [answer EXCEPT ![g] = Tail(@)]
             /\ IF Len(answer[g]) = 1 THEN Done(g) ELSE UNCHANGED <<gpc, pending>>
    <3>1. /\ channel'[g] = Append(channel[g], Head(answer[g])) /\ answer'[g] = Tail(answer[g])
          /\ gpc'[g] = IF Len(answer[g]) = 1 THEN "done" ELSE gpc[g]
          /\ gpc[g] = "send" /\ answer[g] # <<>>
      BY <1>3, <1>4, <1>10, <2>1 DEF Send, Go, Done
    <3>2. /\ Head(answer[g]) \in S /\ answer'[g] \in Seq(S)
          /\ answer'[g] = <<>> <=> Len(answer[g]) = 1
      BY <1>4, <1>6, <3>1, TailType
    <3>3. channel'[g] \in Seq(S) /\ Len(channel'[g]) = Len(channel[g]) + 1
      BY <1>4, <1>6, <3>1, <3>2, AppendType
    <3>4. Len(channel'[g]) <= Capacity
      BY <1>4, <1>6, <2>1, <3>3, SentinelAssumption DEF SentinelAssumption
    <3> QED BY <1>6, <3>1, <3>2, <3>3, <3>4
  <2>2. CASE expired[c] /\ Done(g) /\ UNCHANGED <<channel, answer>>
    BY <1>3, <1>4, <2>2 DEF Go, Done
  <2> QED BY <1>10, <2>1, <2>2 DEF Send, c
<1>11. CASE Receive(g)
  <2>1. /\ UNCHANGED <<gpc, answer>> /\ channel[g] # <<>> /\ channel'[g] = Tail(channel[g])
    BY <1>3, <1>11 DEF Receive
  <2>2. channel'[g] \in Seq(S) /\ Len(channel'[g]) = Len(channel[g]) - 1 /\ Len(channel[g]) \in Nat
    BY <1>4, <1>6, <2>1, TailType
  <2>3. Len(channel'[g]) <= Capacity
    BY <1>4, <2>2, SentinelAssumption DEF SentinelAssumption
  <2> QED BY <1>4, <1>6, <2>1, <2>2, <2>3
<1> QED BY <1>7, <1>8, <1>9, <1>10, <1>11 DEF GoStep

(* One more document in a bag.                                                      *)
LEMMA BagGrows ==
  ASSUME NEW B, IsABag(B), NEW x, NEW C, C = B (+) SetToBag({x})
  PROVE  /\ IsABag(C) /\ BagToSet(C) = BagToSet(B) \cup {x}
         /\ \A y : BagIn(y, C) <=> y = x \/ BagIn(y, B)
         /\ C[x] = (IF BagIn(x, B) THEN B[x] ELSE 0) + 1
         /\ \A y : BagIn(y, B) /\ y # x => C[y] = B[y]
<1> DEFINE one == SetToBag({x})
<1>1. DOMAIN one = {x} /\ one[x] = 1
  BY DEF SetToBag
<1>2. B \in [DOMAIN B -> {k \in Nat : k > 0}]
  BY DEF IsABag
<1>c. C = B (+) one
  OBVIOUS
<1> HIDE DEF one
<1>3. C = [e \in DOMAIN B \cup {x} |-> (IF e \in DOMAIN B THEN B[e] ELSE 0)
                                       + (IF e \in {x} THEN one[e] ELSE 0)]
  BY <1>1, <1>c DEF (+)
<1>4. DOMAIN C = DOMAIN B \cup {x}
  BY <1>3
<1>5. C[x] = (IF x \in DOMAIN B THEN B[x] ELSE 0) + 1
  BY <1>1, <1>3
<1>6. \A y \in DOMAIN B \ {x} : C[y] = B[y]
  <2> TAKE y \in DOMAIN B \ {x}
  <2>1. C[y] = B[y] + 0
    BY <1>3
  <2>2. B[y] \in Nat
    BY <1>2
  <2> QED BY <2>1, <2>2
<1>7. \A y \in DOMAIN C : C[y] \in {k \in Nat : k > 0}
  <2> TAKE y \in DOMAIN C
  <2>1. CASE y = x
    <3>1. x \in DOMAIN B => B[x] \in Nat /\ B[x] > 0
      BY <1>2
    <3> QED BY <1>5, <2>1, <3>1
  <2>2. CASE y # x
    BY <1>2, <1>4, <1>6, <2>2
  <2> QED BY <2>1, <2>2
<1>8. IsABag(C)
  <2>1. C = [y \in DOMAIN C |-> C[y]]
    BY <1>3, <1>4
  <2> QED BY <1>7, <2>1 DEF IsABag
<1> QED BY <1>4, <1>5, <1>6, <1>8 DEF BagToSet, BagIn

LEMMA BagKeeps ==
  ASSUME NEW B, IsABag(B), NEW x, NEW y, BagIn(y, B), y # x
  PROVE  (B (+) SetToBag({x}))[y] = B[y]
<1>1. PICK C : C = B (+) SetToBag({x})
  OBVIOUS
<1>2. \A z : BagIn(z, B) /\ z # x => C[z] = B[z]
  BY <1>1, BagGrows
<1> QED BY <1>1, <1>2

(* Connections are added and their states change.                                  *)
LEMMA GoConns ==
  ASSUME Inv, NEW g \in Goroutine, GoStep(g)
  PROVE  \A u \in Target : Len(conns[u]) \in Nat /\ Len(conns'[u]) \in Nat
                           /\ Len(conns[u]) <= Len(conns'[u])
<1> DEFINE t == target[g]
<1>1. t \in Target /\ conns \in [Target -> Seq(ConnState)] /\ conns' \in [Target -> Seq(ConnState)]
  BY GoPoolTypes DEF Inv, Shape, GoTypes, PoolTypes
<1>2. \A u \in Target : Len(conns[u]) \in Nat /\ Len(conns'[u]) \in Nat
  BY <1>1
<1>3. CASE UNCHANGED conns
  BY <1>2, <1>3
<1>4. ASSUME NEW state \in ConnState, SetConn(g, state)
      PROVE  \A u \in Target : Len(conns'[u]) = Len(conns[u])
  <2>1. conns' = [conns EXCEPT ![t] = [conns[t] EXCEPT ![conn[g]] = state]]
    BY <1>1, <1>4 DEF SetConn
  <2> DEFINE s == conns[t]
             k == conn[g]
  <2>2. s \in Seq(ConnState) /\ state \in ConnState /\ k = k
    BY <1>1, <1>4
  <2> HIDE DEF s, k
  <2>3. Len([s EXCEPT ![k] = state]) = Len(s)
    BY <2>2, ExceptSeqType
  <2> QED BY <1>1, <2>1, <2>3 DEF s, k
<1>5. CASE CloseStale(g) \/ Connect(g) \/ Break(g)
  <2>1. \E state \in ConnState : SetConn(g, state)
    BY <1>5 DEF CloseStale, Connect, Break, ConnState
  <2> QED BY <1>2, <1>4, <2>1
<1>6. CASE Dial(g)
  <2>1. conns' = [conns EXCEPT ![t] = Append(conns[t], "idle")]
    BY <1>1, <1>6 DEF Dial
  <2>2. "idle" \in ConnState /\ conns[t] \in Seq(ConnState)
    BY <1>1 DEF ConnState
  <2>3. Len(Append(conns[t], "idle")) = Len(conns[t]) + 1
    BY <2>2
  <2> QED BY <1>1, <1>2, <2>1, <2>3
<1>7. CASE Check(g) \/ ServeWrite(g) \/ ServeQuery(g) \/ Fail(g) \/ Send(g) \/ Receive(g)
  BY <1>3, <1>7 DEF Check, ServeWrite, ServeQuery, Fail, Send, Receive
<1> QED BY <1>5, <1>6, <1>7 DEF GoStep

LEMMA GoConnTypes ==
  ASSUME Inv, Slots, NEW g \in Goroutine, GoStep(g)
  PROVE  \A h \in Goroutine : conn'[h] \in 0 .. Len(conns'[target'[h]])
<1> DEFINE t == target[g]
<1>1. /\ conn \in [Goroutine -> Nat] /\ target \in [Goroutine -> Target]
      /\ conns \in [Target -> Seq(ConnState)] /\ pool[t] \in 0 .. Len(conns[t])
  BY DEF Inv, Shape, GoTypes, PoolTypes
<1>2. \A h \in Goroutine : conn[h] \in 0 .. Len(conns[target[h]])
  BY DEF Slots, DataTypes
<1>3. \A h \in Goroutine : conn[h] \in 0 .. Len(conns'[target[h]])
  BY <1>1, <1>2, GoConns
<1>4. conn'[g] \in 0 .. Len(conns'[t])
  <2>1. CASE Check(g)
    <3>1. conn'[g] = pool[t] /\ UNCHANGED conns
      BY <1>1, <2>1 DEF Check
    <3> QED BY <1>1, <3>1
  <2>2. CASE Dial(g)
    <3>1. /\ conn'[g] = Len(conns[t]) + 1 /\ conns'[t] = Append(conns[t], "idle")
      BY <1>1, <2>2 DEF Dial
    <3>2. conns[t] \in Seq(ConnState) /\ "idle" \in ConnState
      BY <1>1 DEF ConnState
    <3>3. Len(conns'[t]) = Len(conns[t]) + 1 /\ Len(conns[t]) \in Nat
      BY <3>1, <3>2
    <3> QED BY <3>1, <3>3
  <2>3. CASE ~Check(g) /\ ~Dial(g)
    <3>1. UNCHANGED conn
      BY <2>3 DEF GoStep, CloseStale, Connect, ServeWrite, ServeQuery, Fail, Break, Send, Receive
    <3> QED BY <1>3, <3>1
  <2> QED BY <2>1, <2>2, <2>3
<1> QED BY <1>3, <1>4, GoMoves

LEMMA GoStored ==
  ASSUME Inv, Slots, NEW g \in Goroutine, GoStep(g)
  PROVE  stored' \in [Endpoint -> SUBSET Doc]
<1> DEFINE c == g[1]
<1>1. stored \in [Endpoint -> SUBSET Doc]
  BY DEF Slots, DataTypes
<1>2. ASSUME Served(g), op[c] \in Write, stored' = Applied(g)
      PROVE  stored' \in [Endpoint -> SUBSET Doc]
  <2>1. doc[c] \in Doc /\ target[g] \in Endpoint
    BY <1>2, GoRuns DEF Served
  <2>2. \/ stored' = [stored EXCEPT ![target[g]] = stored[target[g]] \cup {doc[c]}]
        \/ stored' = [stored EXCEPT ![target[g]] = stored[target[g]] \ {doc[c]}]
    BY <1>1, <1>2, <2>1 DEF Applied
  <2> QED BY <1>1, <2>1, <2>2
<1>3. UNCHANGED stored \/ (Served(g) /\ op[c] \in Write /\ stored' = Applied(g))
  BY DEF GoStep, Check, CloseStale, Dial, Connect, ServeWrite, ServeQuery, Fail, Break, Send, Receive
<1> QED BY <1>1, <1>2, <1>3

LEMMA GoReceived ==
  ASSUME Inv, Slots, NEW g \in Goroutine, GoStep(g)
  PROVE  /\ got' = [c \in Caller |-> got'[c]]
         /\ \A c \in Caller : IsABag(got'[c]) /\ BagToSet(got'[c]) \subseteq Doc
         /\ total' \in [Caller -> Nat]
<1> DEFINE c == g[1]
<1>1. /\ got = [a \in Caller |-> got[a]]
      /\ \A a \in Caller : IsABag(got[a]) /\ BagToSet(got[a]) \subseteq Doc
      /\ total \in [Caller -> Nat] /\ c \in Caller
  BY SlotForm DEF Slots, DataTypes
<1>2. CASE Receive(g)
  <2>1. gpc[g] # "none" /\ channel[g] # <<>>
    BY <1>2, GoMoves DEF Receive
  <2>2. channel[g] \in AnswerType(c)
    BY DEF Slots, AnswerTypes
  <2>3. CASE op[c] = "search"
    <3>1. Head(channel[g]) \in Doc
      BY <2>1, <2>2, <2>3, GoRuns, TailType
    <3>0. PICK B : B = got[c] (+) SetToBag({Head(channel[g])})
      OBVIOUS
    <3>2. /\ got' = [got EXCEPT ![c] = B] /\ UNCHANGED total
      BY <1>2, <2>3, <3>0 DEF Receive
    <3>3. IsABag(B) /\ BagToSet(B) \subseteq Doc
      <4>1. IsABag(got[c])
        BY <1>1
      <4>2. ASSUME NEW A, IsABag(A), NEW x, B = A (+) SetToBag({x})
            PROVE  IsABag(B) /\ BagToSet(B) = BagToSet(A) \cup {x}
        BY <4>2, BagGrows
      <4>3. IsABag(B) /\ BagToSet(B) = BagToSet(got[c]) \cup {Head(channel[g])}
        BY <3>0, <4>1, <4>2, Zenon
      <4> QED BY <1>1, <3>1, <4>3
    <3>4. got' = [a \in Caller |-> got'[a]] /\ \A a \in Caller : got'[a] = got[a] \/ got'[a] = B
      BY <1>1, <3>2
    <3> QED BY <1>1, <3>2, <3>3, <3>4
  <2>4. CASE op[c] # "search"
    <3>1. Head(channel[g]) \in Nat
      BY <2>1, <2>2, <2>4, GoRuns, TailType
    <3>2. total' = [total EXCEPT ![c] = total[c] + Head(channel[g])] /\ UNCHANGED got
      BY <1>1, <1>2, <2>4 DEF Receive
    <3> QED BY <1>1, <3>1, <3>2
  <2> QED BY <2>3, <2>4
<1>3. CASE ServeWrite(g)
  <2>1. UNCHANGED got /\ (UNCHANGED total \/ total' = [total EXCEPT ![c] = total[c] + 1])
    BY <1>1, <1>3 DEF ServeWrite
  <2> QED BY <1>1, <2>1
<1>4. CASE ~Receive(g) /\ ~ServeWrite(g)
  <2>1. UNCHANGED <<got, total>>
    BY <1>4 DEF GoStep, Check, CloseStale, Dial, Connect, ServeQuery, Fail, Break, Send
  <2> QED BY <1>1, <2>1
<1> QED BY <1>2, <1>3, <1>4

(* A write is counted once for each replica that has answered.                      *)
LEMMA ReplicasFinite ==
  /\ IsFiniteSet(Endpoint) /\ Cardinality(Endpoint) \in Nat
  /\ \A S \in SUBSET Endpoint :
       IsFiniteSet(S) /\ Cardinality(S) \in Nat /\ Cardinality(S) <= Cardinality(Endpoint)
BY HubProxyAssumption, FS_Subset, FS_CardinalityType DEF HubProxyAssumption

LEMMA GoTotals ==
  ASSUME Inv, Slots, NEW g \in Goroutine, GoStep(g)
  PROVE  TotalCounts'
<1> SUFFICES ASSUME NEW c \in Caller, op'[c] \in Write
             PROVE  /\ pc'[c] = "loop" => total'[c] = 0
                    /\ total'[c] <= Cardinality(IF pc'[c] = "wait" THEN DoneReplicas(c)' ELSE Endpoint)
  BY DEF TotalCounts
<1>1. /\ UNCHANGED <<pc, op>> /\ op[c] \in Write /\ op[c] \notin Query
      /\ \A h \in Goroutine \ {g} : gpc'[h] = gpc[h]
  BY GoMoves DEF Query, Write
<1>2. /\ pc[c] = "loop" => total[c] = 0
      /\ total[c] <= Cardinality(IF pc[c] = "wait" THEN DoneReplicas(c) ELSE Endpoint)
      /\ total \in [Caller -> Nat]
  BY <1>1 DEF Slots, TotalCounts, DataTypes
<1>3. /\ gpc \in [Goroutine -> Progress] /\ \A e \in Endpoint : <<c, e>> \in Goroutine
      /\ DoneReplicas(c) \in SUBSET Endpoint /\ DoneReplicas(c)' \in SUBSET Endpoint
  BY SlotForm DEF Inv, Shape, GoTypes, DoneReplicas, Slot
<1>4. DoneReplicas(c) \subseteq DoneReplicas(c)'
  BY <1>1, <1>3, GoProgress DEF DoneReplicas, Inv
<1>5. Cardinality(DoneReplicas(c)) <= Cardinality(DoneReplicas(c)')
  BY <1>3, <1>4, ReplicasFinite, FS_Subset
<1>6. CASE total'[c] = total[c]
  <2>1. /\ Cardinality(DoneReplicas(c)) \in Nat /\ Cardinality(DoneReplicas(c)') \in Nat
        /\ total[c] \in Nat
    BY <1>2, <1>3, ReplicasFinite
  <2> QED BY <1>1, <1>2, <1>5, <1>6, <2>1
<1>7. CASE ServeWrite(g) /\ g[1] = c
  <2>1. /\ gpc[g] = "call" /\ gpc' = [gpc EXCEPT ![g] = "done"]
        /\ total'[c] \in {total[c], total[c] + 1}
    BY <1>2, <1>7 DEF ServeWrite, Served, Go, Done
  <2>2. pc[c] = "wait" /\ g[2] \in Endpoint /\ g = <<c, g[2]>>
    BY <1>1, <1>7, <2>1, SlotForm DEF Slots, WriteSlots
  <2>3. g[2] \in DoneReplicas(c)' /\ g[2] \notin DoneReplicas(c)
    BY <1>3, <2>1, <2>2 DEF DoneReplicas
  <2>4. DoneReplicas(c)' # DoneReplicas(c)
    BY <2>3
  <2>5. Cardinality(DoneReplicas(c)) # Cardinality(DoneReplicas(c)')
    BY <1>3, <1>4, <2>4, ReplicasFinite, FS_Subset
  <2>6. /\ Cardinality(DoneReplicas(c)) \in Nat /\ Cardinality(DoneReplicas(c)') \in Nat
        /\ total[c] \in Nat
    BY <1>2, <1>3, ReplicasFinite
  <2> QED BY <1>1, <1>2, <1>5, <2>1, <2>2, <2>5, <2>6
<1>8. CASE ~(ServeWrite(g) /\ g[1] = c)
  <2>1. CASE ServeWrite(g) \/ Receive(g)
    <3>1. ServeWrite(g) => g[1] # c
      BY <1>8
    <3>2. Receive(g) => g[1] # c
      BY <1>1, GoMoves DEF Receive, Slots, WriteSlots
    <3> QED BY <1>2, <1>6, <2>1, <3>1, <3>2 DEF ServeWrite, Receive
  <2>2. CASE ~ServeWrite(g) /\ ~Receive(g)
    <3>1. UNCHANGED total
      BY <2>2 DEF GoStep, Check, CloseStale, Dial, Connect, ServeQuery, Fail, Break, Send
    <3> QED BY <1>6, <3>1
  <2> QED BY <2>1, <2>2
<1> QED BY <1>7, <1>8

LEMMA GoSlots ==
  ASSUME Inv, Slots, NEW g \in Goroutine, GoStep(g)
  PROVE  Slots'
<1>1. UNCHANGED <<doc, calls, known, quiet>>
  BY GoMoves
<1>2. upsets' \subseteq {"fault", "expired", "shared", "overlap", "nogroup"}
  BY DEF GoStep, Check, CloseStale, Dial, Connect, ServeWrite, ServeQuery, Fail, Break, Send,
         Receive, Slots, DataTypes
<1>3. answer' \in [Goroutine -> Seq(Doc \cup Nat)] /\ channel' \in [Goroutine -> Seq(Doc \cup Nat)]
  <2>1. \A h \in Goroutine : answer'[h] \in Seq(Doc) \cup Seq(Nat) /\ channel'[h] \in Seq(Doc) \cup Seq(Nat)
    BY GoAnswerTypes DEF AnswerTypes, AnswerType
  <2>2. Seq(Doc) \cup Seq(Nat) \subseteq Seq(Doc \cup Nat)
    OBVIOUS
  <2>3. /\ answer' = [h \in Goroutine |-> answer'[h]] /\ channel' = [h \in Goroutine |-> channel'[h]]
    BY DEF GoStep, Check, CloseStale, Dial, Connect, ServeWrite, ServeQuery, Fail, Break, Send,
           Receive, Slots, DataTypes
  <2> HIDE DEF goVars
  <2> QED BY <2>1, <2>2, <2>3
<1>4. DataTypes'
  BY <1>1, <1>2, <1>3, GoConnTypes, GoStored, GoReceived DEF Slots, DataTypes
<1> QED BY <1>4, GoFreeSlots, GoWriteSlots, GoAnswerTypes, GoTotals DEF Slots

------------------------------------------------------------------------------
(* A caller's call begins with nothing in its slots, ...                            *)
LEMMA EmptyBagForm == IsABag(EmptyBag) /\ BagToSet(EmptyBag) = {}
BY DEF IsABag, EmptyBag, SetToBag, BagToSet

LEMMA BeginEffect ==
  ASSUME Inv, Slots, NEW c \in Caller, NEW o \in Query \cup Write, NEW d \in {NoDoc} \cup Doc,
         Begin(c, o, d)
  PROVE  /\ ~Running(c) /\ UNCHANGED <<goVars, netVars, envVars>>
         /\ \A g \in Goroutine : g[1] = c =>
              gpc[g] = "none" /\ answer[g] = <<>> /\ channel[g] = <<>>
         /\ op'[c] = o /\ doc'[c] = d /\ got'[c] = EmptyBag /\ total'[c] = 0
         /\ \A a \in Caller \ {c} :
              op'[a] = op[a] /\ doc'[a] = doc[a] /\ got'[a] = got[a] /\ total'[a] = total[a]
         /\ doc' \in [Caller -> {NoDoc} \cup Doc] /\ total' \in [Caller -> Nat] /\ calls' \in Nat
         /\ got' = [a \in Caller |-> got'[a]]
         /\ \A a \in Caller : IsABag(got'[a]) /\ BagToSet(got'[a]) \subseteq Doc
<1>1. /\ ~Running(c) /\ UNCHANGED <<goVars, netVars, envVars>> /\ calls' = calls + 1
      /\ op' = [op EXCEPT ![c] = o] /\ doc' = [doc EXCEPT ![c] = d]
      /\ got' = [got EXCEPT ![c] = EmptyBag] /\ total' = [total EXCEPT ![c] = 0]
  BY DEF Begin
<1>2. /\ op \in [Caller -> Query \cup Write] /\ doc \in [Caller -> {NoDoc} \cup Doc]
      /\ total \in [Caller -> Nat] /\ calls \in Nat /\ got = [a \in Caller |-> got[a]]
      /\ \A a \in Caller : IsABag(got[a]) /\ BagToSet(got[a]) \subseteq Doc
  BY DEF Inv, Shape, CallerTypes, Slots, DataTypes
<1>3. /\ got' = [a \in Caller |-> got'[a]] /\ got'[c] = EmptyBag
      /\ \A a \in Caller \ {c} : got'[a] = got[a]
  <2> DEFINE E == EmptyBag
  <2>1. got' = [got EXCEPT ![c] = E]
    BY <1>1
  <2> HIDE DEF E
  <2>2. got' = [a \in Caller |-> got'[a]] /\ got'[c] = E /\ \A a \in Caller \ {c} : got'[a] = got[a]
    BY <1>2, <2>1
  <2> QED BY <2>2 DEF E
<1>4. \A a \in Caller : IsABag(got'[a]) /\ BagToSet(got'[a]) \subseteq Doc
  <2> TAKE a \in Caller
  <2>1. CASE a = c
    BY <1>3, <2>1, EmptyBagForm
  <2>2. CASE a # c
    BY <1>2, <1>3, <2>2
  <2> QED BY <2>1, <2>2
<1>5. \A g \in Goroutine : g[1] = c => gpc[g] = "none" /\ answer[g] = <<>> /\ channel[g] = <<>>
  BY <1>1 DEF Slots, FreeSlots
<1> QED BY <1>1, <1>2, <1>3, <1>4, <1>5

LEMMA BeginSlots ==
  ASSUME Inv, Slots, NEW c \in Caller,
         (\E o \in Query : BeginQuery(c, o)) \/ (\E o \in Write, d \in Written : BeginWrite(c, o, d))
  PROVE  Slots'
<1>1. PICK o \in Query \cup Write, d \in {NoDoc} \cup Doc : 
        /\ Begin(c, o, d) /\ (o \in Write => d \in Doc)
        /\ \A a \in Caller \ {c} : pc'[a] = pc[a] /\ n'[a] = n[a] /\ i'[a] = i[a]
        /\ pc'[c] \in {"loop", "returned", pc[c]}
        /\ o \in Query /\ pc'[c] = "loop" => n'[c] > 0
        /\ expired' = [expired EXCEPT ![c] = FALSE]
        /\ upsets' \subseteq upsets \cup {"nogroup", "overlap"}
        /\ known' = known \/ known' = [known EXCEPT ![d] = "unknown"]
        /\ \/ quiet' = [quiet EXCEPT ![c] = known]
           \/ quiet' = [a \in Caller |-> [quiet[a] EXCEPT ![d] = "unknown"]]
  <2>1. pc \in [Caller -> {"idle", "loop", "wait", "returned"}] /\ n \in [Caller -> ShardCounts \cup {0}]
        /\ i \in [Caller -> Nat]
    BY DEF Inv, Shape, CallerTypes
  <2>2. ASSUME NEW o \in Query, BeginQuery(c, o)
        PROVE  /\ Begin(c, o, NoDoc) /\ o \notin Write
               /\ \A a \in Caller \ {c} : pc'[a] = pc[a] /\ n'[a] = n[a] /\ i'[a] = i[a]
               /\ pc'[c] \in {"loop", "returned", pc[c]}
               /\ o \in Query /\ pc'[c] = "loop" => n'[c] > 0
               /\ expired' = [expired EXCEPT ![c] = FALSE]
               /\ upsets' \subseteq upsets \cup {"nogroup", "overlap"}
               /\ known' = known /\ quiet' = [quiet EXCEPT ![c] = known]
    BY <2>1, <2>2 DEF BeginQuery, Begin, ReadsNoGroup, Query, Write
  <2>3. ASSUME NEW o \in Write, NEW d \in Written, BeginWrite(c, o, d)
        PROVE  /\ Begin(c, o, d) /\ o \notin Query
               /\ \A a \in Caller \ {c} : pc'[a] = pc[a] /\ n'[a] = n[a] /\ i'[a] = i[a]
               /\ pc'[c] \in {"loop", "returned", pc[c]}
               /\ expired' = [expired EXCEPT ![c] = FALSE]
               /\ upsets' \subseteq upsets \cup {"nogroup", "overlap"}
               /\ known' = [known EXCEPT ![d] = "unknown"]
               /\ quiet' = [a \in Caller |-> [quiet[a] EXCEPT ![d] = "unknown"]]
    BY <2>1, <2>3 DEF BeginWrite, Begin, ReadsNoGroup, Query, Write
  <2>4. Written \subseteq Doc
    BY SentinelAssumption DEF SentinelAssumption
  <2> QED BY <2>2, <2>3, <2>4
<1>2. /\ ~Running(c) /\ UNCHANGED <<goVars, netVars, envVars>>
      /\ \A g \in Goroutine : g[1] = c => gpc[g] = "none" /\ answer[g] = <<>> /\ channel[g] = <<>>
      /\ op'[c] = o /\ doc'[c] = d /\ total'[c] = 0
      /\ \A a \in Caller \ {c} :
           op'[a] = op[a] /\ doc'[a] = doc[a] /\ got'[a] = got[a] /\ total'[a] = total[a]
      /\ doc' \in [Caller -> {NoDoc} \cup Doc] /\ total' \in [Caller -> Nat] /\ calls' \in Nat
      /\ got' = [a \in Caller |-> got'[a]]
      /\ \A a \in Caller : IsABag(got'[a]) /\ BagToSet(got'[a]) \subseteq Doc
  BY <1>1, BeginEffect
<1>3. FreeSlots'
  BY <1>1, <1>2, SlotForm DEF Slots, FreeSlots, Running
<1>f. /\ Running(c)' => pc'[c] = "loop" /\ o = op'[c]
      /\ \A g \in Goroutine : gpc'[g] # "none" => g[1] \in Caller \ {c}
      /\ \A a \in Caller \ {c} : Running(a)' <=> Running(a)
  BY <1>1, <1>2, SlotForm DEF Running
<1>4. QuerySlots'
  <2>1. \A a \in Caller : Running(a)' /\ op'[a] \in Query => n'[a] > 0 /\ (pc'[a] = "wait" => i'[a] = n'[a])
    <3> TAKE a \in Caller
    <3>1. CASE a = c
      BY <1>1, <1>f, <3>1
    <3>2. CASE a # c
      BY <1>1, <1>2, <1>f, <3>2 DEF Slots, QuerySlots
    <3> QED BY <3>1, <3>2
  <2>2. \A g \in Goroutine : gpc'[g] # "none" /\ op'[g[1]] \in Query => g[2] < i'[g[1]]
    BY <1>1, <1>2, <1>f DEF Slots, QuerySlots
  <2> QED BY <2>1, <2>2 DEF QuerySlots
<1>5. WriteSlots'
  <2>1. \A a \in Caller : Running(a)' /\ op'[a] \in Write => doc'[a] \in Doc
    <3> TAKE a \in Caller
    <3>1. CASE a = c
      BY <1>1, <1>2, <1>f, <3>1
    <3>2. CASE a # c
      BY <1>1, <1>2, <1>f, <3>2 DEF Slots, WriteSlots
    <3> QED BY <3>1, <3>2
  <2>2. \A g \in Goroutine : gpc'[g] # "none" /\ op'[g[1]] \in Write =>
          /\ pc'[g[1]] = "wait" /\ g[2] \in Endpoint /\ target'[g] = g[2]
          /\ gpc'[g] # "send" /\ answer'[g] = <<>> /\ channel'[g] = <<>>
    BY <1>1, <1>2, <1>f DEF Slots, WriteSlots
  <2> QED BY <2>1, <2>2 DEF WriteSlots
<1>6. AnswerTypes'
  <2>0. <<>> \in Seq(Doc) /\ <<>> \in Seq(Nat)
    OBVIOUS
  <2>1. \A a \in Caller : <<>> \in AnswerType(a)'
                           /\ (a # c => AnswerType(a)' = AnswerType(a) /\ expired'[a] = expired[a])
    <3>1. \A a \in Caller : <<>> \in AnswerType(a)'
      BY <2>0 DEF AnswerType
    <3>2. \A a \in Caller : a # c => AnswerType(a)' = AnswerType(a)
      BY <1>2 DEF AnswerType
    <3>3. \A a \in Caller : a # c => expired'[a] = expired[a]
      BY <1>1 DEF Inv, Shape, CallerTypes
    <3> QED BY <3>1, <3>2, <3>3
  <2>2. ASSUME NEW g \in Goroutine, g[1] = c
        PROVE  gpc'[g] = "none" /\ answer'[g] = <<>> /\ channel'[g] = <<>> /\ Len(<<>>) <= Capacity
    BY <1>2, <2>2, SentinelAssumption DEF SentinelAssumption
  <2> QED BY <1>2, <2>1, <2>2, SlotForm DEF Slots, AnswerTypes
<1>7. TotalCounts'
  <2>1. \A a \in Caller \ {c} : DoneReplicas(a)' = DoneReplicas(a)
    BY <1>2 DEF DoneReplicas
  <2>2. pc'[c] # "wait" /\ total'[c] = 0 /\ 0 <= Cardinality(Endpoint)
    BY <1>1, <1>2, ReplicasFinite DEF Running
  <2> QED BY <1>1, <1>2, <2>1, <2>2 DEF Slots, TotalCounts
<1>8. DataTypes'
  <2>1. known' \in [Doc -> Known] /\ quiet' \in [Caller -> [Doc -> Known]]
    <3>1. known \in [Doc -> Known] /\ quiet \in [Caller -> [Doc -> Known]] /\ "unknown" \in Known
      BY DEF Slots, DataTypes, Known
    <3>2. known' \in [Doc -> Known]
      BY <1>1, <3>1
    <3>3. \A a \in Caller : [quiet[a] EXCEPT ![d] = "unknown"] \in [Doc -> Known]
      BY <3>1
    <3>4. quiet' \in [Caller -> [Doc -> Known]]
      BY <1>1, <3>1, <3>3
    <3> QED BY <3>2, <3>4
  <2>2. upsets' \subseteq {"fault", "expired", "shared", "overlap", "nogroup"}
    BY <1>1 DEF Slots, DataTypes
  <2> QED BY <1>2, <2>1, <2>2 DEF Slots, DataTypes
<1> QED BY <1>3, <1>4, <1>5, <1>6, <1>7, <1>8 DEF Slots

(* ... goes on without touching them, ...                                           *)
LEMMA WaitSlots ==
  ASSUME Inv, Slots, NEW c \in Caller,
         Find(c) \/ AwaitWatch(c) \/ FindOne(c) \/ NoReplica(c) \/ CloseChannels(c) \/ Expire(c)
  PROVE  Slots'
<1>1. /\ UNCHANGED <<op, doc, n, i, got, total, goVars, netVars, calls, quiet>>
      /\ \A a \in Caller : expired[a] => expired'[a]
      /\ upsets' \subseteq upsets \cup {"expired"}
      /\ known' = known
      /\ \A a \in Caller : pc'[a] = pc[a]
           \/ (a = c /\ pc[c] = "loop" /\ pc'[a] = "returned" /\ op[c] \in Write)
  <2>1. pc \in [Caller -> {"idle", "loop", "wait", "returned"}] /\ expired \in [Caller -> BOOLEAN]
    BY DEF Inv, Shape, CallerTypes
  <2> QED BY <2>1 DEF Find, AwaitWatch, FindOne, NoReplica, CloseChannels, Expire
<1>2. \A g \in Goroutine : g[1] = c /\ op[c] \in Write /\ pc[c] = "loop" => gpc[g] = "none"
  BY DEF Slots, WriteSlots
<1>3. FreeSlots' /\ QuerySlots' /\ WriteSlots'
  BY <1>1, <1>2, SlotForm DEF Slots, FreeSlots, QuerySlots, WriteSlots, Running, Query, Write
<1>4. AnswerTypes'
  <2>1. \A a \in Caller : AnswerType(a)' = AnswerType(a)
    BY <1>1 DEF AnswerType
  <2> QED BY <1>1, <2>1, SlotForm DEF Slots, AnswerTypes
<1>5. TotalCounts'
  <2>1. \A a \in Caller : DoneReplicas(a)' = DoneReplicas(a)
    BY <1>1 DEF DoneReplicas
  <2> QED BY <1>1, <2>1, ReplicasFinite DEF Slots, TotalCounts
<1>6. DataTypes'
  BY <1>1 DEF Slots, DataTypes, Known
<1> QED BY <1>3, <1>4, <1>5, <1>6 DEF Slots

(* ... fills the slot of one group, ...                                             *)
LEMMA GroupSlotIsFree ==
  ASSUME Inv, Slots, NEW c \in Caller, pc[c] = "loop", op[c] \in Query
  PROVE  /\ <<c, i[c]>> \in Goroutine /\ gpc[<<c, i[c]>>] = "none" /\ i[c] < n[c]
         /\ target[<<c, i[c]>>] = NoEndpoint /\ conn[<<c, i[c]>>] = 0
         /\ answer[<<c, i[c]>>] = <<>> /\ channel[<<c, i[c]>>] = <<>>
<1>1. i[c] \in Group /\ i[c] < n[c] /\ i[c] \in Nat
  BY DEF Inv, LoopIsInGroup, Shape, CallerTypes
<1>2. <<c, i[c]>> \in Goroutine /\ <<c, i[c]>>[1] = c /\ <<c, i[c]>>[2] = i[c]
  BY <1>1, SlotForm DEF Slot
<1>3. gpc[<<c, i[c]>>] = "none"
  BY <1>1, <1>2 DEF Slots, QuerySlots
<1> QED BY <1>1, <1>2, <1>3 DEF Slots, FreeSlots

LEMMA GroupEffect ==
  ASSUME Inv, Slots, NEW c \in Caller, op[c] \in Query, SkipGroup(c) \/ AskGroup(c)
  PROVE  /\ pc[c] = "loop" /\ pc'[c] = (IF i[c] + 1 = n[c] THEN "wait" ELSE "loop")
         /\ i'[c] = i[c] + 1
         /\ \A a \in Caller \ {c} : pc'[a] = pc[a] /\ i'[a] = i[a]
         /\ gpc'[<<c, i[c]>>] = (IF SkipGroup(c) THEN "done" ELSE "check")
         /\ SkipGroup(c) => target'[<<c, i[c]>>] = target[<<c, i[c]>>]
         /\ ~SkipGroup(c) => target'[<<c, i[c]>>] = picked[c]
         /\ \A g \in Goroutine \ {<<c, i[c]>>} : gpc'[g] = gpc[g] /\ target'[g] = target[g]
         /\ UNCHANGED <<op, doc, n, expired, closed, got, total, conn, answer, channel>>
         /\ UNCHANGED <<netVars, envVars, ghosts, process>>
<1>1. /\ pc \in [Caller -> {"idle", "loop", "wait", "returned"}] /\ i \in [Caller -> Nat]
      /\ gpc \in [Goroutine -> Progress] /\ target \in [Goroutine -> Target]
      /\ <<c, i[c]>> \in Goroutine
  <2>1. pc[c] = "loop"
    BY DEF SkipGroup, AskGroup
  <2> QED BY <2>1, GroupSlotIsFree DEF Inv, Shape, CallerTypes, GoTypes
<1>2. /\ pc[c] = "loop" /\ i' = [i EXCEPT ![c] = i[c] + 1]
      /\ pc' = IF i[c] + 1 = n[c] THEN [pc EXCEPT ![c] = "wait"] ELSE pc
      /\ UNCHANGED <<op, doc, n, expired, closed, got, total, conn, answer, channel>>
      /\ UNCHANGED <<netVars, envVars, ghosts, process>>
  BY <1>1 DEF SkipGroup, AskGroup, NextGroup
<1>3. CASE SkipGroup(c)
  <2>1. gpc' = [gpc EXCEPT ![<<c, i[c]>>] = "done"] /\ UNCHANGED target
    BY <1>3 DEF SkipGroup
  <2> QED BY <1>1, <1>2, <1>3, <2>1
<1>4. CASE ~SkipGroup(c) /\ AskGroup(c)
  <2>1. /\ gpc' = [gpc EXCEPT ![<<c, i[c]>>] = "check"]
        /\ target' = [target EXCEPT ![<<c, i[c]>>] = picked[c]]
    BY <1>4 DEF AskGroup
  <2> QED BY <1>1, <1>2, <1>4, <2>1
<1> QED BY <1>3, <1>4

LEMMA GroupSlots ==
  ASSUME Inv, Slots, NEW c \in Caller, op[c] \in Query, SkipGroup(c) \/ AskGroup(c)
  PROVE  Slots'
<1> DEFINE s == <<c, i[c]>>
<1>1. /\ pc[c] = "loop" /\ pc'[c] = (IF i[c] + 1 = n[c] THEN "wait" ELSE "loop")
      /\ i'[c] = i[c] + 1
      /\ \A a \in Caller \ {c} : pc'[a] = pc[a] /\ i'[a] = i[a]
      /\ gpc'[s] \in {"done", "check"}
      /\ \A g \in Goroutine \ {s} : gpc'[g] = gpc[g] /\ target'[g] = target[g]
      /\ UNCHANGED <<op, doc, n, expired, got, total, conn, answer, channel>>
      /\ UNCHANGED <<netVars, ghosts>>
  BY GroupEffect
<1>2. /\ s \in Goroutine /\ s[1] = c /\ s[2] = i[c] /\ gpc[s] = "none" /\ i[c] < n[c]
      /\ target[s] = NoEndpoint /\ conn[s] = 0 /\ answer[s] = <<>> /\ channel[s] = <<>>
      /\ i[c] \in Nat /\ n[c] \in Nat /\ op[c] \notin Write
  <2>1. s \in Goroutine /\ s[1] = c /\ s[2] = i[c]
    BY <1>1, GroupSlotIsFree
  <2>2. i[c] \in Nat /\ n[c] \in Nat
    <3>1. i[c] \in Nat /\ n[c] \in ShardCounts \cup {0}
      BY DEF Inv, Shape, CallerTypes
    <3> QED BY <3>1, CountType, Zenon
  <2>3. op[c] \notin Write
    BY DEF Query, Write
  <2> QED BY <1>1, <2>1, <2>2, <2>3, GroupSlotIsFree
<1> HIDE DEF s
<1>3. FreeSlots'
  <2>1. ASSUME NEW g \in Goroutine PROVE Running(g[1])' <=> Running(g[1])
    BY <1>1, SlotForm DEF Running
  <2>2. ASSUME NEW g \in Goroutine, ~Running(g[1])' PROVE gpc'[g] = "none"
    <3>1. g # s
      BY <1>1, <1>2, <2>2 DEF Running
    <3> QED BY <1>1, <2>1, <2>2, <3>1 DEF Slots, FreeSlots
  <2>3. ASSUME NEW g \in Goroutine, gpc'[g] = "none"
        PROVE  target'[g] = NoEndpoint /\ conn'[g] = 0 /\ answer'[g] = <<>> /\ channel'[g] = <<>>
    <3>1. g # s
      BY <1>1, <2>3
    <3> QED BY <1>1, <2>3, <3>1 DEF Slots, FreeSlots
  <2> QED BY <2>2, <2>3 DEF FreeSlots
<1>4. QuerySlots'
  <2>1. \A a \in Caller : Running(a)' /\ op'[a] \in Query => n'[a] > 0 /\ (pc'[a] = "wait" => i'[a] = n'[a])
    <3> TAKE a \in Caller
    <3>1. CASE a = c
      BY <1>1, <1>2, <3>1
    <3>2. CASE a # c
      BY <1>1, <3>2 DEF Slots, QuerySlots, Running
    <3> QED BY <3>1, <3>2
  <2>2. \A g \in Goroutine : gpc'[g] # "none" /\ op'[g[1]] \in Query => g[2] < i'[g[1]]
    <3> TAKE g \in Goroutine
    <3>1. CASE g = s
      BY <1>1, <1>2, <3>1
    <3>2. CASE g # s
      <4>1. g[1] \in Caller /\ g[2] \in Nat /\ i[g[1]] \in Nat
        BY SlotForm DEF Inv, Shape, CallerTypes
      <4>2. i'[g[1]] \in {i[g[1]], i[g[1]] + 1}
        BY <1>1, <4>1
      <4> QED BY <1>1, <3>2, <4>1, <4>2 DEF Slots, QuerySlots
    <3> QED BY <3>1, <3>2
  <2> QED BY <2>1, <2>2 DEF QuerySlots
<1>5. WriteSlots'
  BY <1>1, <1>2, SlotForm DEF Slots, WriteSlots, Running
<1>6. AnswerTypes'
  <2>1. \A a \in Caller : AnswerType(a)' = AnswerType(a)
    BY <1>1 DEF AnswerType
  <2> QED BY <1>1, <1>2, <2>1, SlotForm DEF Slots, AnswerTypes
<1>7. TotalCounts'
  <2>1. ASSUME NEW a \in Caller, op'[a] \in Write
        PROVE  DoneReplicas(a)' = DoneReplicas(a) /\ a # c
    <3>1. a # c
      BY <1>1, <1>2, <2>1
    <3>2. \A e \in Endpoint : <<a, e>> \in Goroutine /\ <<a, e>> # s
      BY <1>2, <3>1, SlotForm DEF Slot
    <3> QED BY <1>1, <3>1, <3>2 DEF DoneReplicas
  <2> QED BY <1>1, <2>1 DEF Slots, TotalCounts
<1>8. DataTypes'
  <2>1. \A g \in Goroutine : conn'[g] \in 0 .. Len(conns'[target'[g]])
    <3> TAKE g \in Goroutine
    <3>1. CASE g = s
      <4>1. target'[g] \in Target /\ conns \in [Target -> Seq(ConnState)]
        BY CallerProgress DEF CallerStep, GoTypes, Inv, Shape, PoolTypes
      <4> QED BY <1>1, <1>2, <3>1, <4>1
    <3>2. CASE g # s
      BY <1>1, <3>2 DEF Slots, DataTypes
    <3> QED BY <3>1, <3>2
  <2> QED BY <1>1, <2>1 DEF Slots, DataTypes
<1> QED BY <1>3, <1>4, <1>5, <1>6, <1>7, <1>8 DEF Slots

(* ... or those of the replicas, ...                                                *)
LEMMA ReplicaSlots ==
  ASSUME Inv, Slots, NEW c \in Caller, AskReplicas(c)
  PROVE  Slots'
<1>1. /\ pc[c] = "loop" /\ op[c] \in Write /\ op[c] \notin Query /\ pc'[c] = "wait"
      /\ \A a \in Caller \ {c} : pc'[a] = pc[a]
      /\ gpc' = [g \in Goroutine |-> IF g[1] = c /\ g[2] \in list[c] THEN "check" ELSE gpc[g]]
      /\ target' = [g \in Goroutine |-> IF g[1] = c /\ g[2] \in list[c] THEN g[2] ELSE target[g]]
      /\ UNCHANGED <<op, doc, n, i, expired, got, total, conn, answer, channel, netVars, ghosts>>
  BY DEF AskReplicas, Inv, Shape, CallerTypes, Query, Write
<1>2. list[c] \subseteq Endpoint
  BY DEF Inv, HubInv, HubTypeOK, List
<1>3. \A g \in Goroutine : g[1] = c =>
        /\ gpc[g] = "none" /\ target[g] = NoEndpoint /\ conn[g] = 0
        /\ answer[g] = <<>> /\ channel[g] = <<>>
  BY <1>1 DEF Slots, FreeSlots, WriteSlots
<1>4. \A a \in Caller : Running(a)' <=> Running(a)
  BY <1>1 DEF Running
<1>5. FreeSlots'
  BY <1>1, <1>3, <1>4, SlotForm DEF Slots, FreeSlots, Running
<1>6. QuerySlots'
  BY <1>1, <1>4, SlotForm DEF Slots, QuerySlots
<1>7. WriteSlots'
  BY <1>1, <1>2, <1>3, <1>4, SlotForm DEF Slots, WriteSlots
<1>8. AnswerTypes'
  <2>1. \A a \in Caller : AnswerType(a)' = AnswerType(a)
    BY <1>1 DEF AnswerType
  <2> QED BY <1>1, <1>3, <2>1, SlotForm DEF Slots, AnswerTypes
<1>9. TotalCounts'
  <2>1. ASSUME NEW a \in Caller \ {c} PROVE DoneReplicas(a)' = DoneReplicas(a)
    <3>1. \A e \in Endpoint : <<a, e>> \in Goroutine /\ <<a, e>>[1] # c
      BY SlotForm DEF Slot
    <3> QED BY <1>1, <3>1 DEF DoneReplicas
  <2>2. total'[c] = 0 /\ 0 <= Cardinality(DoneReplicas(c)')
    <3>1. DoneReplicas(c)' \in SUBSET Endpoint
      BY DEF DoneReplicas
    <3>2. Cardinality(DoneReplicas(c)') \in Nat
      BY <3>1, ReplicasFinite
    <3> QED BY <1>1, <3>2 DEF Slots, TotalCounts
  <2> QED BY <1>1, <2>1, <2>2 DEF Slots, TotalCounts
<1>10. DataTypes'
  <2>1. \A g \in Goroutine : target'[g] \in Target /\ conns \in [Target -> Seq(ConnState)]
    BY CallerProgress DEF CallerStep, GoTypes, Inv, Shape, PoolTypes
  <2>2. \A g \in Goroutine : conn'[g] \in 0 .. Len(conns'[target'[g]])
    BY <1>1, <1>3, <2>1 DEF Slots, DataTypes
  <2> QED BY <1>1, <2>2 DEF Slots, DataTypes
<1> QED BY <1>5, <1>6, <1>7, <1>8, <1>9, <1>10 DEF Slots

(* ... and returns with all its channels empty.                                     *)
LEMMA ReturnSlots ==
  ASSUME Inv, Slots, NEW c \in Caller, (op[c] \in Query /\ ReturnQuery(c)) \/ ReturnWrite(c)
  PROVE  Slots'
<1>1. /\ pc[c] = "wait" /\ pc'[c] = "returned" /\ Forget(c)
      /\ \A a \in Caller \ {c} : pc'[a] = pc[a]
      /\ UNCHANGED <<op, doc, n, i, expired, got, total, netVars, calls, upsets, quiet>>
      /\ known' = known \/ (op[c] \in Write /\ \E k \in Known : known' = [known EXCEPT ![doc[c]] = k])
  BY DEF ReturnQuery, ReturnWrite, Inv, Shape, CallerTypes, Known
<1>2. ASSUME NEW g \in Goroutine, g[1] = c
      PROVE  channel[g] = <<>>
  <2>1. CASE gpc[g] = "none" \/ op[c] \in Write
    BY <1>2, <2>1 DEF Slots, FreeSlots, WriteSlots
  <2>2. CASE gpc[g] # "none" /\ op[c] \in Query
    <3>1. g[2] < n[c]
      BY <1>1, <1>2, <2>2 DEF Slots, QuerySlots, Running
    <3>2. g[2] \in Nat /\ n[c] \in Nat
      BY SlotForm, SentinelAssumption DEF SentinelAssumption, Inv, Shape, CallerTypes
    <3>3. g \in Producers(c)
      BY <1>2, <3>1, <3>2 DEF Producers
    <3>4. ~ReturnWrite(c)
      BY <2>2 DEF ReturnWrite, Query, Write
    <3> QED BY <3>3, <3>4 DEF ReturnQuery
  <2> QED BY <2>1, <2>2 DEF Inv, Shape, CallerTypes
<1>3. /\ \A g \in Goroutine : g[1] = c =>
           /\ gpc'[g] = "none" /\ target'[g] = NoEndpoint /\ conn'[g] = 0
           /\ answer'[g] = <<>> /\ channel'[g] = <<>>
      /\ \A g \in Goroutine : g[1] # c =>
           /\ gpc'[g] = gpc[g] /\ target'[g] = target[g] /\ conn'[g] = conn[g]
           /\ answer'[g] = answer[g] /\ channel'[g] = channel[g]
      /\ answer' = [g \in Goroutine |-> answer'[g]] /\ UNCHANGED channel
  BY <1>1, <1>2 DEF Forget
<1>4. FreeSlots'
  BY <1>1, <1>3, SlotForm DEF Slots, FreeSlots, Running
<1>5. QuerySlots'
  BY <1>1, <1>3, SlotForm DEF Slots, QuerySlots, Running
<1>6. WriteSlots'
  BY <1>1, <1>3, SlotForm DEF Slots, WriteSlots, Running
<1>7. AnswerTypes'
  <2>1. \A a \in Caller : AnswerType(a)' = AnswerType(a)
    BY <1>1 DEF AnswerType
  <2>2. \A a \in Caller : <<>> \in AnswerType(a) /\ Len(<<>>) <= Capacity
    <3>1. <<>> \in Seq(Doc) /\ <<>> \in Seq(Nat) /\ Len(<<>>) = 0
      OBVIOUS
    <3> QED BY <3>1, SentinelAssumption DEF SentinelAssumption, AnswerType
  <2>3. ASSUME NEW g \in Goroutine, g[1] = c
        PROVE  /\ answer'[g] \in AnswerType(c)' /\ channel'[g] \in AnswerType(c)'
               /\ Len(channel'[g]) <= Capacity /\ gpc'[g] = "none"
    BY <1>3, <2>1, <2>2, <2>3
  <2> QED BY <1>1, <1>3, <2>1, <2>3, SlotForm DEF Slots, AnswerTypes
<1>8. TotalCounts'
  <2>1. ASSUME NEW a \in Caller \ {c} PROVE DoneReplicas(a)' = DoneReplicas(a)
    <3>1. \A e \in Endpoint : <<a, e>> \in Goroutine /\ <<a, e>>[1] # c
      BY SlotForm DEF Slot
    <3> QED BY <1>3, <3>1 DEF DoneReplicas
  <2>2. op[c] \in Write => total[c] <= Cardinality(Endpoint)
    <3>1. DoneReplicas(c) \in SUBSET Endpoint
      BY DEF DoneReplicas
    <3>2. /\ Cardinality(DoneReplicas(c)) \in Nat /\ Cardinality(Endpoint) \in Nat
          /\ Cardinality(DoneReplicas(c)) <= Cardinality(Endpoint)
      BY <3>1, ReplicasFinite
    <3>3. total[c] \in Nat
      BY DEF Slots, DataTypes
    <3>4. op[c] \in Write => total[c] <= Cardinality(DoneReplicas(c))
      BY <1>1 DEF Slots, TotalCounts
    <3> QED BY <3>2, <3>3, <3>4
  <2> QED BY <1>1, <2>1, <2>2 DEF Slots, TotalCounts
<1>9. DataTypes'
  <2>1. \A g \in Goroutine : target'[g] \in Target /\ conns \in [Target -> Seq(ConnState)]
    BY CallerProgress DEF CallerStep, GoTypes, Inv, Shape, PoolTypes
  <2>2. ASSUME NEW g \in Goroutine PROVE conn'[g] \in 0 .. Len(conns'[target'[g]])
    <3>1. CASE g[1] = c
      BY <1>1, <1>3, <2>1, <3>1
    <3>2. CASE g[1] # c
      BY <1>1, <1>3, <3>2 DEF Slots, DataTypes
    <3> QED BY <3>1, <3>2
  <2>3. known' \in [Doc -> Known]
    BY <1>1 DEF Slots, DataTypes
  <2>4. answer' \in [Goroutine -> Seq(Doc \cup Nat)]
    <3>1. \A g \in Goroutine : answer'[g] = <<>> \/ answer'[g] = answer[g]
      BY <1>3
    <3>2. <<>> \in Seq(Doc \cup Nat)
      OBVIOUS
    <3> HIDE DEF goVars
    <3> QED BY <1>3, <3>1, <3>2 DEF Slots, DataTypes
  <2> QED BY <1>1, <1>3, <2>2, <2>3, <2>4 DEF Slots, DataTypes
<1> QED BY <1>4, <1>5, <1>6, <1>7, <1>8, <1>9 DEF Slots

LEMMA EnvSlots ==
  ASSUME Inv, Slots, EnvStep
  PROVE  Slots'
<1>1. /\ UNCHANGED <<callVars, goVars, stored, calls, known, quiet>>
      /\ upsets' \subseteq upsets \cup {"fault"}
  BY DEF EnvStep, Crash, Register, Resize, Fault
<1>2. \A u \in Target : Len(conns'[u]) = Len(conns[u])
  <2>1. ASSUME NEW e \in Unsteady, Crash(e), NEW u \in Target PROVE Len(conns'[u]) = Len(conns[u])
    <3> DEFINE lost == [k \in DOMAIN conns[e] |-> IF conns[e][k] = "ready" THEN "idle" ELSE conns[e][k]]
    <3>1. e \in Target /\ conns[e] \in Seq(ConnState) /\ conns \in [Target -> Seq(ConnState)]
      BY HubProxyAssumption DEF HubProxyAssumption, Target, Inv, Shape, PoolTypes
    <3>2. lost \in Seq(ConnState) /\ Len(lost) = Len(conns[e])
      BY <3>1 DEF ConnState
    <3>3. conns' = [conns EXCEPT ![e] = lost]
      BY <2>1, <3>1 DEF Crash
    <3> HIDE DEF lost
    <3> QED BY <3>1, <3>2, <3>3
  <2>2. UNCHANGED conns \/ \E e \in Unsteady : Crash(e)
    BY DEF EnvStep, Register, Resize
  <2> QED BY <2>1, <2>2
<1>3. FreeSlots' /\ QuerySlots' /\ WriteSlots'
  BY <1>1 DEF Slots, FreeSlots, QuerySlots, WriteSlots, Running
<1>4. AnswerTypes' /\ TotalCounts'
  <2>1. \A a \in Caller : AnswerType(a)' = AnswerType(a) /\ DoneReplicas(a)' = DoneReplicas(a)
    BY <1>1 DEF AnswerType, DoneReplicas
  <2> QED BY <1>1, <2>1, SlotForm DEF Slots, AnswerTypes, TotalCounts
<1>5. DataTypes'
  <2>1. target \in [Goroutine -> Target]
    BY DEF Inv, Shape, GoTypes
  <2> QED BY <1>1, <1>2, <2>1 DEF Slots, DataTypes
<1> QED BY <1>3, <1>4, <1>5 DEF Slots

LEMMA InitSlots == Init => Slots
<1> SUFFICES ASSUME Init PROVE Slots
  OBVIOUS
<1>1. /\ gpc = [g \in Goroutine |-> "none"] /\ pc = [c \in Caller |-> "idle"]
      /\ target = [g \in Goroutine |-> NoEndpoint] /\ conn = [g \in Goroutine |-> 0]
      /\ answer = [g \in Goroutine |-> <<>>] /\ channel = [g \in Goroutine |-> <<>>]
      /\ op = [c \in Caller |-> "search"] /\ doc = [c \in Caller |-> NoDoc]
      /\ total = [c \in Caller |-> 0] /\ conns = [t \in Target |-> <<>>]
      /\ calls = 0 /\ upsets = {}
  BY DEF Init
<1>2. <<>> \in Seq(Doc) /\ <<>> \in Seq(Nat) /\ <<>> \in Seq(Doc \cup Nat) /\ Len(<<>>) = 0
  OBVIOUS
<1>3. FreeSlots /\ QuerySlots /\ WriteSlots
  BY <1>1, SlotForm DEF FreeSlots, QuerySlots, WriteSlots, Running
<1>4. AnswerTypes
  BY <1>1, <1>2, SlotForm, SentinelAssumption DEF SentinelAssumption, AnswerTypes, AnswerType
<1>5. TotalCounts
  BY <1>1, ReplicasFinite DEF TotalCounts, Write
<1>6. got = [c \in Caller |-> EmptyBag]
  BY DEF Init
<1>7. /\ got = [c \in Caller |-> got[c]]
      /\ \A c \in Caller : IsABag(got[c]) /\ BagToSet(got[c]) \subseteq Doc
  <2> DEFINE E == EmptyBag
  <2> HIDE DEF E
  <2>1. got = [c \in Caller |-> E] => got = [c \in Caller |-> got[c]] /\ \A c \in Caller : got[c] = E
    OBVIOUS
  <2> QED BY <1>6, <2>1, EmptyBagForm DEF E
<1>8. /\ stored \in [Endpoint -> SUBSET Doc]
      /\ known \in [Doc -> Known] /\ quiet \in [Caller -> [Doc -> Known]]
  <2>1. PICK docs \in Contents :
          /\ stored = [e \in Endpoint |-> {d \in docs : OnReplica(d, e)}]
          /\ known  = [d \in Doc |-> IF \E e \in Endpoint : d \in stored[e] THEN "present" ELSE "absent"]
    BY DEF Init
  <2>2. docs \subseteq Doc
    BY SentinelAssumption DEF SentinelAssumption
  <2>3. quiet = [c \in Caller |-> [d \in Doc |-> "unknown"]]
    BY DEF Init
  <2> QED BY <2>1, <2>2, <2>3 DEF Known
<1>9. \A g \in Goroutine : conn[g] \in 0 .. Len(conns[target[g]])
  BY <1>1, <1>2 DEF Target
<1>10. DataTypes
  BY <1>1, <1>2, <1>7, <1>8, <1>9 DEF DataTypes
<1> QED BY <1>3, <1>4, <1>5, <1>10 DEF Slots

LEMMA NextSlots == Inv /\ Slots /\ [Next]_vars => Slots'
<1>1. ASSUME Inv, Slots, NEW c \in Caller, CallerStep(c) PROVE Slots'
  <2>1. (op[c] \in Query /\ AskGroup(c)) \/ SkipGroup(c) => op[c] \in Query
    BY DEF SkipGroup
  <2> QED BY <1>1, <2>1, BeginSlots, WaitSlots, GroupSlots, ReplicaSlots, ReturnSlots DEF CallerStep
<1>2. ASSUME Slots, UNCHANGED vars PROVE Slots'
  <2>1. FreeSlots' /\ QuerySlots' /\ WriteSlots'
    BY <1>2 DEF vars, Slots, FreeSlots, QuerySlots, WriteSlots, Running
  <2>2. AnswerTypes' /\ TotalCounts'
    BY <1>2 DEF vars, Slots, AnswerTypes, AnswerType, TotalCounts, DoneReplicas
  <2>3. DataTypes'
    BY <1>2 DEF vars, Slots, DataTypes
  <2> QED BY <2>1, <2>2, <2>3 DEF Slots
<1> QED BY <1>1, <1>2, GoSlots, EnvSlots, Steps

(* The state of Sentinel stays within its types: each goroutine has a connection of *)
(* its target and an answer of its method's kind, no channel holds more than its     *)
(* capacity, and AddDoc and DeleteDoc count at most one change for each worker.      *)
THEOREM SentinelTypes == Spec => []TypeOK
<1>1. Inv /\ Slots => TypeOK
  <2> SUFFICES ASSUME Inv, Slots PROVE TypeOK
    OBVIOUS
  <2>1. \A c \in Caller : op[c] \in Write => total[c] <= Cardinality(Endpoint)
    <3> SUFFICES ASSUME NEW c \in Caller, op[c] \in Write PROVE total[c] <= Cardinality(Endpoint)
      OBVIOUS
    <3>1. DoneReplicas(c) \in SUBSET Endpoint /\ total[c] \in Nat
      BY DEF DoneReplicas, Slots, DataTypes
    <3>2. /\ Cardinality(DoneReplicas(c)) \in Nat /\ Cardinality(Endpoint) \in Nat
          /\ Cardinality(DoneReplicas(c)) <= Cardinality(Endpoint)
      BY <3>1, ReplicasFinite
    <3> QED BY <3>1, <3>2 DEF Slots, TotalCounts
  <2>2. \A g \in Goroutine : Len(channel[g]) <= Capacity
    BY DEF Slots, AnswerTypes
  <2>3. pending \in [Caller -> Nat]
    BY DEF Inv, WaitGroups, WaitGroup
  <2> QED BY <2>1, <2>2, <2>3
          DEF TypeOK, Inv, Shape, CallerTypes, PoolTypes, GoTypes, HubInv, Slots, DataTypes
<1> QED BY <1>1, InitInv, NextInv, InitSlots, NextSlots, PTL DEF Spec

------------------------------------------------------------------------------
(* While the replicas are steady no connection breaks, no write fails, and it was so  *)
(* before.                                                                         *)
LEMMA SteadyBefore == ASSUME Inv, Next, Steady' PROVE Steady
BY HistoryGrows DEF Steady

LEMMA SteadyGo ==
  ASSUME Inv, Next, Slots, NEW g \in Goroutine, GoStep(g), Steady'
  PROVE  /\ Steady /\ ~Break(g) /\ (Fail(g) => op[g[1]] \in Query)
         /\ UNCHANGED <<registered, at, group, shards>>
<1>1. Steady /\ ~Break(g)
  BY SteadyBefore DEF Break, Steady
<1>2. ASSUME Fail(g), op[g[1]] \notin Query PROVE FALSE
  <2>1. gpc[g] = "call" /\ process = "up" /\ op[g[1]] \in Write
    BY <1>2, GoRuns DEF Fail
  <2>2. ~ConnIs(g, "closed")
    BY <1>1, <2>1, PoolIsCurrentImplies DEF ConnectionsKept, Steady
  <2>3. target[g] \in alive
    BY <1>1, <2>1, GoRuns DEF Inv, Causes, Steady
  <2> QED BY <1>2, <2>2, <2>3 DEF Fail
<1> QED BY <1>1, <1>2, GoFrame DEF Elsewhere

LEMMA CallerKeeps ==
  ASSUME NEW c \in Caller, CallerStep(c)
  PROVE  UNCHANGED <<registered, shards, stored>>
<1>1. CASE \/ \E o \in Query : BeginQuery(c, o)
           \/ \E o \in Write, d \in Written : BeginWrite(c, o, d)
  BY <1>1 DEF BeginQuery, BeginWrite, Begin, ReadsNoGroup, Elsewhere
<1>2. CASE Find(c) \/ AwaitWatch(c) \/ FindOne(c)
  BY <1>2 DEF Find, AwaitWatch, FindOne, StartWatch, Watch, Lookup, Load, Fetch, Read, Store,
     FetchOne, Add, ReadAcc
<1>3. CASE SkipGroup(c) \/ AskGroup(c) \/ NoReplica(c) \/ AskReplicas(c)
  BY <1>3 DEF SkipGroup, AskGroup, NextGroup, NoReplica, AskReplicas, Use
<1>4. CASE CloseChannels(c) \/ ReturnQuery(c) \/ ReturnWrite(c) \/ Expire(c)
  BY <1>4 DEF CloseChannels, ReturnQuery, ReturnWrite, Expire
<1> QED BY <1>1, <1>2, <1>3, <1>4 DEF CallerStep

LEMMA UnsteadyEnv == ASSUME EnvStep PROVE ~Steady'
BY DEF EnvStep, Crash, Resize, Register, Fault, Join, Leave, Change, Steady

(* Nothing has failed or changed: no RPC fails, and no step does but the usual ones. *)
LEMMA UndisturbedIsSteady == Undisturbed => Steady /\ ~HasCause
BY DEF Undisturbed, Steady, HasCause

LEMMA UndisturbedBefore == ASSUME Inv, Next, Undisturbed' PROVE Undisturbed
BY HistoryGrows DEF Undisturbed, Inv, HubInv, HubTypeOK

LEMMA CalmGo ==
  ASSUME Inv, Next, NEW g \in Goroutine, GoStep(g), Undisturbed'
  PROVE  /\ Undisturbed /\ ~Break(g) /\ ~Fail(g)
         /\ UNCHANGED <<hubVars, process, shards>>
<1>1. Undisturbed
  BY UndisturbedBefore
<1>2. ~Break(g)
  BY DEF Break, Undisturbed
<1>3. ASSUME Fail(g) PROVE FALSE
  <2>1. gpc[g] = "call" /\ process = "up" /\ g[1] \in Caller /\ target[g] \in Target
    BY <1>3, SlotForm DEF Fail, Inv, Shape, GoTypes
  <2>2. ~ConnIs(g, "closed")
    BY <1>1, <2>1, PoolIsCurrentImplies DEF ConnectionsKept, Undisturbed
  <2>3. target[g] \in alive
    BY <1>1, <2>1, UndisturbedIsSteady DEF Inv, Causes, Undisturbed, Target
  <2>4. ~expired[g[1]]
    BY <1>1, <2>1 DEF Inv, Causes, Undisturbed
  <2> QED BY <1>3, <2>2, <2>3, <2>4 DEF Fail
<1> QED BY <1>1, <1>2, <1>3
        DEF GoStep, Check, CloseStale, Dial, Connect, ServeWrite, ServeQuery, Send, Receive

LEMMA CalmCaller ==
  ASSUME Inv, Next, NEW c \in Caller, CallerStep(c), Undisturbed'
  PROVE  Undisturbed /\ ~Expire(c) /\ UNCHANGED <<registered, shards, stored>>
BY UndisturbedBefore, CallerKeeps DEF Expire, Undisturbed

LEMMA CalmEnv == ASSUME EnvStep PROVE ~Undisturbed'
BY DEF EnvStep, Crash, Resize, Register, Fault, Join, Leave, Change, Undisturbed

(* Which workers are replicas does not change then.                                 *)
LEMMA ReplicasStay ==
  ASSUME UNCHANGED <<registered, shards>>
  PROVE  /\ \A d : GroupIndex(d)' = GroupIndex(d) /\ Replicas(d)' = Replicas(d)
         /\ \A d, e : OnReplica(d, e)' <=> OnReplica(d, e)
         /\ \A h : EndpointsOf(h)' = EndpointsOf(h)
BY DEF GroupIndex, Replicas, OnReplica, EndpointsOf

(* A caller that is at a list has that of its group, as it is in etcd, unless etcd   *)
(* could not be read.                                                               *)
LEMMA ListIsOfGroup ==
  ASSUME Inv, Steady, LoopFinds, NEW c \in Caller, pc[c] = "loop", at[c] = "listed",
         list[c] # {} \/ ~failed
  PROVE  list[c] = EndpointsOf(i[c])
BY DEF Inv, HubInv, HubTypeOK, ListIsCurrent, Steady, LoopFinds

LEMMA ReplicasOfWrite ==
  ASSUME Inv, WritesInGroup, NEW c \in Caller, pc[c] = "loop", op[c] \in Write
  PROVE  Replicas(doc[c]) = EndpointsOf(i[c])
<1>1. EndpointsOf(i[c]) \subseteq Endpoint
  BY EndpointsType DEF Inv, HubInv, HubTypeOK
<1>2. shards > 0 /\ i[c] = GroupIndex(doc[c])
  BY DEF WritesInGroup, Running
<1> QED BY <1>1, <1>2 DEF Replicas, OnReplica

(* A write reaches a replica.                                                       *)
LEMMA GoAgreement ==
  ASSUME Inv, Next, Slots, Agreement, NEW g \in Goroutine, GoStep(g), Steady'
  PROVE  Agreement'
<1> DEFINE c == g[1]
<1>1. /\ UNCHANGED <<pc, op, doc, i, known, quiet, at, group, registered, shards>>
      /\ gpc[g] # "none" /\ gpc'[g] # "none"
      /\ \A h \in Goroutine \ {g} : gpc'[h] = gpc[h]
  BY GoMoves, SteadyGo
<1>2. /\ \A d : Replicas(d)' = Replicas(d) /\ GroupIndex(d)' = GroupIndex(d) /\ Writing(d)' = Writing(d)
      /\ \A d, e : OnReplica(d, e)' <=> OnReplica(d, e)
  BY <1>1, ReplicasStay DEF Writing, Running
<1>3. LoopFinds' /\ WritesInGroup' /\ QuietIsKnown'
  BY <1>1, <1>2 DEF Agreement, LoopFinds, WritesInGroup, QuietIsKnown, Running
<1>4. CASE ServeWrite(g)
  <2>1. /\ c \in Caller /\ op[c] \in Write /\ pc[c] = "wait" /\ doc[c] \in Doc
        /\ target[g] = g[2] /\ g[2] \in Endpoint /\ g = <<c, g[2]>>
    BY <1>1, <1>4, SlotForm, GoRuns DEF ServeWrite, Slots, WriteSlots
  <2>2. /\ stored \in [Endpoint -> SUBSET Doc] /\ gpc \in [Goroutine -> Progress]
    BY DEF Inv, Shape, GoTypes, Slots, DataTypes
  <2>3. gpc'[g] = "done" /\ stored' = Applied(g)
    BY <1>4, <2>2 DEF ServeWrite, Go, Done
  <2>4. /\ doc[c] \in stored'[g[2]] <=> op[c] = "add"
        /\ \A d \in Doc, e \in Endpoint :
             d # doc[c] \/ e # g[2] => (d \in stored'[e] <=> d \in stored[e])
    BY <2>1, <2>2, <2>3 DEF Applied
  <2>5. g[2] \in Replicas(doc[c]) /\ OnReplica(doc[c], g[2])
    BY <1>1, <2>1 DEF Agreement, WriteArrives, Replicas
  <2>6. c \in Writing(doc[c]) /\ Writing(doc[c]) = {c}
    BY <2>1 DEF Agreement, WritesInGroup, Writing, Running
  <2>7. StoredInGroup'
    BY <1>2, <2>1, <2>4, <2>5 DEF Agreement, StoredInGroup
  <2>8. AgreeBefore'
    <3> SUFFICES ASSUME NEW d \in Doc, \A a \in Writing(d) : pc[a] = "loop",
                        NEW e \in Replicas(d), NEW f \in Replicas(d)
                 PROVE  d \in stored'[e] <=> d \in stored'[f]
      BY <1>1, <1>2 DEF AgreeBefore
    <3>1. d # doc[c]
      BY <2>1, <2>6
    <3>2. e \in Endpoint /\ f \in Endpoint
      BY DEF Replicas
    <3> QED BY <2>4, <3>1, <3>2 DEF Agreement, AgreeBefore
  <2>9. WriteArrives'
    <3> SUFFICES ASSUME NEW a \in Caller, pc[a] = "wait", op[a] \in Write
                 PROVE  /\ Replicas(doc[a]) # {}
                        /\ \A e \in Endpoint :
                             /\ gpc'[<<a, e>>] # "none" <=> e \in Replicas(doc[a])
                             /\ gpc'[<<a, e>>] = "done" => (doc[a] \in stored'[e] <=> op[a] = "add")
      BY <1>1, <1>2 DEF WriteArrives
    <3>1. Replicas(doc[a]) # {}
      BY DEF Agreement, WriteArrives
    <3>2. ASSUME NEW e \in Endpoint
          PROVE  /\ gpc'[<<a, e>>] # "none" <=> e \in Replicas(doc[a])
                 /\ gpc'[<<a, e>>] = "done" => (doc[a] \in stored'[e] <=> op[a] = "add")
      <4>1. <<a, e>> \in Goroutine /\ doc[a] \in Doc
        BY SlotForm DEF Slot, Slots, WriteSlots, Running
      <4>2. CASE <<a, e>> = g
        <5>1. a = c /\ e = g[2]
          BY <2>1, <4>2
        <5> QED BY <2>3, <2>4, <2>5, <4>2, <5>1
      <4>3. CASE <<a, e>> # g
        <5>1. gpc'[<<a, e>>] = gpc[<<a, e>>]
          BY <1>1, <4>1, <4>3
        <5>2. doc[a] = doc[c] => a = c
          BY <2>1, <2>6 DEF Writing, Running
        <5>3. doc[a] # doc[c] \/ e # g[2]
          BY <2>1, <4>3, <5>2
        <5>4. doc[a] \in stored'[e] <=> doc[a] \in stored[e]
          BY <2>4, <4>1, <5>3
        <5> QED BY <5>1, <5>4 DEF Agreement, WriteArrives
      <4> QED BY <4>2, <4>3
    <3> QED BY <3>1, <3>2
  <2>10. KnownIsStored'
    <3> SUFFICES ASSUME NEW d \in Doc
                 PROVE  /\ known[d] # "unknown" => Writing(d) = {}
                        /\ known[d] = "present" =>
                             shards > 0 /\ Replicas(d) # {} /\ \A e \in Replicas(d) : d \in stored'[e]
                        /\ known[d] = "absent"  => \A e \in Endpoint : d \notin stored'[e]
      BY <1>1, <1>2 DEF KnownIsStored
    <3>1. CASE known[d] = "unknown"
      BY <3>1
    <3>2. CASE known[d] # "unknown"
      <4>1. Writing(d) = {} /\ d # doc[c]
        BY <2>6, <3>2 DEF Agreement, KnownIsStored
      <4>2. \A e \in Replicas(d) : e \in Endpoint
        BY DEF Replicas
      <4> QED BY <2>4, <4>1, <4>2 DEF Agreement, KnownIsStored
    <3> QED BY <3>1, <3>2
  <2> QED BY <1>3, <2>7, <2>8, <2>9, <2>10 DEF Agreement
<1>5. CASE ~ServeWrite(g)
  <2>1. UNCHANGED stored
    BY <1>5, SteadyGo DEF GoStep, Check, CloseStale, Dial, Connect, ServeQuery, Fail, Send, Receive
  <2>2. StoredInGroup' /\ AgreeBefore' /\ KnownIsStored'
    BY <1>1, <1>2, <2>1 DEF Agreement, StoredInGroup, AgreeBefore, KnownIsStored
  <2>3. WriteArrives'
    <3>1. ASSUME NEW a \in Caller, op[a] \in Write, NEW e \in Endpoint
          PROVE  /\ gpc'[<<a, e>>] # "none" <=> gpc[<<a, e>>] # "none"
                 /\ gpc'[<<a, e>>] = "done" => gpc[<<a, e>>] = "done"
      <4>1. <<a, e>> \in Goroutine /\ <<a, e>>[1] = a
        BY SlotForm DEF Slot
      <4>2. CASE <<a, e>> = g
        <5>1. op[c] \notin Query /\ gpc[g] # "send" /\ gpc \in [Goroutine -> Progress]
          BY <1>1, <3>1, <4>1, <4>2 DEF Query, Write, Slots, WriteSlots, Inv, Shape, GoTypes
        <5>2. gpc'[g] = "done" => gpc[g] = "done"
          BY <1>5, <5>1, SteadyGo
             DEF GoStep, Check, CloseStale, Dial, Connect, ServeQuery, Send, Receive, Go
        <5> QED BY <1>1, <4>2, <5>2
      <4>3. CASE <<a, e>> # g
        BY <1>1, <4>1, <4>3
      <4> QED BY <4>2, <4>3
    <3> QED BY <1>1, <1>2, <2>1, <3>1 DEF Agreement, WriteArrives
  <2> QED BY <1>3, <2>2, <2>3 DEF Agreement
<1> QED BY <1>4, <1>5

(* A call begins: a write that no other write of its document overlaps.             *)
LEMMA BeginQueryAgreement ==
  ASSUME Inv, Next, Slots, Agreement, NEW c \in Caller, NEW o \in Query, BeginQuery(c, o)
  PROVE  Agreement'
<1>1. /\ UNCHANGED <<registered, shards, stored, at, group, gpc, known>> /\ ~Running(c)
      /\ pc'[c] \in {"loop", "returned"} /\ i'[c] = 0 /\ op'[c] = o
      /\ quiet' = [quiet EXCEPT ![c] = known]
      /\ \A a \in Caller \ {c} :
           pc'[a] = pc[a] /\ op'[a] = op[a] /\ doc'[a] = doc[a] /\ i'[a] = i[a]
      /\ o \notin Write
  BY DEF BeginQuery, Begin, ReadsNoGroup, Elsewhere, Inv, Shape, CallerTypes, Slots, DataTypes,
         Query, Write
<1>2. /\ \A d : Replicas(d)' = Replicas(d) /\ GroupIndex(d)' = GroupIndex(d) /\ Writing(d)' = Writing(d)
      /\ \A d, e : OnReplica(d, e)' <=> OnReplica(d, e)
  BY <1>1, ReplicasStay DEF Writing, Running
<1>3. at[c] = "idle"
  BY <1>1 DEF Agreement, LoopFinds, Running
<1>4. LoopFinds' /\ StoredInGroup' /\ WritesInGroup'
  BY <1>1, <1>2, <1>3 DEF Agreement, LoopFinds, StoredInGroup, WritesInGroup, Running
<1>5. AgreeBefore' /\ WriteArrives' /\ KnownIsStored'
  <2>1. \A d : \A a \in Writing(d) : a # c /\ pc'[a] = pc[a]
    BY <1>1 DEF Writing
  <2>2. AgreeBefore'
    BY <1>1, <1>2, <2>1 DEF Agreement, AgreeBefore
  <2>3. WriteArrives'
    BY <1>1, <1>2 DEF Agreement, WriteArrives
  <2>4. KnownIsStored'
    BY <1>1, <1>2 DEF Agreement, KnownIsStored
  <2> QED BY <2>2, <2>3, <2>4
<1>6. QuietIsKnown'
  BY <1>1 DEF Agreement, QuietIsKnown, Slots, DataTypes
<1> QED BY <1>4, <1>5, <1>6 DEF Agreement

(* A write that finds no group ends the web server.                                 *)
LEMMA NoGroupAgreement ==
  ASSUME Inv, Slots, Agreement, NEW c \in Caller, NEW o \in Write, NEW d \in Written,
         BeginWrite(c, o, d), ReadsNoGroup, UNCHANGED <<pc, i>>
  PROVE  Agreement'
<1>1. /\ UNCHANGED <<registered, shards, stored, at, group, gpc, pc, i>> /\ ~Running(c)
      /\ known' = [known EXCEPT ![d] = "unknown"]
      /\ quiet' = [a \in Caller |-> [quiet[a] EXCEPT ![d] = "unknown"]]
      /\ \A a \in Caller \ {c} : op'[a] = op[a] /\ doc'[a] = doc[a]
  BY DEF BeginWrite, Begin, ReadsNoGroup, Elsewhere, Inv, Shape, CallerTypes, Slots, DataTypes
<1>2. /\ \A e : Replicas(e)' = Replicas(e) /\ GroupIndex(e)' = GroupIndex(e)
      /\ \A e, f : OnReplica(e, f)' <=> OnReplica(e, f)
      /\ \A e : Writing(e)' = Writing(e) /\ c \notin Writing(e)
  BY <1>1, ReplicasStay DEF Writing, Running
<1>3. /\ d \in Doc /\ known \in [Doc -> Known] /\ quiet \in [Caller -> [Doc -> Known]]
  BY SentinelAssumption DEF SentinelAssumption, Slots, DataTypes
<1>4. \A a \in Caller : Running(a)' => a # c /\ Running(a)
  BY <1>1 DEF Running
<1>5. LoopFinds' /\ StoredInGroup' /\ WritesInGroup'
  BY <1>1, <1>2, <1>4 DEF Agreement, LoopFinds, StoredInGroup, WritesInGroup
<1>6. AgreeBefore'
  BY <1>1, <1>2 DEF Agreement, AgreeBefore
<1>7. WriteArrives'
  <2>1. \A a \in Caller : pc'[a] = "wait" => a # c
    BY <1>1 DEF Running
  <2> QED BY <1>1, <1>2, <2>1 DEF Agreement, WriteArrives
<1>8. KnownIsStored'
  <2> SUFFICES ASSUME NEW x \in Doc
               PROVE  /\ known'[x] # "unknown" => Writing(x) = {}
                      /\ known'[x] = "present" =>
                           shards > 0 /\ Replicas(x) # {} /\ \A e \in Replicas(x) : x \in stored[e]
                      /\ known'[x] = "absent"  => \A e \in Endpoint : x \notin stored[e]
    BY <1>1, <1>2 DEF KnownIsStored
  <2> QED BY <1>1, <1>3 DEF Agreement, KnownIsStored
<1>9. QuietIsKnown'
  BY <1>1, <1>3 DEF Agreement, QuietIsKnown
<1> QED BY <1>5, <1>6, <1>7, <1>8, <1>9 DEF Agreement

LEMMA BeginWriteAgreement ==
  ASSUME Inv, Next, Slots, Agreement, NEW c \in Caller, NEW o \in Write, NEW d \in Written,
         BeginWrite(c, o, d), Steady'
  PROVE  Agreement'
<1> SUFFICES ASSUME ~(ReadsNoGroup /\ UNCHANGED <<pc, i>>) PROVE Agreement'
  BY NoGroupAgreement
<1>1. /\ UNCHANGED <<registered, shards, stored, at, group, gpc>> /\ ~Running(c)
      /\ pc'[c] = "loop" /\ i'[c] = GroupIndex(d) /\ op'[c] = o /\ doc'[c] = d
      /\ known' = [known EXCEPT ![d] = "unknown"]
      /\ quiet' = [a \in Caller |-> [quiet[a] EXCEPT ![d] = "unknown"]]
      /\ \A a \in Caller \ {c} :
           pc'[a] = pc[a] /\ op'[a] = op[a] /\ doc'[a] = doc[a] /\ i'[a] = i[a]
      /\ Writing(d) = {} /\ shards > 0
  <2>1. "overlap" \notin upsets'
    BY DEF Steady
  <2> QED BY <2>1 DEF BeginWrite, Begin, Inv, Shape, CallerTypes, Slots, DataTypes
<1>2. /\ \A e : Replicas(e)' = Replicas(e) /\ GroupIndex(e)' = GroupIndex(e)
      /\ \A e, f : OnReplica(e, f)' <=> OnReplica(e, f)
  BY <1>1, ReplicasStay
<1>3. /\ d \in Doc /\ known \in [Doc -> Known] /\ quiet \in [Caller -> [Doc -> Known]]
      /\ o \notin Query
  BY SentinelAssumption DEF SentinelAssumption, Slots, DataTypes, Query, Write
<1>4. /\ Writing(d)' = {c} /\ \A e \in Doc \ {d} : Writing(e)' = Writing(e)
      /\ \A e : c \notin Writing(e)
  BY <1>1 DEF Writing, Running
<1>5. at[c] = "idle"
  BY <1>1 DEF Agreement, LoopFinds, Running
<1>6. LoopFinds' /\ StoredInGroup'
  BY <1>1, <1>2, <1>5 DEF Agreement, LoopFinds, StoredInGroup
<1>7. WritesInGroup'
  <2> SUFFICES ASSUME NEW a \in Caller, Running(a)', op'[a] \in Write, NEW x, x = doc'[a]
               PROVE  (pc'[a] = "loop" => i'[a] = GroupIndex(x)) /\ Writing(x)' = {a}
    BY <1>1 DEF WritesInGroup, Writing, GroupIndex
  <2>1. CASE a = c
    BY <1>1, <1>4, <2>1
  <2>2. CASE a # c
    <3>1. Running(a) /\ op[a] \in Write /\ x = doc[a] /\ x \in Doc /\ a \in Writing(x)
      BY <1>1, <2>2 DEF Running, Slots, WriteSlots, Writing
    <3>2. x # d
      BY <1>1, <3>1
    <3>3. Writing(x)' = {a}
      BY <1>4, <3>1, <3>2 DEF Agreement, WritesInGroup
    <3> QED BY <1>1, <2>2, <3>1, <3>3 DEF Agreement, WritesInGroup
  <2> QED BY <2>1, <2>2
<1>8. AgreeBefore'
  <2> SUFFICES ASSUME NEW x \in Doc, \A a \in Writing(x)' : pc'[a] = "loop",
                      NEW e \in Replicas(x), NEW f \in Replicas(x)
               PROVE  x \in stored[e] <=> x \in stored[f]
    BY <1>1, <1>2 DEF AgreeBefore
  <2>1. \A a \in Writing(x) : pc[a] = "loop"
    BY <1>1, <1>4 DEF Writing
  <2> QED BY <2>1 DEF Agreement, AgreeBefore
<1>9. WriteArrives'
  BY <1>1, <1>2 DEF Agreement, WriteArrives
<1>10. KnownIsStored'
  <2> SUFFICES ASSUME NEW x \in Doc
               PROVE  /\ known'[x] # "unknown" => Writing(x)' = {}
                      /\ known'[x] = "present" =>
                           shards > 0 /\ Replicas(x) # {} /\ \A e \in Replicas(x) : x \in stored[e]
                      /\ known'[x] = "absent"  => \A e \in Endpoint : x \notin stored[e]
    BY <1>1, <1>2 DEF KnownIsStored
  <2>1. CASE x = d
    BY <1>1, <1>3, <2>1
  <2>2. CASE x # d
    BY <1>1, <1>3, <1>4, <2>2 DEF Agreement, KnownIsStored
  <2> QED BY <2>1, <2>2
<1>11. QuietIsKnown'
  BY <1>1, <1>3 DEF Agreement, QuietIsKnown
<1> QED BY <1>6, <1>7, <1>8, <1>9, <1>10, <1>11 DEF Agreement

(* It finds the endpoints of its group, and a query asks them in turn.              *)
LEMMA FindAgreement ==
  ASSUME Inv, Next, Slots, Agreement, NEW c \in Caller,
         \/ Find(c) \/ AwaitWatch(c) \/ FindOne(c) \/ CloseChannels(c) \/ Expire(c)
         \/ op[c] \in Query /\ (SkipGroup(c) \/ AskGroup(c) \/ ReturnQuery(c)),
         CallerStep(c)
  PROVE  Agreement'
<1>1. /\ UNCHANGED <<op, doc, known, quiet, registered, shards, stored>>
      /\ \A a \in Caller \ {c} : pc'[a] = pc[a] /\ i'[a] = i[a]
      /\ pc'[c] # pc[c] => op[c] \in Query
      /\ \A a \in Caller, s \in Slot : op[a] \in Write => gpc'[<<a, s>>] = gpc[<<a, s>>]
  <2>1. UNCHANGED <<registered, shards, stored>>
    BY CallerKeeps
  <2>2. CASE Find(c) \/ AwaitWatch(c) \/ FindOne(c) \/ CloseChannels(c) \/ Expire(c)
    BY <2>1, <2>2 DEF Find, AwaitWatch, FindOne, CloseChannels, Expire
  <2>3. CASE op[c] \in Query /\ (SkipGroup(c) \/ AskGroup(c))
    <3>1. \A a \in Caller, s \in Slot : op[a] \in Write => <<a, s>> \in Goroutine /\ <<a, s>> # <<c, i[c]>>
      BY <2>3, SlotForm DEF Query, Write
    <3> QED BY <2>1, <2>3, <3>1, GroupEffect
  <2>4. CASE op[c] \in Query /\ ReturnQuery(c)
    <3>1. \A a \in Caller, s \in Slot :
            op[a] \in Write => <<a, s>> \in Goroutine /\ <<a, s>>[1] # c
      BY <2>4, SlotForm DEF Query, Write
    <3> QED BY <2>1, <2>4, <3>1 DEF ReturnQuery, Forget, Inv, Shape, CallerTypes
  <2> QED BY <2>2, <2>3, <2>4
<1>2. LoopFinds'
  <2>1. /\ at \in [Caller -> At] /\ group \in [Caller -> Group]
        /\ pc \in [Caller -> {"idle", "loop", "wait", "returned"}]
    BY DEF Inv, HubInv, HubTypeOK, Shape, CallerTypes
  <2>2. CASE Find(c) \/ AwaitWatch(c) \/ FindOne(c)
    <3>1. /\ pc[c] = "loop" /\ UNCHANGED <<pc, i>>
          /\ \A a \in Caller \ {c} : at'[a] = at[a] /\ group'[a] = group[a]
          /\ group'[c] = i[c] \/ (at[c] # "idle" /\ group'[c] = group[c])
      BY <2>1, <2>2 
         DEF Find, AwaitWatch, FindOne, StartWatch, Watch, Lookup, Load, Fetch, Read, Store,
             FetchOne, Add, ReadAcc, Goto
    <3> QED BY <3>1 DEF Agreement, LoopFinds
  <2>3. CASE SkipGroup(c) \/ AskGroup(c)
    <3>1. at'[c] = "idle" /\ \A a \in Caller \ {c} : at'[a] = at[a] /\ group'[a] = group[a]
      BY <2>1, <2>3 DEF SkipGroup, AskGroup, NextGroup, Use, Goto
    <3> QED BY <1>1, <3>1 DEF Agreement, LoopFinds
  <2>4. CASE CloseChannels(c) \/ ReturnQuery(c)
    <3>1. UNCHANGED <<at, group, i>> /\ pc[c] = "wait"
      BY <2>4 DEF CloseChannels, ReturnQuery
    <3>2. \A a \in Caller : pc'[a] = "loop" <=> pc[a] = "loop"
      BY <2>1, <2>4, <3>1 DEF CloseChannels, ReturnQuery
    <3> QED BY <3>1, <3>2 DEF Agreement, LoopFinds
  <2>5. CASE Expire(c)
    BY <2>5 DEF Expire, Agreement, LoopFinds
  <2> QED BY <2>2, <2>3, <2>4, <2>5
<1>3. /\ \A d : Replicas(d)' = Replicas(d) /\ GroupIndex(d)' = GroupIndex(d)
      /\ \A d, e : OnReplica(d, e)' <=> OnReplica(d, e)
  BY <1>1, ReplicasStay
<1>4. /\ \A a \in Caller : op[a] \in Write => pc'[a] = pc[a] /\ i'[a] = i[a] /\ (Running(a)' <=> Running(a))
      /\ \A d : Writing(d)' = Writing(d)
  <2>1. op[c] \in Write => pc'[c] = pc[c] /\ i'[c] = i[c]
    <3>1. op[c] \in Write => op[c] \notin Query
      BY DEF Query, Write
    <3>2. op[c] \in Write => Find(c) \/ AwaitWatch(c) \/ FindOne(c) \/ CloseChannels(c) \/ Expire(c)
      BY <3>1
    <3>3. Find(c) \/ AwaitWatch(c) \/ FindOne(c) \/ CloseChannels(c) \/ Expire(c)
            => UNCHANGED <<pc, i>>
      BY DEF Find, AwaitWatch, FindOne, CloseChannels, Expire
    <3> QED BY <3>2, <3>3
  <2>2. \A a \in Caller : op[a] \in Write => pc'[a] = pc[a] /\ i'[a] = i[a] /\ (Running(a)' <=> Running(a))
    BY <1>1, <2>1 DEF Running
  <2> QED BY <1>1, <2>2 DEF Writing
<1>5. StoredInGroup' /\ WritesInGroup' /\ QuietIsKnown'
  BY <1>1, <1>3, <1>4 DEF Agreement, StoredInGroup, WritesInGroup, QuietIsKnown
<1>6. AgreeBefore'
  <2>1. \A d : \A a \in Writing(d) : pc'[a] = pc[a]
    BY <1>4 DEF Writing
  <2> QED BY <1>1, <1>3, <1>4, <2>1 DEF Agreement, AgreeBefore
<1>7. WriteArrives'
  <2>1. \A e \in Endpoint : e \in Slot
    BY DEF Slot
  <2> QED BY <1>1, <1>3, <1>4, <2>1 DEF Agreement, WriteArrives
<1>8. KnownIsStored'
  BY <1>1, <1>3, <1>4 DEF Agreement, KnownIsStored
<1> QED BY <1>2, <1>5, <1>6, <1>7, <1>8 DEF Agreement

(* A write is over for the documents: no replica, all asked, or all done.           *)
LEMMA KnownAfterWrite ==
  ASSUME Agreement, NEW c \in Caller, Running(c), op[c] \in Write, doc[c] \in Doc, NEW a \in Caller
  PROVE  quiet[a][doc[c]] = "unknown" /\ Writing(doc[c]) = {c}
<1>1. Writing(doc[c]) = {c}
  BY DEF Agreement, WritesInGroup
<1>2. known[doc[c]] = "unknown"
  BY <1>1 DEF Agreement, KnownIsStored
<1> QED BY <1>1, <1>2 DEF Agreement, QuietIsKnown

LEMMA EndOfWrite ==
  ASSUME Inv, Slots, Agreement, NEW c \in Caller, Running(c), op[c] \in Write,
         NEW k \in Known, k = "unknown" => pc[c] = "loop",
         k = "present" => shards > 0 /\ Replicas(doc[c]) # {} /\ \A e \in Replicas(doc[c]) : doc[c] \in stored[e],
         k = "absent" => \A e \in Endpoint : doc[c] \notin stored[e],
         pc'[c] = "returned", at'[c] = "idle", known' = [known EXCEPT ![doc[c]] = k],
         UNCHANGED <<op, doc, i, quiet, registered, shards, stored>>,
         \A a \in Caller \ {c} : pc'[a] = pc[a] /\ at'[a] = at[a] /\ group'[a] = group[a],
         \A a \in Caller \ {c}, s \in Slot : gpc'[<<a, s>>] = gpc[<<a, s>>]
  PROVE  Agreement'
<1> DEFINE d == doc[c]
<1>1. /\ d \in Doc /\ Writing(d) = {c} /\ \A a \in Caller : quiet[a][d] = "unknown"
      /\ known \in [Doc -> Known]
  BY KnownAfterWrite DEF Slots, WriteSlots, DataTypes
<1>2. /\ \A e : Replicas(e)' = Replicas(e) /\ GroupIndex(e)' = GroupIndex(e)
      /\ \A e, f : OnReplica(e, f)' <=> OnReplica(e, f)
  BY ReplicasStay
<1>3. /\ Writing(d)' = {} /\ \A x \in Doc \ {d} : Writing(x)' = Writing(x) /\ c \notin Writing(x)
      /\ \A a \in Caller : Running(a)' <=> a # c /\ Running(a)
  BY <1>1 DEF Writing, Running
<1> HIDE DEF d
<1>4. LoopFinds' /\ StoredInGroup' /\ WriteArrives'
  <2>1. LoopFinds' /\ StoredInGroup'
    BY <1>2 DEF Agreement, LoopFinds, StoredInGroup
  <2>2. ASSUME NEW a \in Caller, pc'[a] = "wait" PROVE a # c /\ pc[a] = "wait"
    BY <2>2
  <2>3. \A e \in Endpoint : e \in Slot
    BY DEF Slot
  <2> QED BY <1>2, <2>1, <2>2, <2>3 DEF Agreement, WriteArrives
<1>5. WritesInGroup'
  <2> SUFFICES ASSUME NEW a \in Caller, Running(a)', op[a] \in Write, NEW x, x = doc[a]
               PROVE  shards > 0 /\ (pc'[a] = "loop" => i[a] = GroupIndex(x)) /\ Writing(x)' = {a}
    BY DEF WritesInGroup, Writing, GroupIndex
  <2>1. a # c /\ Running(a) /\ Writing(x) = {a} /\ x \in Doc /\ pc'[a] = pc[a]
    BY <1>3 DEF Agreement, WritesInGroup, Slots, WriteSlots
  <2>2. x # d
    BY <1>1, <2>1
  <2> QED BY <1>3, <2>1, <2>2 DEF Agreement, WritesInGroup
<1>6. KnownIsStored'
  <2> SUFFICES ASSUME NEW x \in Doc
               PROVE  /\ known'[x] # "unknown" => Writing(x)' = {}
                      /\ known'[x] = "present" =>
                           shards > 0 /\ Replicas(x) # {} /\ \A e \in Replicas(x) : x \in stored[e]
                      /\ known'[x] = "absent"  => \A e \in Endpoint : x \notin stored[e]
    BY <1>2 DEF KnownIsStored
  <2>1. CASE x = d
    BY <1>1, <1>3, <2>1 DEF d
  <2>2. CASE x # d
    <3>1. known'[x] = known[x]
      BY <1>1, <2>2 DEF d
    <3> QED BY <1>3, <2>2, <3>1 DEF Agreement, KnownIsStored
  <2> QED BY <2>1, <2>2
<1>7. AgreeBefore'
  <2> SUFFICES ASSUME NEW x \in Doc, \A a \in Writing(x)' : pc'[a] = "loop",
                      NEW e \in Replicas(x), NEW f \in Replicas(x)
               PROVE  x \in stored[e] <=> x \in stored[f]
    BY <1>2 DEF AgreeBefore
  <2>1. CASE x = d
    <3>1. e \in Endpoint /\ f \in Endpoint
      BY DEF Replicas
    <3>2. CASE k = "unknown"
      BY <1>1, <2>1, <3>2 DEF Agreement, AgreeBefore
    <3>3. CASE k \in {"present", "absent"}
      BY <2>1, <3>1, <3>3 DEF d
    <3> QED BY <3>2, <3>3 DEF Known
  <2>2. CASE x # d
    <3>1. \A a \in Writing(x) : pc[a] = "loop"
      BY <1>3, <2>2 DEF Writing
    <3> QED BY <3>1 DEF Agreement, AgreeBefore
  <2> QED BY <2>1, <2>2
<1>8. QuietIsKnown'
  BY <1>1 DEF Agreement, QuietIsKnown, d
<1> QED BY <1>4, <1>5, <1>6, <1>7, <1>8 DEF Agreement

LEMMA NoReplicaAgreement ==
  ASSUME Inv, Slots, Agreement, NEW c \in Caller, NoReplica(c), CallerStep(c)
  PROVE  Agreement'
<1>1. /\ pc[c] = "loop" /\ op[c] \in Write /\ at[c] = "listed" /\ list[c] = {} /\ Running(c)
      /\ pc'[c] = "returned" /\ at'[c] = "idle"
      /\ UNCHANGED <<op, doc, i, quiet, gpc, known>>
      /\ \A a \in Caller \ {c} : pc'[a] = pc[a] /\ at'[a] = at[a] /\ group'[a] = group[a]
  BY DEF NoReplica, Use, Goto, Running, Inv, HubInv, HubTypeOK, Shape, CallerTypes
<1>2. UNCHANGED <<registered, shards, stored>>
  BY CallerKeeps
<1>3. doc[c] \in Doc /\ Writing(doc[c]) = {c}
  BY <1>1 DEF Agreement, WritesInGroup, Slots, WriteSlots
<1>4. known' = [known EXCEPT ![doc[c]] = "unknown"]
  BY <1>1, <1>3 DEF Agreement, KnownIsStored, Slots, DataTypes
<1> QED BY <1>1, <1>2, <1>4, EndOfWrite DEF Known

LEMMA AskReplicasAgreement ==
  ASSUME Inv, Next, Slots, Agreement, NEW c \in Caller, AskReplicas(c), CallerStep(c), Steady'
  PROVE  Agreement'
<1>1. /\ pc[c] = "loop" /\ op[c] \in Write /\ at[c] = "listed" /\ list[c] # {} /\ Running(c)
      /\ pc'[c] = "wait" /\ at'[c] = "idle"
      /\ UNCHANGED <<op, doc, i, quiet, known>>
      /\ \A a \in Caller \ {c} : pc'[a] = pc[a] /\ at'[a] = at[a] /\ group'[a] = group[a]
      /\ gpc' = [g \in Goroutine |-> IF g[1] = c /\ g[2] \in list[c] THEN "check" ELSE gpc[g]]
  BY DEF AskReplicas, Use, Goto, Running, Inv, HubInv, HubTypeOK, Shape, CallerTypes
<1>2. Steady /\ UNCHANGED <<registered, shards, stored>>
  BY SteadyBefore, CallerKeeps
<1>3. Replicas(doc[c]) = list[c] /\ doc[c] \in Doc
  BY <1>1, <1>2, ListIsOfGroup, ReplicasOfWrite DEF Agreement, Slots, WriteSlots
<1>4. /\ \A e : Replicas(e)' = Replicas(e) /\ GroupIndex(e)' = GroupIndex(e) /\ Writing(e)' = Writing(e)
      /\ \A e, f : OnReplica(e, f)' <=> OnReplica(e, f)
      /\ \A a \in Caller : Running(a)' <=> Running(a)
  <2>1. \A a \in Caller : Running(a)' <=> Running(a)
    BY <1>1 DEF Running
  <2> QED BY <1>1, <1>2, <2>1, ReplicasStay DEF Writing
<1>5. LoopFinds' /\ StoredInGroup' /\ WritesInGroup' /\ QuietIsKnown' /\ KnownIsStored'
  <2>1. LoopFinds' /\ WritesInGroup'
    BY <1>1, <1>2, <1>4 DEF Agreement, LoopFinds, WritesInGroup
  <2>2. StoredInGroup' /\ QuietIsKnown' /\ KnownIsStored'
    BY <1>1, <1>2, <1>4 DEF Agreement, StoredInGroup, QuietIsKnown, KnownIsStored
  <2> QED BY <2>1, <2>2
<1>6. AgreeBefore'
  <2> SUFFICES ASSUME NEW d \in Doc, \A a \in Writing(d) : pc'[a] = "loop"
               PROVE  \A e, f \in Replicas(d) : d \in stored[e] <=> d \in stored[f]
    BY <1>2, <1>4 DEF AgreeBefore
  <2>1. \A a \in Writing(d) : pc[a] = "loop"
    BY <1>1 DEF Writing
  <2> QED BY <2>1 DEF Agreement, AgreeBefore
<1>7. WriteArrives'
  <2> SUFFICES ASSUME NEW a \in Caller, pc'[a] = "wait", op[a] \in Write
               PROVE  /\ Replicas(doc[a]) # {}
                      /\ \A e \in Endpoint :
                           /\ gpc'[<<a, e>>] # "none" <=> e \in Replicas(doc[a])
                           /\ gpc'[<<a, e>>] = "done" => (doc[a] \in stored[e] <=> op[a] = "add")
    BY <1>1, <1>2, <1>4 DEF WriteArrives
  <2>1. \A e \in Endpoint : <<a, e>> \in Goroutine /\ <<a, e>>[1] = a /\ <<a, e>>[2] = e
    BY SlotForm DEF Slot
  <2>2. CASE a = c
    <3>1. \A e \in Endpoint : gpc[<<c, e>>] = "none"
      BY <1>1, <2>1, <2>2 DEF Slots, WriteSlots
    <3> QED BY <1>1, <1>3, <2>1, <2>2, <3>1
  <2>3. CASE a # c
    BY <1>1, <2>1, <2>3 DEF Agreement, WriteArrives
  <2> QED BY <2>2, <2>3
<1> QED BY <1>5, <1>6, <1>7 DEF Agreement

LEMMA ReturnWriteAgreement ==
  ASSUME Inv, Slots, Agreement, NEW c \in Caller, ReturnWrite(c), CallerStep(c)
  PROVE  Agreement'
<1> DEFINE k == IF op[c] = "add" THEN "present" ELSE "absent"
<1>1. /\ pc[c] = "wait" /\ op[c] \in Write /\ Running(c)
      /\ \A g \in Goroutine : g[1] = c => gpc[g] \in {"none", "done"}
      /\ pc'[c] = "returned" /\ known' = [known EXCEPT ![doc[c]] = k]
      /\ UNCHANGED <<op, doc, i, quiet, at, group>>
      /\ \A a \in Caller \ {c} : pc'[a] = pc[a]
      /\ gpc' = [g \in Goroutine |-> IF g[1] = c THEN "none" ELSE gpc[g]]
  <2>1. op[c] \notin Query
    BY DEF ReturnWrite, Query, Write
  <2>2. \A g \in Goroutine : g[1] = c => gpc[g] \in {"none", "done"}
    BY <2>1, NobodyIsWaitedFor DEF ReturnWrite, Inv
  <2> QED BY <2>2 DEF ReturnWrite, Forget, Running, Inv, Shape, CallerTypes
<1>2. UNCHANGED <<registered, shards, stored>>
  BY CallerKeeps
<1>3. \A a \in Caller \ {c}, s \in Slot : gpc'[<<a, s>>] = gpc[<<a, s>>]
  BY <1>1, SlotForm
<1>4. \A e \in Replicas(doc[c]) : e \in Endpoint /\ (doc[c] \in stored[e] <=> op[c] = "add")
  <2>1. \A e \in Endpoint : <<c, e>> \in Goroutine /\ <<c, e>>[1] = c
    BY SlotForm DEF Slot
  <2>2. \A e \in Replicas(doc[c]) : e \in Endpoint /\ gpc[<<c, e>>] = "done"
    BY <1>1, <2>1 DEF Agreement, WriteArrives, Replicas
  <2> QED BY <1>1, <2>2 DEF Agreement, WriteArrives
<1>5. shards > 0 /\ Replicas(doc[c]) # {} /\ doc[c] \in Doc
  BY <1>1 DEF Agreement, WritesInGroup, WriteArrives, Slots, WriteSlots
<1>6. k = "absent" => \A e \in Endpoint : doc[c] \notin stored[e]
  BY <1>4, <1>5 DEF Agreement, StoredInGroup, Replicas
<1>7. k = "present" => \A e \in Replicas(doc[c]) : doc[c] \in stored[e]
  BY <1>4
<1>8. k \in Known /\ k # "unknown" /\ at'[c] = "idle"
  BY <1>1 DEF Agreement, LoopFinds, Known
<1> HIDE DEF k
<1> QED BY <1>1, <1>2, <1>3, <1>5, <1>6, <1>7, <1>8, EndOfWrite

LEMMA InitAgreement == Init => Agreement
<1> SUFFICES ASSUME Init PROVE Agreement
  OBVIOUS
<1>1. pc = [c \in Caller |-> "idle"] /\ at = [c \in Caller |-> "idle"]
  BY DEF Init, HubInit
<1>2. PICK docs \in Contents :
        /\ stored = [e \in Endpoint |-> {d \in docs : OnReplica(d, e)}]
        /\ known  = [d \in Doc |-> IF \E e \in Endpoint : d \in stored[e] THEN "present" ELSE "absent"]
  BY DEF Init
<1>3. quiet = [c \in Caller |-> [d \in Doc |-> "unknown"]]
  BY DEF Init
<1>4. LoopFinds /\ WritesInGroup /\ WriteArrives /\ QuietIsKnown /\ \A d : Writing(d) = {}
  BY <1>1, <1>3 DEF LoopFinds, WritesInGroup, WriteArrives, QuietIsKnown, Running, Writing
<1>5. \A d \in Doc, e \in Endpoint : d \in stored[e] <=> d \in docs /\ e \in Replicas(d)
  BY <1>2 DEF Replicas
<1>6. StoredInGroup /\ AgreeBefore /\ KnownIsStored
  <2>1. \A d \in Doc : \A e \in Replicas(d) : e \in Endpoint /\ OnReplica(d, e) /\ shards > 0
    BY DEF Replicas, OnReplica
  <2>2. StoredInGroup /\ AgreeBefore
    BY <1>5, <2>1 DEF StoredInGroup, AgreeBefore, Replicas
  <2>3. KnownIsStored
    BY <1>2, <1>4, <1>5, <2>1 DEF KnownIsStored
  <2> QED BY <2>2, <2>3
<1> QED BY <1>4, <1>6 DEF Agreement

LEMMA NextData == Inv /\ Slots /\ DataInv /\ [Next]_vars => DataInv'
<1>1. ASSUME Inv, Slots, DataInv, Next, Steady' PROVE Agreement'
  <2>1. Agreement
    BY <1>1, SteadyBefore DEF DataInv
  <2>2. ASSUME NEW c \in Caller, CallerStep(c) PROVE Agreement'
    <3>1. SkipGroup(c) => op[c] \in Query
      BY DEF SkipGroup
    <3> QED BY <1>1, <2>1, <2>2, <3>1, BeginQueryAgreement, BeginWriteAgreement, FindAgreement,
               NoReplicaAgreement, AskReplicasAgreement, ReturnWriteAgreement DEF CallerStep
  <2>3. ASSUME NEW g \in Goroutine, GoStep(g) PROVE Agreement'
    BY <1>1, <2>1, <2>3, GoAgreement
  <2> QED BY <1>1, <2>2, <2>3, UnsteadyEnv, Steps
<1>2. ASSUME Agreement, UNCHANGED vars PROVE Agreement'
  <2>1. /\ \A d : Replicas(d)' = Replicas(d) /\ GroupIndex(d)' = GroupIndex(d) /\ Writing(d)' = Writing(d)
        /\ \A d, e : OnReplica(d, e)' <=> OnReplica(d, e)
    BY <1>2, ReplicasStay DEF vars, Writing, Running
  <2> QED BY <1>2, <2>1 DEF vars, Agreement, LoopFinds, StoredInGroup, WritesInGroup, AgreeBefore,
             WriteArrives, KnownIsStored, QuietIsKnown, Running
<1>3. UNCHANGED vars => (Steady' <=> Steady)
  BY DEF vars, Steady
<1> QED BY <1>1, <1>2, <1>3 DEF DataInv

(* All workers of a group have a document or none has, but for one that is written:  *)
(* AddDoc and DeleteDoc reach every replica before they return (distribute.go).  It   *)
(* holds until a worker crashes, comes or leaves, a connection breaks, total-shards   *)
(* changes, two writes of one document overlap, or two goroutines meet at an endpoint *)
(* whose connection is not ready and one closes the other's.  Failed reads of etcd,   *)
(* expired queries and an end of the web server do not make replicas differ.         *)
THEOREM SentinelReplicasAgree == Spec => []ReplicasAgree
<1>1. Inv /\ DataInv => ReplicasAgree
  <2> SUFFICES ASSUME Inv, DataInv, Steady, NEW d \in Doc, NEW e \in registered, NEW f \in registered,
                      GroupOf[e] = GroupOf[f], Writing(d) = {}
               PROVE  d \in stored[e] <=> d \in stored[f]
    BY DEF ReplicasAgree
  <2>1. Agreement /\ e \in Endpoint /\ f \in Endpoint
    BY DEF DataInv, Inv, HubInv, HubTypeOK
  <2>2. OnReplica(d, e) <=> OnReplica(d, f)
    BY DEF OnReplica, EndpointsOf
  <2>3. CASE OnReplica(d, e)
    BY <2>1, <2>2, <2>3 DEF Agreement, AgreeBefore, Replicas
  <2>4. CASE ~OnReplica(d, e)
    BY <2>1, <2>2, <2>4 DEF Agreement, StoredInGroup
  <2> QED BY <2>3, <2>4
<1>2. Init => DataInv
  BY InitAgreement DEF DataInv
<1> QED BY <1>1, <1>2, InitInv, NextInv, InitSlots, NextSlots, NextData, PTL DEF Spec

------------------------------------------------------------------------------
(* What a query gathers.  Sequences without repetitions: one more, one fewer.       *)
LEMMA AppendOnce ==
  ASSUME NEW S, NEW s \in Seq(S), NEW x \in S
  PROVE  /\ ToSet(Append(s, x)) = ToSet(s) \cup {x}
         /\ IsInjective(s) /\ x \notin ToSet(s) => IsInjective(Append(s, x))
<1> DEFINE k == Len(s)
           t == Append(s, x)
<1>1. /\ k \in Nat /\ DOMAIN s = 1 .. k /\ DOMAIN t = 1 .. k + 1
      /\ t[k + 1] = x /\ \A j \in 1 .. k : t[j] = s[j]
  OBVIOUS
<1> HIDE DEF k, t
<1>2. 1 .. k + 1 = (1 .. k) \cup {k + 1}
  BY <1>1
<1>3. ToSet(t) = ToSet(s) \cup {x}
  <2>1. ToSet(t) = {t[j] : j \in 1 .. k + 1} /\ ToSet(s) = {s[j] : j \in 1 .. k}
    BY <1>1 DEF ToSet
  <2> QED BY <1>1, <1>2, <2>1
<1>4. ASSUME IsInjective(s), x \notin ToSet(s) PROVE IsInjective(t)
  <2> SUFFICES ASSUME NEW a \in 1 .. k + 1, NEW b \in 1 .. k + 1, t[a] = t[b] PROVE a = b
    BY <1>1 DEF IsInjective
  <2>1. \A j \in 1 .. k : s[j] # x
    BY <1>1, <1>4 DEF ToSet
  <2>2. CASE a \in 1 .. k /\ b \in 1 .. k
    BY <1>1, <1>4, <2>2 DEF IsInjective
  <2>3. CASE a = k + 1 \/ b = k + 1
    BY <1>1, <1>2, <2>1, <2>3
  <2> QED BY <1>2, <2>2, <2>3
<1> QED BY <1>3, <1>4 DEF t

LEMMA TailOnce ==
  ASSUME NEW S, NEW s \in Seq(S), s # <<>>, IsInjective(s)
  PROVE  /\ ToSet(s) = ToSet(Tail(s)) \cup {Head(s)} /\ Head(s) \notin ToSet(Tail(s))
         /\ IsInjective(Tail(s))
<1> DEFINE k == Len(s)
           t == Tail(s)
           h == Head(s)
<1>1. /\ k \in Nat /\ k > 0 /\ DOMAIN s = 1 .. k /\ DOMAIN t = 1 .. k - 1
      /\ h = s[1] /\ \A j \in 1 .. k - 1 : t[j] = s[j + 1]
  OBVIOUS
<1> HIDE DEF k, t, h
<1>2. /\ \A j \in 1 .. k - 1 : j + 1 \in 1 .. k /\ j + 1 # 1
      /\ \A j \in 1 .. k : j # 1 => j - 1 \in 1 .. k - 1 /\ (j - 1) + 1 = j
      /\ 1 \in 1 .. k
  BY <1>1
<1>3. \A a, b \in 1 .. k : s[a] = s[b] => a = b
  BY <1>1 DEF IsInjective
<1>4. ToSet(t) = {t[j] : j \in 1 .. k - 1} /\ ToSet(s) = {s[j] : j \in 1 .. k}
  BY <1>1 DEF ToSet
<1>5. h \notin ToSet(t)
  BY <1>1, <1>2, <1>3, <1>4
<1>6. ToSet(s) = ToSet(t) \cup {h}
  <2>1. ASSUME NEW x \in ToSet(s) PROVE x \in ToSet(t) \cup {h}
    <3>1. PICK j \in 1 .. k : x = s[j]
      BY <1>4
    <3>2. CASE j = 1
      BY <1>1, <3>1, <3>2
    <3>3. CASE j # 1
      <4>1. j - 1 \in 1 .. k - 1 /\ t[j - 1] = x
        BY <1>1, <1>2, <3>1, <3>3
      <4> QED BY <1>4, <4>1
    <3> QED BY <3>2, <3>3
  <2>2. ASSUME NEW x \in ToSet(t) \cup {h} PROVE x \in ToSet(s)
    BY <1>1, <1>2, <1>4
  <2> QED BY <2>1, <2>2
<1>7. IsInjective(t)
  <2> SUFFICES ASSUME NEW a \in 1 .. k - 1, NEW b \in 1 .. k - 1, t[a] = t[b] PROVE a = b
    BY <1>1 DEF IsInjective
  <2>1. a + 1 = b + 1
    BY <1>1, <1>2, <1>3
  <2> QED BY <1>1, <2>1
<1> QED BY <1>5, <1>6, <1>7 DEF t, h

LEMMA NothingOnce == ToSet(<<>>) = {} /\ IsInjective(<<>>)
BY DEF ToSet, IsInjective

(* With up to ten groups no prefix is that of another group.                        *)
LEMMA TenGroupsApart == Group \subseteq 0 .. 9 => NamesApart
BY DEF NamesApart, NameBegins

(* The group a query's slot asks is a group, and its replicas are the documents'.   *)
LEMMA GroupIndexType ==
  ASSUME Inv, NEW d \in Doc, shards > 0
  PROVE  /\ GroupIndex(d) \in Group /\ GroupIndex(d) \in Slot /\ GroupIndex(d) \in Nat
         /\ GroupIndex(d) < shards
<1>1. shards \in ShardCounts /\ shards \in Nat /\ Hash[d] \in Nat
  BY SentinelAssumption DEF SentinelAssumption, Inv, Shape, CallerTypes
<1>2. GroupIndex(d) \in 0 .. shards - 1
  <2>1. Hash[d] % shards \in 0 .. shards - 1
    BY <1>1
  <2> QED BY <2>1 DEF GroupIndex
<1>3. 0 .. shards - 1 \subseteq Group
  BY <1>1, SentinelAssumption DEF SentinelAssumption
<1> QED BY <1>1, <1>2, <1>3 DEF Slot

LEMMA QuerySlotIsGroup ==
  ASSUME Inv, Slots, NEW c \in Caller, op[c] \in Query, NEW s \in Slot, gpc[<<c, s>>] # "none"
  PROVE  s \in Group /\ s \in 0 .. n[c] - 1 /\ <<c, s>> \in Producers(c)
<1>1. <<c, s>> \in Goroutine /\ <<c, s>>[1] = c /\ <<c, s>>[2] = s /\ s \in Nat
  BY SlotForm
<1>2. s < i[c] /\ Running(c)
  BY <1>1 DEF Slots, QuerySlots, FreeSlots
<1>3. n[c] \in ShardCounts \cup {0} /\ i[c] \in Nat
  BY DEF Inv, Shape, CallerTypes
<1>4. n[c] \in Nat /\ n[c] > 0 /\ i[c] <= n[c] /\ n[c] \in ShardCounts
  <2>1. n[c] > 0 /\ (pc[c] = "wait" => i[c] = n[c])
    BY <1>2 DEF Slots, QuerySlots
  <2>2. pc[c] = "loop" => i[c] < n[c]
    BY DEF Inv, LoopIsInGroup
  <2>3. n[c] \in Nat
    BY <1>3, CountType, Zenon
  <2> QED BY <1>2, <1>3, <2>1, <2>2, <2>3 DEF Running
<1>5. s \in 0 .. n[c] - 1
  BY <1>1, <1>2, <1>3, <1>4
<1>6. 0 .. n[c] - 1 \subseteq Group
  BY <1>4, SentinelAssumption DEF SentinelAssumption
<1> QED BY <1>1, <1>5, <1>6 DEF Producers

(* A worker that answers a query for group s has all documents of that group that    *)
(* are there throughout, and no document of another group.                          *)
LEMMA AnswerOfGroup ==
  ASSUME NamesApart, Inv, Slots, Agreement,
         NEW c \in Caller, AsksAll(c), op[c] \in Query, NEW s \in Slot, gpc[<<c, s>>] \notin {"none", "done"}
  PROVE  LET docs == stored[target[<<c, s>>]]
         IN  /\ docs \in SUBSET Doc
             /\ \A d \in docs : GroupIndex(d) = s
             /\ \A d \in Doc : GroupIndex(d) = s =>
                  /\ quiet[c][d] = "present" => d \in docs
                  /\ quiet[c][d] = "absent"  => d \notin docs
<1> DEFINE t == target[<<c, s>>]
<1>1. s \in Group /\ t \in EndpointsOf(s) /\ t \in Endpoint /\ stored[t] \in SUBSET Doc
  <2>1. s \in Group /\ t \in EndpointsOf(s)
    BY QuerySlotIsGroup DEF AsksAll
  <2>2. t \in Endpoint
    BY <2>1, EndpointsType DEF Inv, HubInv, HubTypeOK
  <2> QED BY <2>1, <2>2 DEF Slots, DataTypes
<1>2. ASSUME NEW d \in stored[t] PROVE GroupIndex(d) = s
  <2>1. d \in Doc /\ OnReplica(d, t)
    BY <1>1, <1>2 DEF Agreement, StoredInGroup
  <2>2. GroupIndex(d) \in Group
    BY <2>1, GroupIndexType DEF OnReplica
  <2>3. /\ NameBegins(GroupOf[t], GroupIndex(d)) /\ NameBegins(GroupOf[t], s)
        /\ GroupOf[t] \in Group
    BY <1>1, <2>1, HubProxyAssumption DEF HubProxyAssumption, OnReplica, EndpointsOf
  <2> QED BY <1>1, <2>2, <2>3 DEF NamesApart
<1>3. ASSUME NEW d \in Doc, GroupIndex(d) = s
      PROVE  /\ quiet[c][d] = "present" => d \in stored[t]
             /\ quiet[c][d] = "absent"  => d \notin stored[t]
  <2>1. quiet[c][d] = "present" => shards > 0 /\ known[d] = "present"
    BY DEF Agreement, QuietIsKnown, KnownIsStored
  <2>2. quiet[c][d] = "present" => t \in Replicas(d)
    BY <1>1, <1>3, <2>1 DEF Replicas, OnReplica
  <2>3. quiet[c][d] = "absent" => known[d] = "absent"
    BY DEF Agreement, QuietIsKnown
  <2> QED BY <1>1, <2>1, <2>2, <2>3 DEF Agreement, KnownIsStored
<1> QED BY <1>1, <1>2, <1>3

(* What a step of a producer or a consumer does to its query.                       *)
LEMMA GoQuery ==
  ASSUME Inv, Next, Slots, NEW g \in Goroutine, GoStep(g), Undisturbed', op[g[1]] \in Query
  PROVE  LET c == g[1]
         IN  \/ /\ gpc[g] \in {"check", "close", "dial", "call"}
                /\ gpc'[g] \in {"check", "close", "dial", "call"}
                /\ answer'[g] = answer[g] /\ channel'[g] = channel[g]
                /\ UNCHANGED <<got, total>>
             \/ ServeQuery(g)
             \/ /\ gpc[g] = "send" /\ answer[g] # <<>>
                /\ gpc'[g] = (IF Len(answer[g]) = 1 THEN "done" ELSE "send")
                /\ channel'[g] = Append(channel[g], Head(answer[g])) /\ answer'[g] = Tail(answer[g])
                /\ UNCHANGED <<got, total>>
             \/ Receive(g)
<1> DEFINE c == g[1]
<1>1. /\ gpc \in [Goroutine -> Progress]
      /\ answer \in [Goroutine -> Seq(Doc \cup Nat)] /\ channel \in [Goroutine -> Seq(Doc \cup Nat)]
  BY DEF Inv, Shape, GoTypes, Slots, DataTypes
<1>2. CASE Check(g) \/ CloseStale(g) \/ Dial(g) \/ Connect(g)
  BY <1>1, <1>2 DEF Check, CloseStale, Dial, Connect, Go
<1>3. CASE Send(g)
  <2>1. ~expired[c]
    BY CalmGo, SlotForm DEF Inv, Causes, Undisturbed
  <2>2. answer[g] # <<>> /\ gpc[g] = "send"
    BY <1>3 DEF Send, Slots, AnswerTypes
  <2> QED BY <1>1, <1>3, <2>1, <2>2 DEF Send, Go, Done
<1>4. ~ServeWrite(g) /\ ~Fail(g) /\ ~Break(g)
  BY CalmGo DEF ServeWrite, Query, Write
<1> QED BY <1>2, <1>3, <1>4 DEF GoStep

(* The documents of a search on their way: sent and received one by one.            *)
LEMMA ServeTransit ==
  ASSUME Slots, NEW g \in Goroutine, gpc[g] = "call", ServeQuery(g), op[g[1]] = "search",
         NEW docs, docs = stored[target[g]], docs \in SUBSET Doc, Inv
  PROVE  /\ InTransit(g)' = docs /\ Once(g)'
         /\ gpc'[g] \in {"send", "done"} /\ UNCHANGED <<got, total>>
<1>1. /\ gpc \in [Goroutine -> Progress] /\ answer \in [Goroutine -> Seq(Doc \cup Nat)]
  BY DEF Inv, Shape, GoTypes, Slots, DataTypes
<1>2. answer'[g] = SetToSeq(docs) /\ channel'[g] = <<>>
  BY <1>1 DEF ServeQuery, Slots, AnswerTypes
<1>3. IsInjective(SetToSeq(docs)) /\ ToSet(SetToSeq(docs)) = docs
  BY StoredIsFinite, SetToSeqForm
<1>4. gpc'[g] \in {"send", "done"} /\ UNCHANGED <<got, total>>
  BY <1>1 DEF ServeQuery, Go, Done
<1>5. InTransit(g)' = docs /\ Once(g)'
  BY <1>2, <1>3, NothingOnce DEF InTransit, Once
<1> QED BY <1>4, <1>5

LEMMA SendTransit ==
  ASSUME NEW g \in Goroutine, answer[g] \in Seq(Doc), channel[g] \in Seq(Doc), answer[g] # <<>>,
         channel'[g] = Append(channel[g], Head(answer[g])), answer'[g] = Tail(answer[g]), Once(g)
  PROVE  InTransit(g)' = InTransit(g) /\ Once(g)'
<1>1. /\ ToSet(answer[g]) = ToSet(answer'[g]) \cup {Head(answer[g])}
      /\ Head(answer[g]) \notin ToSet(answer'[g]) /\ IsInjective(answer'[g])
  BY TailOnce DEF Once
<1>2. Head(answer[g]) \in Doc /\ Head(answer[g]) \notin ToSet(channel[g])
  BY <1>1, TailType DEF Once
<1>3. /\ ToSet(channel'[g]) = ToSet(channel[g]) \cup {Head(answer[g])}
      /\ IsInjective(channel'[g])
  BY <1>2, AppendOnce DEF Once
<1> QED BY <1>1, <1>2, <1>3 DEF InTransit, Once

LEMMA ReceiveTransit ==
  ASSUME Slots, NEW g \in Goroutine, Receive(g), op[g[1]] = "search", channel[g] \in Seq(Doc), Once(g)
  PROVE  LET c == g[1]
             x == Head(channel[g])
         IN  /\ x \in InTransit(g) /\ InTransit(g)' = InTransit(g) \ {x} /\ Once(g)'
             /\ UNCHANGED gpc /\ \A a \in Caller \ {c} : got'[a] = got[a]
             /\ \A d : BagIn(d, got'[c]) <=> d = x \/ BagIn(d, got[c])
             /\ ~BagIn(x, got[c]) => got'[c][x] = 1
             /\ \A d : BagIn(d, got[c]) /\ d # x => got'[c][d] = got[c][d]
<1> DEFINE c == g[1]
           x == Head(channel[g])
<1>1. /\ channel[g] # <<>> /\ channel'[g] = Tail(channel[g]) /\ answer'[g] = answer[g] /\ UNCHANGED gpc
      /\ got' = [got EXCEPT ![c] = got[c] (+) SetToBag({x})]
  BY DEF Receive, Slots, DataTypes
<1>2. /\ ToSet(channel[g]) = ToSet(channel'[g]) \cup {x}
      /\ x \notin ToSet(channel'[g]) /\ IsInjective(channel'[g])
  BY <1>1, TailOnce DEF Once
<1>3. x \in InTransit(g) /\ InTransit(g)' = InTransit(g) \ {x} /\ Once(g)'
  BY <1>1, <1>2 DEF InTransit, Once
<1>4. PICK B : B = got[c] (+) SetToBag({x})
  OBVIOUS
<1>5. c \in Caller /\ IsABag(got[c]) /\ got = [a \in Caller |-> got[a]]
  BY SlotForm DEF Slots, DataTypes
<1> HIDE DEF c, x
<1>6. got'[c] = B /\ \A a \in Caller \ {c} : got'[a] = got[a]
  <2>1. got' = [got EXCEPT ![c] = B]
    BY <1>1, <1>4
  <2> QED BY <1>5, <2>1
<1>7. /\ \A d : BagIn(d, B) <=> d = x \/ BagIn(d, got[c])
      /\ B[x] = (IF BagIn(x, got[c]) THEN got[c][x] ELSE 0) + 1
      /\ \A d : BagIn(d, got[c]) /\ d # x => B[d] = got[c][d]
  <2>1. PICK A : A = got[c]
    OBVIOUS
  <2>2. IsABag(A) /\ B = A (+) SetToBag({x})
    BY <1>4, <1>5, <2>1
  <2>3. \A d : BagIn(d, B) <=> d = x \/ BagIn(d, A)
    BY <2>2, BagGrows, Zenon
  <2>4. B[x] = (IF BagIn(x, A) THEN A[x] ELSE 0) + 1
    BY <2>2, BagGrows, Zenon
  <2>5. ASSUME NEW d, BagIn(d, A), d # x PROVE B[d] = A[d]
    <3>1. (A (+) SetToBag({x}))[d] = A[d]
      BY <2>2, <2>5, BagKeeps
    <3> QED BY <2>2, <3>1
  <2> QED BY <2>1, <2>3, <2>4, <2>5
<1>8. ~BagIn(x, got[c]) => B[x] = 1
  BY <1>7
<1> QED BY <1>1, <1>3, <1>6, <1>7, <1>8 DEF c, x

------------------------------------------------------------------------------
(* While a query runs there is a slot for the group of each document.               *)
LEMMA QueryShards ==
  ASSUME Inv, Slots, NEW c \in Caller, op[c] \in Query, AsksAll(c), Running(c) \/ n[c] > 0
  PROVE  /\ n[c] = shards /\ shards > 0 /\ shards \in Nat
         /\ \A d \in Doc : GroupIndex(d) \in Slot /\ GroupIndex(d) \in Nat /\ GroupIndex(d) < shards
<1>1. n[c] > 0
  BY DEF Slots, QuerySlots
<1>2. n[c] = shards /\ shards > 0
  BY <1>1 DEF AsksAll
<1>3. shards \in Nat
  BY CountType, Zenon DEF Inv, Shape, CallerTypes
<1> QED BY <1>2, <1>3, GroupIndexType

(* A query that a step does not touch; that a document is no longer known says less. *)
LEMMA QueryKept ==
  ASSUME Inv, Slots, NEW c \in Caller, Gathers(c), UNCHANGED <<registered, shards>>,
         (Running(c)' <=> Running(c)) /\ (pc'[c] = "returned" <=> pc[c] = "returned"),
         op'[c] = op[c], n'[c] = n[c], got'[c] = got[c], total'[c] = total[c],
         \A d \in Doc : quiet'[c][d] \in {quiet[c][d], "unknown"},
         \A s \in Slot :
           /\ gpc'[<<c, s>>] = gpc[<<c, s>>] /\ target'[<<c, s>>] = target[<<c, s>>]
           /\ answer'[<<c, s>>] = answer[<<c, s>>] /\ channel'[<<c, s>>] = channel[<<c, s>>]
  PROVE  Gathers(c)'
<1>1. /\ \A d : GroupIndex(d)' = GroupIndex(d) /\ \A h : EndpointsOf(h)' = EndpointsOf(h)
      /\ UNCHANGED <<registered, shards>>
  BY ReplicasStay
<1>2. op[c] \in Query => AsksAll(c)'
  BY <1>1 DEF Gathers, AsksAll
<1>3. \A s \in Slot : /\ InTransit(<<c, s>>)' = InTransit(<<c, s>>)
                      /\ Once(<<c, s>>)' <=> Once(<<c, s>>)
                      /\ Answered(<<c, s>>)' <=> Answered(<<c, s>>)
  BY DEF InTransit, Once, Answered
<1>4. op[c] = "search" => TransitOnce(c)'
  BY <1>1, <1>3 DEF Gathers, TransitOnce
<1>5. ASSUME Running(c), op[c] = "search", NEW d \in Doc PROVE Gathered(c, d)'
  <2>1. Gathered(c, d) /\ AsksAll(c)
    BY <1>5 DEF Gathers, Query
  <2>2. GroupIndex(d) \in Slot
    BY <1>5, <2>1, QueryShards DEF Query
  <2> QED BY <1>1, <1>3, <2>1, <2>2 DEF Gathered
<1>6. ASSUME AllKnown(c)'
      PROVE  /\ AllKnown(c) /\ \A S : Present(c, S)' = Present(c, S)
             /\ {d \in Doc : quiet'[c][d] = "present"} = {d \in Doc : quiet[c][d] = "present"}
  <2>1. \A d \in Doc : quiet'[c][d] = quiet[c][d]
    BY <1>6 DEF AllKnown
  <2> QED BY <1>1, <1>6, <2>1 DEF AllKnown, Present
<1>7. Counted(c)' = Counted(c)
  BY DEF Counted
<1>8. ASSUME Running(c), op[c] = "count", AllKnown(c)' PROVE CountGathers(c)'
  <2>1. CountGathers(c)
    BY <1>6, <1>8 DEF Gathers
  <2>2. total'[c] = Cardinality(Present(c, Counted(c))')
    BY <1>6, <1>7, <1>8, <2>1 DEF CountGathers
  <2>3. ASSUME NEW s \in Slot PROVE CountOf(c, s)'
    <3>1. CountOf(c, s) /\ Number(c, s)' = Number(c, s)
      BY <1>6, <1>8, <2>1 DEF CountGathers, Number
    <3> QED BY <3>1 DEF CountOf
  <2> QED BY <2>2, <2>3 DEF CountGathers
<1>9. /\ pc[c] = "returned" /\ n[c] > 0 /\ op[c] = "search" => SearchIsWhole(c)'
      /\ pc[c] = "returned" /\ n[c] > 0 /\ op[c] = "count" /\ AllKnown(c)' => CountIsWhole(c)'
  <2>1. pc[c] = "returned" /\ n[c] > 0 /\ op[c] = "search" => SearchIsWhole(c)'
    BY DEF Gathers, SearchIsWhole
  <2>2. pc[c] = "returned" /\ n[c] > 0 /\ op[c] = "count" /\ AllKnown(c)' => CountIsWhole(c)'
    BY <1>6 DEF Gathers, CountIsWhole
  <2> QED BY <2>1, <2>2
<1> QED BY <1>2, <1>4, <1>5, <1>8, <1>9 DEF Gathers

------------------------------------------------------------------------------
(* The steps of producers and consumers.                                            *)
LEMMA GoOther ==
  ASSUME Inv, Next, Slots, NEW g \in Goroutine, GoStep(g), Undisturbed',
         NEW c \in Caller, Gathers(c), c # g[1] \/ op[c] \in Write
  PROVE  Gathers(c)'
<1>1. UNCHANGED <<pc, op, n, quiet, target, registered, shards>>
  BY GoMoves, CalmGo
<1>2. CASE op[c] \in Write
  BY <1>1, <1>2 DEF Gathers, Query, Write
<1>3. CASE c # g[1]
  <2>1. got'[c] = got[c]
    <3>1. \/ UNCHANGED got
          \/ got' = [got EXCEPT ![g[1]] = got[g[1]] (+) SetToBag({Head(channel[g])})]
      BY DEF GoStep, Check, CloseStale, Dial, Connect, ServeWrite, ServeQuery, Fail, Break, Send,
             Receive
    <3>2. PICK B : B = got[g[1]] (+) SetToBag({Head(channel[g])})
      OBVIOUS
    <3>3. UNCHANGED got \/ got' = [got EXCEPT ![g[1]] = B]
      BY <3>1, <3>2
    <3> QED BY <1>3, <3>3 DEF Slots, DataTypes
  <2>2. total'[c] = total[c]
    BY <1>3 DEF GoStep, Check, CloseStale, Dial, Connect, ServeWrite, ServeQuery, Fail, Break, Send,
                Receive, Slots, DataTypes
  <2>3. \A s \in Slot : <<c, s>> \in Goroutine \ {g}
    BY <1>3, SlotForm
  <2>4. \A s \in Slot :
          /\ gpc'[<<c, s>>] = gpc[<<c, s>>] /\ target'[<<c, s>>] = target[<<c, s>>]
          /\ answer'[<<c, s>>] = answer[<<c, s>>] /\ channel'[<<c, s>>] = channel[<<c, s>>]
    BY <1>1, <2>3, GoMoves
  <2>5. Running(c)' <=> Running(c)
    BY <1>1 DEF Running
  <2> QED BY <1>1, <2>1, <2>2, <2>4, <2>5, QueryKept
<1> QED BY <1>2, <1>3

LEMMA GoAsksAll ==
  ASSUME Inv, Next, Slots, NEW g \in Goroutine, GoStep(g), Undisturbed', AsksAll(g[1])
  PROVE  AsksAll(g[1])'
<1>1. /\ UNCHANGED <<n, target, shards>> /\ \A h : EndpointsOf(h)' = EndpointsOf(h)
  BY GoMoves, CalmGo, ReplicasStay
<1>2. \A h \in Goroutine : gpc'[h] \notin {"none", "done"} => gpc[h] \notin {"none", "done"}
  BY GoProgress DEF Inv
<1> QED BY <1>1, <1>2, SlotForm DEF AsksAll

(* A search: what a step of its group g[2] does to it.                              *)
LEMMA GoTransit ==
  ASSUME NamesApart, Inv, Next, Slots, Agreement, NEW g \in Goroutine, GoStep(g), Undisturbed',
         op[g[1]] = "search", Gathers(g[1])
  PROVE  LET c == g[1]
             s == g[2]
             x == Head(channel[g])
         IN  /\ Once(g)' /\ \A d \in InTransit(g)' : GroupIndex(d) = s
             /\ \/ /\ InTransit(g)' = InTransit(g) /\ (Answered(g)' <=> Answered(g))
                   /\ UNCHANGED got
                \/ /\ ~Answered(g) /\ Answered(g)' /\ UNCHANGED got
                   /\ \A d \in Doc : GroupIndex(d) = s =>
                        /\ quiet[c][d] = "present" => d \in InTransit(g)'
                        /\ quiet[c][d] = "absent"  => d \notin InTransit(g)'
                \/ /\ x \in InTransit(g) /\ InTransit(g)' = InTransit(g) \ {x}
                   /\ Answered(g) /\ Answered(g)'
                   /\ \A d : BagIn(d, got'[c]) <=> d = x \/ BagIn(d, got[c])
                   /\ ~BagIn(x, got[c]) => got'[c][x] = 1
                   /\ \A d : BagIn(d, got[c]) /\ d # x => got'[c][d] = got[c][d]
<1> DEFINE c == g[1]
           s == g[2]
<1>1. /\ c \in Caller /\ s \in Slot /\ g = <<c, s>> /\ op[c] \in Query
      /\ gpc[g] # "none" /\ Once(g) /\ AsksAll(c) /\ \A d \in InTransit(g) : GroupIndex(d) = s
      /\ answer[g] \in Seq(Doc) /\ channel[g] \in Seq(Doc)
  <2>1. c \in Caller /\ s \in Slot /\ g = <<c, s>> /\ op[c] \in Query
    BY SlotForm DEF Query
  <2>2. gpc[g] # "none"
    BY GoMoves
  <2>3. answer[g] \in Seq(Doc) /\ channel[g] \in Seq(Doc)
    BY <2>2, GoRuns DEF Slots, AnswerTypes
  <2> QED BY <2>1, <2>2, <2>3 DEF Gathers, TransitOnce
<1> HIDE DEF c, s
<1>2. CASE /\ gpc[g] \in {"check", "close", "dial", "call"}
           /\ gpc'[g] \in {"check", "close", "dial", "call"}
           /\ answer'[g] = answer[g] /\ channel'[g] = channel[g]
           /\ UNCHANGED <<got, total>>
  BY <1>1, <1>2 DEF Answered, InTransit, Once, c, s
<1>3. CASE ServeQuery(g)
  <2>1. gpc[g] = "call"
    BY <1>3 DEF ServeQuery, Served
  <2>2. PICK docs : docs = stored[target[g]]
    OBVIOUS
  <2>3. /\ docs \in SUBSET Doc /\ \A d \in docs : GroupIndex(d) = s
        /\ \A d \in Doc : GroupIndex(d) = s =>
             /\ quiet[c][d] = "present" => d \in docs
             /\ quiet[c][d] = "absent"  => d \notin docs
    BY <1>1, <2>1, <2>2, AnswerOfGroup
  <2>4. InTransit(g)' = docs /\ Once(g)' /\ gpc'[g] \in {"send", "done"} /\ UNCHANGED got
    BY <1>3, <2>1, <2>2, <2>3, ServeTransit
  <2> QED BY <2>1, <2>3, <2>4 DEF Answered, c, s
<1>4. CASE /\ gpc[g] = "send" /\ answer[g] # <<>>
           /\ gpc'[g] = (IF Len(answer[g]) = 1 THEN "done" ELSE "send")
           /\ channel'[g] = Append(channel[g], Head(answer[g])) /\ answer'[g] = Tail(answer[g])
           /\ UNCHANGED <<got, total>>
  <2>1. InTransit(g)' = InTransit(g) /\ Once(g)'
    BY <1>1, <1>4, SendTransit
  <2> QED BY <1>1, <1>4, <2>1 DEF Answered, c, s
<1>5. CASE Receive(g)
  <2>1. gpc[g] \in {"send", "done"} /\ UNCHANGED gpc
    BY <1>1, <1>5 DEF Receive, Slots, AnswerTypes, Inv, Shape, GoTypes, Progress
  <2>2. /\ Head(channel[g]) \in InTransit(g) /\ InTransit(g)' = InTransit(g) \ {Head(channel[g])}
        /\ Once(g)'
        /\ \A d : BagIn(d, got'[c]) <=> d = Head(channel[g]) \/ BagIn(d, got[c])
        /\ ~BagIn(Head(channel[g]), got[c]) => got'[c][Head(channel[g])] = 1
        /\ \A d : BagIn(d, got[c]) /\ d # Head(channel[g]) => got'[c][d] = got[c][d]
    BY <1>1, <1>5, ReceiveTransit DEF c
  <2> QED BY <1>1, <2>1, <2>2 DEF Answered, c, s
<1> QED BY <1>1, <1>2, <1>3, <1>4, <1>5, GoQuery DEF c

LEMMA GoSearch ==
  ASSUME NamesApart, Inv, Next, Slots, Agreement, NEW g \in Goroutine, GoStep(g), Undisturbed',
         op[g[1]] = "search", Gathers(g[1])
  PROVE  Gathers(g[1])'
<1> DEFINE c == g[1]
           s == g[2]
           x == Head(channel[g])
<1>1. /\ c \in Caller /\ s \in Slot /\ g = <<c, s>> /\ op[c] = "search" /\ op[c] \in Query
      /\ Running(c) /\ pc[c] # "returned" /\ AsksAll(c) /\ TransitOnce(c)
      /\ \A d \in Doc : Gathered(c, d)
      /\ UNCHANGED <<pc, op, n, quiet>> /\ \A d : GroupIndex(d)' = GroupIndex(d)
  BY SlotForm, GoMoves, GoRuns, CalmGo, ReplicasStay DEF Gathers, Query, Running
<1>2. /\ Once(g)' /\ \A d \in InTransit(g)' : GroupIndex(d) = s
      /\ \/ /\ InTransit(g)' = InTransit(g) /\ (Answered(g)' <=> Answered(g))
            /\ UNCHANGED got
         \/ /\ ~Answered(g) /\ Answered(g)' /\ UNCHANGED got
            /\ \A d \in Doc : GroupIndex(d) = s =>
                 /\ quiet[c][d] = "present" => d \in InTransit(g)'
                 /\ quiet[c][d] = "absent"  => d \notin InTransit(g)'
         \/ /\ x \in InTransit(g) /\ InTransit(g)' = InTransit(g) \ {x}
            /\ Answered(g) /\ Answered(g)'
            /\ \A d : BagIn(d, got'[c]) <=> d = x \/ BagIn(d, got[c])
            /\ ~BagIn(x, got[c]) => got'[c][x] = 1
            /\ \A d : BagIn(d, got[c]) /\ d # x => got'[c][d] = got[c][d]
  BY <1>1, GoTransit
<1>3. AsksAll(c)'
  BY <1>1, GoAsksAll
<1>4. \A r \in Slot \ {s} : /\ InTransit(<<c, r>>)' = InTransit(<<c, r>>)
                            /\ Once(<<c, r>>)' <=> Once(<<c, r>>)
                            /\ Answered(<<c, r>>)' <=> Answered(<<c, r>>)
  <2>1. \A r \in Slot \ {s} : <<c, r>> \in Goroutine \ {g}
    BY <1>1, SlotForm
  <2>2. \A r \in Slot \ {s} : /\ gpc'[<<c, r>>] = gpc[<<c, r>>] /\ answer'[<<c, r>>] = answer[<<c, r>>]
                              /\ channel'[<<c, r>>] = channel[<<c, r>>]
    BY <2>1, GoMoves
  <2> QED BY <2>2 DEF InTransit, Once, Answered
<1>e. x \in InTransit(g) => GroupIndex(x) = s
  BY <1>1 DEF TransitOnce
<1> HIDE DEF c, s, x
<1>5. TransitOnce(c)'
  <2> SUFFICES ASSUME NEW r \in Slot
               PROVE  Once(<<c, r>>)' /\ \A d \in InTransit(<<c, r>>)' : GroupIndex(d) = r
    BY <1>1 DEF TransitOnce
  <2> QED BY <1>1, <1>2, <1>4 DEF TransitOnce
<1>6. ASSUME NEW d \in Doc PROVE Gathered(c, d)'
  <2>1. Gathered(c, d) /\ GroupIndex(d) \in Slot
    BY <1>1, QueryShards
  <2>2. PICK h : h = <<c, GroupIndex(d)>>
    OBVIOUS
  <2>3. /\ quiet[c][d] = "present" =>
             /\ BagIn(d, got[c]) => Answered(h) /\ d \notin InTransit(h) /\ got[c][d] = 1
             /\ Answered(h) /\ d \notin InTransit(h) => BagIn(d, got[c])
        /\ quiet[c][d] = "absent" => ~BagIn(d, got[c]) /\ d \notin InTransit(h)
    BY <2>1, <2>2 DEF Gathered
  <2>4. /\ quiet[c][d] = "present" =>
             /\ BagIn(d, got'[c]) => Answered(h)' /\ d \notin InTransit(h)' /\ got'[c][d] = 1
             /\ Answered(h)' /\ d \notin InTransit(h)' => BagIn(d, got'[c])
        /\ quiet[c][d] = "absent" => ~BagIn(d, got'[c]) /\ d \notin InTransit(h)'
    <3>1. CASE GroupIndex(d) = s
      <4>1. h = g
        BY <1>1, <2>2, <3>1
      <4> QED BY <1>2, <2>3, <3>1, <4>1
    <3>2. CASE GroupIndex(d) # s
      <4>1. InTransit(h)' = InTransit(h) /\ (Answered(h)' <=> Answered(h))
        BY <1>4, <2>1, <2>2, <3>2
      <4>2. /\ BagIn(d, got'[c]) <=> BagIn(d, got[c])
            /\ BagIn(d, got[c]) => got'[c][d] = got[c][d]
        BY <1>2, <1>e, <3>2
      <4> QED BY <2>3, <4>1, <4>2
    <3> QED BY <3>1, <3>2
  <2> QED BY <1>1, <2>2, <2>4 DEF Gathered
<1>7. Gathers(c)'
  BY <1>1, <1>3, <1>5, <1>6 DEF Gathers
<1> QED BY <1>7 DEF c

(* A count: each group's number is added once.                                      *)
LEMMA PresentAdds ==
  ASSUME NEW c, NEW S, NEW s, s \notin S
  PROVE  /\ Cardinality(Present(c, S \cup {s})) = Cardinality(Present(c, S)) + Number(c, s)
         /\ Cardinality(Present(c, S)) \in Nat /\ Number(c, s) \in Nat
<1> DEFINE A == Present(c, S)
           B == Present(c, {s})
<1>1. /\ A \in SUBSET Doc /\ B \in SUBSET Doc /\ A \cap B = {}
      /\ Present(c, S \cup {s}) = A \cup B
  BY DEF Present
<1> HIDE DEF A, B
<1>2. /\ IsFiniteSet(A) /\ IsFiniteSet(B) /\ Cardinality(A) \in Nat /\ Cardinality(B) \in Nat
      /\ Cardinality({}) = 0
  BY <1>1, StoredIsFinite, FS_EmptySet
<1>3. Cardinality(A \cup B) = Cardinality(A) + Cardinality(B) - Cardinality(A \cap B)
  BY <1>2, FS_Union
<1>4. Cardinality(A \cap B) = 0
  BY <1>1, <1>2, Zenon
<1>5. Cardinality(A \cup B) = Cardinality(A) + Cardinality(B)
  BY <1>2, <1>3, <1>4
<1> QED BY <1>1, <1>2, <1>5 DEF Number, A, B

LEMMA GoCount ==
  ASSUME NamesApart, Inv, Next, Slots, Agreement, NEW g \in Goroutine, GoStep(g), Undisturbed',
         op[g[1]] = "count", Gathers(g[1])
  PROVE  Gathers(g[1])'
<1> DEFINE c == g[1]
           s == g[2]
<1>1. /\ c \in Caller /\ s \in Slot /\ g = <<c, s>> /\ op[c] = "count" /\ op[c] \in Query
      /\ gpc[g] # "none" /\ Running(c) /\ pc[c] # "returned" /\ AsksAll(c)
      /\ UNCHANGED <<pc, op, n, quiet>> /\ \A d : GroupIndex(d)' = GroupIndex(d)
  BY SlotForm, GoMoves, GoRuns, CalmGo, ReplicasStay DEF Gathers, Query, Running
<1>2. AsksAll(c)'
  BY <1>1, GoAsksAll
<1>3. /\ AllKnown(c)' <=> AllKnown(c)
      /\ \A S : Present(c, S)' = Present(c, S)
      /\ \A r : Number(c, r)' = Number(c, r)
  BY <1>1 DEF AllKnown, Present, Number
<1>4. \A r \in Slot \ {s} : /\ gpc'[<<c, r>>] = gpc[<<c, r>>] /\ answer'[<<c, r>>] = answer[<<c, r>>]
                            /\ channel'[<<c, r>>] = channel[<<c, r>>]
  <2>1. \A r \in Slot \ {s} : <<c, r>> \in Goroutine \ {g}
    BY <1>1, SlotForm
  <2> QED BY <2>1, GoMoves
<1>5. /\ gpc \in [Goroutine -> Progress] /\ total \in [Caller -> Nat]
      /\ answer \in [Goroutine -> Seq(Doc \cup Nat)] /\ channel \in [Goroutine -> Seq(Doc \cup Nat)]
      /\ gpc[g] \in {"check", "close", "dial", "call"} => answer[g] = <<>> /\ channel[g] = <<>>
  BY DEF Inv, Shape, GoTypes, Slots, DataTypes, AnswerTypes
<1> HIDE DEF c, s
<1>6. ASSUME AllKnown(c) PROVE CountGathers(c)'
  <2>1. total[c] = Cardinality(Present(c, Counted(c))) /\ \A r \in Slot : CountOf(c, r)
    BY <1>1, <1>6 DEF Gathers, CountGathers, c
  <2>2. \A r \in Slot \ {s} : CountOf(c, r)'
    BY <1>3, <1>4, <2>1 DEF CountOf
  <2>3. /\ gpc[g] = "send" => answer[g] = <<Number(c, s)>> /\ channel[g] = <<>>
        /\ gpc[g] = "done" => channel[g] \in {<<>>, <<Number(c, s)>>}
    BY <1>1, <2>1 DEF CountOf
  <2>4. ASSUME UNCHANGED total, Counted(c)' = Counted(c),
               gpc'[g] = "send" => answer'[g] = <<Number(c, s)>> /\ channel'[g] = <<>>,
               gpc'[g] = "done" => channel'[g] \in {<<>>, <<Number(c, s)>>}
        PROVE  CountGathers(c)'
    <3>1. CountOf(c, s)'
      BY <1>1, <1>3, <2>4 DEF CountOf
    <3>2. total'[c] = Cardinality(Present(c, Counted(c))')
      BY <1>3, <2>1, <2>4
    <3> QED BY <1>1, <2>2, <3>1, <3>2 DEF CountGathers
  <2>5. ASSUME (gpc'[g] = "done" /\ channel'[g] = <<>>) <=> (gpc[g] = "done" /\ channel[g] = <<>>)
        PROVE  Counted(c)' = Counted(c)
    <3>1. \A r \in Slot : (gpc'[<<c, r>>] = "done" /\ channel'[<<c, r>>] = <<>>)
                           <=> (gpc[<<c, r>>] = "done" /\ channel[<<c, r>>] = <<>>)
      BY <1>1, <1>4, <2>5
    <3> QED BY <1>1, <3>1 DEF Counted
  <2>6. CASE /\ gpc[g] \in {"check", "close", "dial", "call"}
             /\ gpc'[g] \in {"check", "close", "dial", "call"}
             /\ UNCHANGED <<got, total>>
    BY <2>4, <2>5, <2>6
  <2>7. CASE ServeQuery(g)
    <3>1. gpc[g] = "call"
      BY <2>7 DEF ServeQuery, Served
    <3>2. PICK docs : docs = stored[target[g]]
      OBVIOUS
    <3>3. docs = Present(c, {s})
      <4>1. /\ docs \in SUBSET Doc /\ \A d \in docs : GroupIndex(d) = s
            /\ \A d \in Doc : GroupIndex(d) = s =>
                 /\ quiet[c][d] = "present" => d \in docs
                 /\ quiet[c][d] = "absent"  => d \notin docs
        BY <1>1, <3>1, <3>2, AnswerOfGroup
      <4>2. \A d \in Doc : quiet[c][d] \in {"present", "absent"}
        BY <1>1, <1>6 DEF AllKnown, Slots, DataTypes, Known
      <4> QED BY <4>1, <4>2 DEF Present
    <3>4. /\ answer' = [answer EXCEPT ![g] = <<Cardinality(docs)>>] /\ gpc' = [gpc EXCEPT ![g] = "send"]
          /\ UNCHANGED <<total, channel>>
      BY <1>1, <2>7, <3>2 DEF ServeQuery, Go, c
    <3>5. answer'[g] = <<Number(c, s)>> /\ gpc'[g] = "send" /\ channel'[g] = <<>>
      BY <1>5, <3>1, <3>3, <3>4 DEF Number
    <3> QED BY <2>4, <2>5, <3>1, <3>4, <3>5
  <2>8. CASE /\ gpc[g] = "send" /\ answer[g] # <<>>
             /\ gpc'[g] = (IF Len(answer[g]) = 1 THEN "done" ELSE "send")
             /\ channel'[g] = Append(channel[g], Head(answer[g])) /\ answer'[g] = Tail(answer[g])
             /\ UNCHANGED <<got, total>>
    <3>1. \A k : /\ Len(<<k>>) = 1 /\ Head(<<k>>) = k /\ Append(<<>>, k) = <<k>> /\ <<k>> # <<>>
      OBVIOUS
    <3>2. answer[g] = <<Number(c, s)>> /\ channel[g] = <<>>
      BY <2>3, <2>8
    <3>3. gpc'[g] = "done" /\ channel'[g] = <<Number(c, s)>> /\ channel'[g] # <<>>
      BY <2>8, <3>1, <3>2, Zenon
    <3> QED BY <2>4, <2>5, <2>8, <3>3
  <2>9. CASE Receive(g)
    <3>1. /\ gpc'[g] = gpc[g] /\ channel[g] # <<>> /\ channel'[g] = Tail(channel[g])
          /\ total'[c] = total[c] + Head(channel[g])
      BY <1>1, <1>5, <2>9 DEF Receive, c
    <3>2. gpc[g] = "done" /\ channel[g] = <<Number(c, s)>>
      BY <1>1, <1>5, <2>3, <3>1 DEF Progress
    <3>3. channel'[g] = <<>> /\ total'[c] = total[c] + Number(c, s)
      BY <3>1, <3>2
    <3>4. s < n[c]
      <4>1. s \in 0 .. n[c] - 1 /\ n[c] \in Nat
        BY <1>1, QuerySlotIsGroup, QueryShards
      <4> QED BY <4>1
    <3>5. s \notin Counted(c) /\ Counted(c)' = Counted(c) \cup {s}
      BY <1>1, <1>4, <3>1, <3>2, <3>3, <3>4 DEF Counted
    <3>6. total'[c] = Cardinality(Present(c, Counted(c)'))
      BY <2>1, <3>3, <3>5, PresentAdds
    <3>7. CountOf(c, s)'
      BY <1>1, <3>1, <3>2, <3>3 DEF CountOf
    <3>8. total'[c] = Cardinality(Present(c, Counted(c))')
      BY <1>3, <3>6
    <3> QED BY <1>1, <2>2, <3>7, <3>8 DEF CountGathers
  <2> QED BY <1>1, <2>6, <2>7, <2>8, <2>9, GoQuery DEF c
<1>7. Gathers(c)'
  BY <1>1, <1>2, <1>3, <1>6 DEF Gathers
<1> QED BY <1>7 DEF c

LEMMA GoGathering ==
  ASSUME NamesApart, Inv, Next, Slots, Agreement, Gathering, NEW g \in Goroutine, GoStep(g), Undisturbed'
  PROVE  Gathering'
<1> SUFFICES ASSUME NEW c \in Caller PROVE Gathers(c)'
  BY DEF Gathering
<1>1. Gathers(c) /\ Gathers(g[1]) /\ op[c] \in Query \cup Write
  BY SlotForm DEF Gathering, Inv, Shape, CallerTypes
<1>2. CASE c # g[1] \/ op[c] \in Write
  BY <1>1, <1>2, GoOther
<1>3. CASE c = g[1] /\ op[c] \in Query
  BY <1>1, <1>3, GoSearch, GoCount DEF Query
<1> QED BY <1>1, <1>2, <1>3

------------------------------------------------------------------------------
(* The steps of callers.  No caller touches the query of another.                   *)
LEMMA CallerOther ==
  ASSUME Inv, Next, Slots, NEW c \in Caller, CallerStep(c), Undisturbed',
         NEW a \in Caller \ {c}, Gathers(a)
  PROVE  Gathers(a)'
<1>1. /\ pc'[a] = pc[a] /\ op'[a] = op[a] /\ n'[a] = n[a] /\ UNCHANGED <<registered, shards>>
      /\ (Running(a)' <=> Running(a)) /\ a # c
  BY CallerFrame, CalmCaller DEF Running
<1>2. \A s \in Slot : <<a, s>> \in Goroutine /\ <<a, s>>[1] # c
  BY SlotForm
<1>3. ASSUME \A g \in Goroutine : g[1] # c =>
               /\ gpc'[g] = gpc[g] /\ target'[g] = target[g]
               /\ answer'[g] = answer[g] /\ channel'[g] = channel[g],
             got'[a] = got[a], total'[a] = total[a],
             \A d \in Doc : quiet'[a][d] \in {quiet[a][d], "unknown"}
      PROVE  Gathers(a)'
  BY <1>1, <1>2, <1>3, QueryKept
<1>4. /\ quiet \in [Caller -> [Doc -> Known]] /\ gpc \in [Goroutine -> Progress]
      /\ target \in [Goroutine -> Target]
  BY DEF Slots, DataTypes, Inv, Shape, GoTypes
<1>5. CASE \E o \in Query : BeginQuery(c, o)
  <2>1. PICK o \in Query : BeginQuery(c, o)
    BY <1>5
  <2>2. UNCHANGED goVars /\ got'[a] = got[a] /\ total'[a] = total[a]
    BY <1>1, <2>1, BeginEffect DEF BeginQuery
  <2>3. quiet'[a] = quiet[a]
    BY <1>1, <1>4, <2>1 DEF BeginQuery
  <2> QED BY <1>3, <2>2, <2>3
<1>6. CASE \E o \in Write, d \in Written : BeginWrite(c, o, d)
  <2>1. PICK o \in Write, d \in Written : BeginWrite(c, o, d)
    BY <1>6
  <2>2. UNCHANGED goVars /\ got'[a] = got[a] /\ total'[a] = total[a]
    BY <1>1, <2>1, BeginEffect, SentinelAssumption DEF BeginWrite, SentinelAssumption
  <2>3. \A e \in Doc : quiet'[a][e] \in {quiet[a][e], "unknown"}
    BY <1>1, <1>4, <2>1 DEF BeginWrite
  <2> QED BY <1>3, <2>2, <2>3
<1>7. CASE Find(c) \/ AwaitWatch(c) \/ FindOne(c) \/ NoReplica(c) \/ CloseChannels(c) \/ Expire(c)
  <2>1. UNCHANGED <<goVars, got, total, quiet>>
    BY <1>7 DEF Find, AwaitWatch, FindOne, NoReplica, CloseChannels, Expire
  <2> QED BY <1>3, <2>1
<1>8. CASE op[c] \in Query /\ (SkipGroup(c) \/ AskGroup(c))
  <2>1. /\ \A g \in Goroutine \ {<<c, i[c]>>} : gpc'[g] = gpc[g] /\ target'[g] = target[g]
        /\ UNCHANGED <<got, total, answer, channel, ghosts>>
    BY <1>8, GroupEffect
  <2>2. \A g \in Goroutine : g[1] # c => g # <<c, i[c]>>
    OBVIOUS
  <2> QED BY <1>3, <2>1, <2>2
<1>9. CASE AskReplicas(c) \/ (op[c] \in Query /\ ReturnQuery(c)) \/ ReturnWrite(c)
  <2>1. UNCHANGED <<got, total, quiet, channel>>
    BY <1>9 DEF AskReplicas, ReturnQuery, ReturnWrite, Forget
  <2>2. \A g \in Goroutine : g[1] # c =>
          gpc'[g] = gpc[g] /\ target'[g] = target[g] /\ answer'[g] = answer[g]
    BY <1>9 DEF AskReplicas, ReturnQuery, ReturnWrite, Forget
  <2> QED BY <1>3, <2>1, <2>2
<1>10. SkipGroup(c) => op[c] \in Query
  BY DEF SkipGroup
<1> QED BY <1>5, <1>6, <1>7, <1>8, <1>9, <1>10 DEF CallerStep

(* A query begins with nothing on its way and nothing gathered, ...                 *)
LEMMA BeginGathers ==
  ASSUME Inv, Next, Slots, NEW c \in Caller, NEW o \in Query, BeginQuery(c, o), Undisturbed'
  PROVE  Gathers(c)'
<1>1. /\ pc'[c] = "loop" /\ n'[c] = shards /\ op'[c] = o /\ got'[c] = EmptyBag /\ total'[c] = 0
      /\ UNCHANGED <<shards, goVars>>
      /\ \A g \in Goroutine : g[1] = c =>
           gpc'[g] = "none" /\ answer'[g] = <<>> /\ channel'[g] = <<>>
  <2>1. /\ op'[c] = o /\ got'[c] = EmptyBag /\ total'[c] = 0 /\ UNCHANGED goVars
        /\ \A g \in Goroutine : g[1] = c =>
             gpc[g] = "none" /\ answer[g] = <<>> /\ channel[g] = <<>>
    BY BeginEffect DEF BeginQuery
  <2>2. pc'[c] = "loop" /\ n'[c] = shards /\ UNCHANGED shards
    <3>1. "nogroup" \notin upsets'
      BY DEF Undisturbed
    <3> QED BY <3>1 DEF BeginQuery, Begin, ReadsNoGroup, Inv, Shape, CallerTypes
  <2> QED BY <2>1, <2>2
<1>2. \A s \in Slot : /\ gpc'[<<c, s>>] = "none" /\ answer'[<<c, s>>] = <<>> /\ channel'[<<c, s>>] = <<>>
  BY <1>1, SlotForm
<1>3. \A s \in Slot : InTransit(<<c, s>>)' = {} /\ Once(<<c, s>>)' /\ ~Answered(<<c, s>>)'
  BY <1>2, NothingOnce DEF InTransit, Once, Answered
<1>4. \A d : ~BagIn(d, got'[c])
  BY <1>1, EmptyBagForm DEF BagIn
<1>5. AsksAll(c)' /\ TransitOnce(c)'
  BY <1>1, <1>2, <1>3 DEF AsksAll, TransitOnce
<1>6. ASSUME NEW d \in Doc PROVE Gathered(c, d)'
  <2>1. GroupIndex(d)' \in Slot
    <3>1. shards > 0 /\ UNCHANGED shards
      BY <1>1 DEF BeginQuery, Undisturbed, ReadsNoGroup
    <3> QED BY <3>1, GroupIndexType DEF GroupIndex
  <2> QED BY <1>3, <1>4, <2>1 DEF Gathered
<1>7. CountGathers(c)'
  <2>1. Counted(c)' = {}
    BY <1>2 DEF Counted
  <2>2. Present(c, {})' = {} /\ Cardinality({}) = 0
    BY FS_EmptySet DEF Present
  <2>3. total'[c] = Cardinality(Present(c, Counted(c))')
    BY <1>1, <2>1, <2>2 DEF Present
  <2> QED BY <1>2, <2>3 DEF CountGathers, CountOf
<1> QED BY <1>1, <1>5, <1>6, <1>7 DEF Gathers

(* ... goes on with a group that has no document, or asks a worker of it, ...       *)
LEMMA GroupGathers ==
  ASSUME Inv, Next, Slots, Undisturbed, Agreement, NEW c \in Caller, op[c] \in Query, Gathers(c),
         SkipGroup(c) \/ AskGroup(c), UNCHANGED <<registered, shards>>
  PROVE  Gathers(c)'
<1>0. PICK s, g : s = i[c] /\ g = <<c, s>>
  OBVIOUS
<1>1. /\ pc[c] = "loop" /\ pc'[c] \in {"loop", "wait"}
      /\ gpc'[g] = (IF SkipGroup(c) THEN "done" ELSE "check")
      /\ ~SkipGroup(c) => target'[g] = picked[c]
      /\ \A h \in Goroutine \ {g} : gpc'[h] = gpc[h] /\ target'[h] = target[h]
      /\ UNCHANGED <<op, n, got, total, answer, channel, quiet>>
  BY <1>0, GroupEffect
<1>2. /\ g \in Goroutine /\ gpc[g] = "none" /\ answer[g] = <<>> /\ channel[g] = <<>>
      /\ s < n[c] /\ s \in Slot
  BY <1>0, <1>1, GroupSlotIsFree, SlotForm
<1>3. AsksAll(c) /\ Running(c) /\ Running(c)' /\ pc'[c] # "returned"
  BY <1>1 DEF Gathers, Running
<1>4. \A d : GroupIndex(d)' = GroupIndex(d) /\ \A h : EndpointsOf(h)' = EndpointsOf(h)
  BY ReplicasStay
<1>5. \A r \in Slot \ {s} : <<c, r>> \in Goroutine \ {g}
  BY <1>0, SlotForm
<1>6. SkipGroup(c) => \A d \in Doc : GroupIndex(d) = s => quiet[c][d] # "present"
  <2> SUFFICES ASSUME SkipGroup(c), NEW d \in Doc, GroupIndex(d) = s, quiet[c][d] = "present"
               PROVE  FALSE
    OBVIOUS
  <2>1. EndpointsOf(s) = {}
    BY <1>0, <1>1, UndisturbedIsSteady, ListIsOfGroup DEF SkipGroup, Agreement, Undisturbed
  <2>2. Replicas(d) # {}
    BY DEF Agreement, QuietIsKnown, KnownIsStored
  <2> QED BY <2>1, <2>2 DEF Replicas, OnReplica
<1>7. ~SkipGroup(c) => picked[c] \in EndpointsOf(s)
  <2> SUFFICES ASSUME AskGroup(c) PROVE picked[c] \in EndpointsOf(s)
    OBVIOUS
  <2>1. at[c] = "picked" /\ group[c] = s
    BY <1>0 DEF AskGroup, Agreement, LoopFinds
  <2>2. picked[c] # NoEndpoint /\ changed = {}
    BY <2>1, NoEndpointHasCause, UndisturbedIsSteady DEF Undisturbed
  <2> QED BY <2>1, <2>2 DEF Inv, HubInv, PickIsCurrent
<1>8. AsksAll(c)'
  <2>1. n'[c] > 0 => n'[c] = shards'
    BY <1>1, <1>3 DEF AsksAll
  <2>2. ASSUME NEW r \in Slot, gpc'[<<c, r>>] \notin {"none", "done"}
        PROVE  target'[<<c, r>>] \in EndpointsOf(r)'
    <3>1. CASE r = s
      BY <1>1, <1>4, <1>7, <1>0, <2>2, <3>1
    <3>2. CASE r # s
      BY <1>1, <1>3, <1>4, <1>5, <2>2, <3>2 DEF AsksAll
    <3> QED BY <3>1, <3>2
  <2> QED BY <2>1, <2>2 DEF AsksAll
<1>9. \A r \in Slot : /\ InTransit(<<c, r>>)' = InTransit(<<c, r>>)
                      /\ Once(<<c, r>>)' <=> Once(<<c, r>>)
  BY <1>1 DEF InTransit, Once
<1>10. op[c] = "search" => TransitOnce(c)'
  BY <1>1, <1>4, <1>9 DEF Gathers, TransitOnce
<1>11. ASSUME op[c] = "search", NEW d \in Doc PROVE Gathered(c, d)'
  <2>1. Gathered(c, d) /\ GroupIndex(d) \in Slot
    BY <1>3, <1>11, QueryShards DEF Gathers
  <2>2. CASE GroupIndex(d) = s
    <3>1. ~Answered(g) /\ (SkipGroup(c) \/ ~Answered(g)')
      BY <1>1, <1>2 DEF Answered
    <3>2. InTransit(g)' = InTransit(g)
      BY <1>2, <1>9, <1>0
    <3> QED BY <1>1, <1>4, <1>6, <1>0, <2>1, <2>2, <3>1, <3>2 DEF Gathered
  <2>3. CASE GroupIndex(d) # s
    <3>1. Answered(<<c, GroupIndex(d)>>)' <=> Answered(<<c, GroupIndex(d)>>)
      BY <1>1, <1>4, <1>5, <2>1, <2>3 DEF Answered
    <3> QED BY <1>1, <1>4, <1>9, <2>1, <3>1 DEF Gathered
  <2> QED BY <2>2, <2>3
<1>12. /\ AllKnown(c)' <=> AllKnown(c)
       /\ \A S : Present(c, S)' = Present(c, S)
       /\ \A r : Number(c, r)' = Number(c, r)
  BY <1>1, <1>4 DEF AllKnown, Present, Number
<1>13. ASSUME op[c] = "count", AllKnown(c) PROVE CountGathers(c)'
  <2>1. total[c] = Cardinality(Present(c, Counted(c))) /\ \A r \in Slot : CountOf(c, r)
    BY <1>3, <1>13 DEF Gathers, CountGathers
  <2>2. \A r \in Slot \ {s} : gpc'[<<c, r>>] = gpc[<<c, r>>]
    BY <1>1, <1>5
  <2>3. ASSUME NEW r \in Slot PROVE CountOf(c, r)'
    BY <1>1, <1>2, <1>12, <1>0, <2>1, <2>2 DEF CountOf
  <2>4. Present(c, Counted(c)') = Present(c, Counted(c))
    <3>1. CASE SkipGroup(c)
      <4>1. Counted(c)' = Counted(c) \cup {s}
        BY <1>1, <1>2, <1>0, <2>2, <3>1 DEF Counted
      <4> QED BY <1>6, <3>1, <4>1 DEF Present
    <3>2. CASE ~SkipGroup(c)
      <4>1. Counted(c)' = Counted(c)
        BY <1>1, <1>2, <1>0, <2>2, <3>2 DEF Counted
      <4> QED BY <4>1
    <3> QED BY <3>1, <3>2
  <2>5. total'[c] = Cardinality(Present(c, Counted(c))')
    BY <1>1, <1>12, <2>1, <2>4
  <2> QED BY <2>3, <2>5 DEF CountGathers
<1> QED BY <1>1, <1>3, <1>8, <1>10, <1>11, <1>12, <1>13 DEF Gathers

(* ... and returns what the groups have sent, all of which has arrived by then.     *)
LEMMA ReturnGathers ==
  ASSUME Inv, Slots, Undisturbed, NEW c \in Caller, op[c] \in Query, Gathers(c), ReturnQuery(c)
  PROVE  Gathers(c)'
<1>1. /\ pc[c] = "wait" /\ pc'[c] = "returned" /\ closed[c] /\ Running(c) /\ ~Running(c)'
      /\ UNCHANGED <<op, n, got, total, quiet, channel, registered, shards>>
      /\ \A g \in Producers(c) : channel[g] = <<>>
      /\ \A g \in Goroutine : g[1] = c => gpc'[g] = "none" /\ answer'[g] = <<>>
      /\ AsksAll(c)
  BY DEF ReturnQuery, Forget, Running, Gathers, Inv, Shape, CallerTypes
<1>2. \A g \in Producers(c) : gpc[g] = "done" /\ answer[g] = <<>> /\ channel[g] = <<>>
  <2> TAKE g \in Producers(c)
  <2>1. g \in Goroutine /\ g[1] = c /\ gpc[g] = "done" /\ channel[g] = <<>>
    BY <1>1 DEF Inv, ClosedAfterProducers, Producers
  <2>2. ~expired[c]
    BY DEF Inv, Causes, Undisturbed
  <2> QED BY <2>1, <2>2 DEF Slots, AnswerTypes
<1>3. n[c] = shards /\ \A d \in Doc : <<c, GroupIndex(d)>> \in Producers(c) /\ GroupIndex(d) \in Slot
  <2>1. /\ n[c] = shards /\ shards \in Nat
        /\ \A d \in Doc : GroupIndex(d) \in Slot /\ GroupIndex(d) \in Nat /\ GroupIndex(d) < shards
    BY <1>1, QueryShards
  <2>2. \A d \in Doc : GroupIndex(d) \in 0 .. n[c] - 1
    BY <2>1
  <2> QED BY <2>1, <2>2, SlotForm DEF Producers
<1>4. op[c] = "search" => SearchIsWhole(c)
  <2> SUFFICES ASSUME op[c] = "search", NEW d \in Doc
               PROVE  /\ quiet[c][d] = "present" => BagIn(d, got[c]) /\ got[c][d] = 1
                      /\ quiet[c][d] = "absent"  => ~BagIn(d, got[c])
    BY DEF SearchIsWhole
  <2>1. Gathered(c, d)
    BY <1>1 DEF Gathers
  <2>2. /\ Answered(<<c, GroupIndex(d)>>) /\ InTransit(<<c, GroupIndex(d)>>) = {}
    BY <1>2, <1>3, NothingOnce DEF Answered, InTransit
  <2> QED BY <2>1, <2>2 DEF Gathered
<1>5. op[c] = "count" /\ AllKnown(c) => CountIsWhole(c)
  <2> SUFFICES ASSUME op[c] = "count", AllKnown(c) PROVE CountIsWhole(c)
    OBVIOUS
  <2>1. total[c] = Cardinality(Present(c, Counted(c)))
    BY <1>1 DEF Gathers, CountGathers
  <2>2. \A d \in Doc : GroupIndex(d) \in Counted(c)
    <3>1. \A d \in Doc : GroupIndex(d) < n[c]
      BY <1>1, QueryShards
    <3> QED BY <1>2, <1>3, <3>1 DEF Counted
  <2>3. Present(c, Counted(c)) = {d \in Doc : quiet[c][d] = "present"}
    BY <2>2 DEF Present
  <2> QED BY <2>1, <2>3 DEF CountIsWhole
<1>6. \A s \in Slot : /\ gpc'[<<c, s>>] = "none" /\ answer'[<<c, s>>] = <<>>
  BY <1>1, SlotForm
<1>7. \A s \in Slot : channel'[<<c, s>>] = <<>>
  <2> SUFFICES ASSUME NEW s \in Slot PROVE channel[<<c, s>>] = <<>>
    BY <1>1
  <2>1. CASE gpc[<<c, s>>] = "none"
    BY <2>1, SlotForm DEF Slots, FreeSlots
  <2>2. CASE gpc[<<c, s>>] # "none"
    BY <1>2, <2>2, QuerySlotIsGroup
  <2> QED BY <2>1, <2>2
<1>8. AsksAll(c)' /\ TransitOnce(c)'
  <2>1. \A s \in Slot : InTransit(<<c, s>>)' = {} /\ Once(<<c, s>>)'
    BY <1>6, <1>7, NothingOnce DEF InTransit, Once
  <2> QED BY <1>1, <1>6, <2>1 DEF AsksAll, TransitOnce
<1>9. /\ SearchIsWhole(c) => SearchIsWhole(c)'
      /\ CountIsWhole(c) => CountIsWhole(c)'
      /\ AllKnown(c)' <=> AllKnown(c)
  BY <1>1 DEF SearchIsWhole, CountIsWhole, AllKnown
<1> QED BY <1>1, <1>4, <1>5, <1>8, <1>9 DEF Gathers

LEMMA CallerGathers ==
  ASSUME Inv, Next, Slots, Undisturbed, Agreement, NEW c \in Caller, Gathers(c),
         CallerStep(c), Undisturbed'
  PROVE  Gathers(c)'
<1>1. ~Expire(c) /\ UNCHANGED <<registered, shards>>
  BY CalmCaller
<1>2. ASSUME op'[c] \in Write PROVE Gathers(c)'
  BY <1>2 DEF Gathers, Query, Write
<1>3. CASE \E o \in Query : BeginQuery(c, o)
  BY <1>3, BeginGathers
<1>4. CASE \E o \in Write, d \in Written : BeginWrite(c, o, d)
  <2>1. PICK o \in Write, d \in Written : BeginWrite(c, o, d)
    BY <1>4
  <2>2. op'[c] = o
    BY <2>1 DEF BeginWrite, Begin, Inv, Shape, CallerTypes
  <2> QED BY <1>2, <2>2
<1>5. CASE Find(c) \/ AwaitWatch(c) \/ FindOne(c) \/ CloseChannels(c)
  <2>1. /\ UNCHANGED <<pc, op, n, got, total, quiet, gpc, target, answer, channel>>
        /\ quiet \in [Caller -> [Doc -> Known]]
    BY <1>5 DEF Find, AwaitWatch, FindOne, CloseChannels, Slots, DataTypes
  <2>2. Running(c)' <=> Running(c)
    BY <2>1 DEF Running
  <2> QED BY <1>1, <2>1, <2>2, QueryKept
<1>6. CASE NoReplica(c) \/ AskReplicas(c) \/ ReturnWrite(c)
  <2>1. op'[c] \in Write
    BY <1>6 DEF NoReplica, AskReplicas, ReturnWrite
  <2> QED BY <1>2, <2>1
<1>7. CASE op[c] \in Query /\ (SkipGroup(c) \/ AskGroup(c))
  BY <1>1, <1>7, GroupGathers
<1>8. CASE op[c] \in Query /\ ReturnQuery(c)
  BY <1>8, ReturnGathers
<1>9. SkipGroup(c) => op[c] \in Query
  BY DEF SkipGroup
<1> QED BY <1>1, <1>3, <1>4, <1>5, <1>6, <1>7, <1>8, <1>9 DEF CallerStep

LEMMA InitGathering == Init => Gathering
<1> SUFFICES ASSUME Init, NEW c \in Caller PROVE Gathers(c)
  BY DEF Gathering
<1>1. /\ pc[c] = "idle" /\ n[c] = 0
      /\ \A s \in Slot : gpc[<<c, s>>] = "none" /\ answer[<<c, s>>] = <<>> /\ channel[<<c, s>>] = <<>>
  BY SlotForm DEF Init
<1>2. AsksAll(c)
  BY <1>1 DEF AsksAll
<1>3. TransitOnce(c)
  BY <1>1, NothingOnce DEF TransitOnce, InTransit, Once
<1> QED BY <1>1, <1>2, <1>3 DEF Gathers, Running

LEMMA NextAnswers == NamesApart /\ Inv /\ Slots /\ DataInv /\ AnswerInv /\ [Next]_vars => AnswerInv'
<1>1. ASSUME NamesApart, Inv, Slots, DataInv, AnswerInv, Next, Undisturbed' PROVE Gathering'
  <2>1. Undisturbed /\ Agreement /\ Gathering
    BY <1>1, UndisturbedBefore, UndisturbedIsSteady DEF DataInv, AnswerInv
  <2>2. ASSUME NEW c \in Caller, CallerStep(c) PROVE Gathering'
    <3> SUFFICES ASSUME NEW a \in Caller PROVE Gathers(a)'
      BY DEF Gathering
    <3>1. Gathers(a)
      BY <2>1 DEF Gathering
    <3>2. CASE a = c
      BY <1>1, <2>1, <2>2, <3>1, <3>2, CallerGathers
    <3>3. CASE a # c
      BY <1>1, <2>2, <3>1, <3>3, CallerOther
    <3> QED BY <3>2, <3>3
  <2>3. ASSUME NEW g \in Goroutine, GoStep(g) PROVE Gathering'
    BY <1>1, <2>1, <2>3, GoGathering
  <2> QED BY <1>1, <2>2, <2>3, CalmEnv, Steps
<1>2. ASSUME Inv, Slots, Gathering, UNCHANGED vars PROVE Gathering'
  <2> SUFFICES ASSUME NEW c \in Caller PROVE Gathers(c)'
    BY DEF Gathering
  <2>1. /\ UNCHANGED <<pc, op, n, got, total, quiet, gpc, target, answer, channel, registered, shards>>
        /\ quiet \in [Caller -> [Doc -> Known]]
    BY <1>2 DEF vars, Slots, DataTypes
  <2>2. Running(c)' <=> Running(c)
    BY <2>1 DEF Running
  <2>3. Gathers(c)
    BY <1>2 DEF Gathering
  <2> QED BY <1>2, <2>1, <2>2, <2>3, QueryKept
<1>3. UNCHANGED vars => (Undisturbed' <=> Undisturbed)
  BY DEF vars, Undisturbed
<1> QED BY <1>1, <1>2, <1>3 DEF AnswerInv

(* While nothing fails or changes, Search returns each document that is stored       *)
(* throughout once and none that is not, and Count their number (distribute.go):     *)
(* each group's answer is sent, received and merged before the query returns.  The   *)
(* names of the groups must not begin with one another: with group 10 there is a     *)
(* worker whose key begins with that of group 1 and which is asked for both.         *)
THEOREM SentinelAnswersExactly == NamesApart => (Spec => []AnswerIsExact)
<1>1. AnswerInv => AnswerIsExact
  <2> SUFFICES ASSUME AnswerInv, NEW c \in Caller, Undisturbed, pc[c] = "returned", n[c] > 0
               PROVE  /\ op[c] = "search" => \A d \in Doc :
                           /\ quiet[c][d] = "present" => BagIn(d, got[c]) /\ got[c][d] = 1
                           /\ quiet[c][d] = "absent"  => ~BagIn(d, got[c])
                      /\ op[c] = "count" /\ (\A d \in Doc : quiet[c][d] # "unknown") =>
                           total[c] = Cardinality({d \in Doc : quiet[c][d] = "present"})
    BY DEF AnswerIsExact
  <2>1. Gathers(c)
    BY DEF AnswerInv, Gathering
  <2> QED BY <2>1 DEF Gathers, SearchIsWhole, AllKnown, CountIsWhole
<1>2. Init => DataInv /\ AnswerInv
  BY InitAgreement, InitGathering DEF DataInv, AnswerInv
<1>3. ASSUME NamesApart PROVE Spec => []AnswerIsExact
  <2>1. Inv /\ Slots /\ DataInv /\ AnswerInv /\ [Next]_vars => AnswerInv'
    BY <1>3, NextAnswers
  <2> QED BY <1>1, <1>2, <2>1, InitInv, NextInv, InitSlots, NextSlots, NextData, PTL DEF Spec
<1> QED BY <1>3
=============================================================================
