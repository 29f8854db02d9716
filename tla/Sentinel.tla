------------------------------- MODULE Sentinel -------------------------------
(* The Sentinel of the web server (service/distribute.go): AddDoc and DeleteDoc   *)
(* on all workers of the group that total-shards gives a document, Search and     *)
(* Count on one worker of each group, over the endpoints that HubProxy finds and  *)
(* a pool of gRPC connections.                                                    *)
(*                                                                                *)
(* A caller is a goroutine inside one of the four methods.  It starts a goroutine  *)
(* <<caller, slot>> per group (Search, Count) or per worker (AddDoc, DeleteDoc).   *)
(* Documents are names: a worker answers a Search with all it has stored.          *)
EXTENDS HubProxy, Bags, SequencesExt

CONSTANTS Doc,            (* documents                                            *)
          Hash,           (* farm.Hash32WithSeed on Doc                            *)
          NoDoc,          (* the argument of Search and Count                      *)
          ShardCounts,    (* values of total-shards over time                      *)
          Capacity,       (* of a result channel (300)                             *)
          Contents,       (* the sets of documents that are stored at first       *)
          Written,        (* bound: the documents that are written                 *)
          Methods,        (* bound: the methods each caller calls                  *)
          MaxCalls        (* bound: calls of the four methods                      *)

ASSUME SentinelAssumption ==
  /\ Hash \in [Doc -> Nat] /\ NoDoc \notin Doc
  /\ ShardCounts \subseteq Nat /\ \A m \in ShardCounts : 0 .. m - 1 \subseteq Group
  /\ Capacity \in Nat \ {0}
  /\ IsFiniteSet(Doc) /\ Contents \subseteq SUBSET Doc /\ Written \subseteq Doc
  /\ Methods \in [Caller -> SUBSET {"search", "count", "add", "delete"}]
  /\ MaxCalls \in Nat

Slot      == Group \cup Endpoint
Goroutine == Caller \X Slot
Query     == {"search", "count"}
Write     == {"add", "delete"}
Target    == {NoEndpoint} \cup Endpoint

VARIABLES process,        (* "up", or "exited" by Log.Fatalf or a panic            *)
          shards,         (* etcd: total-shards                                    *)
          alive,          (* workers that run                                      *)
          stored,         (* the documents in the index of each worker             *)
          conns,          (* the states of the connections created for each target *)
          pool,           (* connPool: the number of such a connection, or 0        *)
          pc, op, doc,    (* each caller: where it is, its method, its argument    *)
          n, i,           (* groupCount, and the group the loop is at              *)
          pending,        (* the counter of its WaitGroup: producerWg, wg           *)
          expired,        (* the context of five seconds has run out               *)
          closed,         (* the result channels are closed                        *)
          got,            (* docs: the documents received, as a bag               *)
          total,          (* the replicas an AddDoc or DeleteDoc has changed, or    *)
                          (* the documents a Count has added up                    *)
          gpc, target,    (* each goroutine: where it is, its endpoint             *)
          conn,           (* its connection                                        *)
          answer,         (* what is left of result.Documents to send              *)
          channel,        (* its result channel                                    *)
          calls,          (* history: calls begun                                  *)
          upsets,         (* history: what happened that may spoil a result        *)
          known,          (* history: what the last write of each document was     *)
          quiet           (* history: what is known of it throughout each query    *)

callVars == <<pc, op, doc, n, i, pending, expired, closed, got, total>>
goVars   == <<gpc, target, conn, answer, channel>>
netVars  == <<conns, pool, stored>>
envVars  == <<shards, alive>>
ghosts   == <<calls, upsets, known, quiet>>
vars     == <<hubVars, process, callVars, goVars, netVars, envVars, ghosts>>

ConnState == {"idle", "ready", "closed"}
Progress == {"none", "check", "close", "dial", "call", "send", "done"}
Known    == {"absent", "present", "unknown"}

TypeOK ==
  /\ HubTypeOK
  /\ process \in {"up", "exited"}
  /\ shards \in ShardCounts
  /\ alive \subseteq Endpoint
  /\ stored \in [Endpoint -> SUBSET Doc]
  /\ conns \in [Target -> Seq(ConnState)]
  /\ \A t \in Target : pool[t] \in 0 .. Len(conns[t])
  /\ pc \in [Caller -> {"idle", "loop", "wait", "returned"}]
  /\ op \in [Caller -> Query \cup Write]
  /\ doc \in [Caller -> {NoDoc} \cup Doc]
  /\ n \in [Caller -> ShardCounts \cup {0}] /\ i \in [Caller -> Nat]
  /\ pending \in [Caller -> Nat]
  /\ expired \in [Caller -> BOOLEAN] /\ closed \in [Caller -> BOOLEAN]
  /\ \A c \in Caller : IsABag(got[c]) /\ BagToSet(got[c]) \subseteq Doc
  /\ total \in [Caller -> Nat]
  /\ \A c \in Caller : op[c] \in Write => total[c] <= Cardinality(Endpoint)
  /\ gpc \in [Goroutine -> Progress]
  /\ target \in [Goroutine -> Target]
  /\ \A g \in Goroutine : conn[g] \in 0 .. Len(conns[target[g]])
  /\ answer \in [Goroutine -> Seq(Doc \cup Nat)]
  /\ channel \in [Goroutine -> Seq(Doc \cup Nat)]
  /\ \A g \in Goroutine : Len(channel[g]) <= Capacity
  /\ calls \in Nat
  /\ upsets \subseteq {"fault", "expired", "shared", "overlap", "nogroup"}
  /\ known \in [Doc -> Known] /\ quiet \in [Caller -> [Doc -> Known]]

(* The variants whose names begin with Faulty are not part of the specification:  *)
(* each is the definition that follows it with a plausible bug.                   *)

GroupIndex(d) == Hash[d] % shards

OnReplica(d, e) == shards > 0 /\ e \in EndpointsOf(GroupIndex(d))

------------------------------------------------------------------------------
(* The web server starts over whatever the workers of each document's group hold.  *)
Init ==
  /\ HubInit
  /\ process = "up"
  /\ shards \in ShardCounts
  /\ alive = Endpoint
  /\ conns = [t \in Target |-> <<>>]
  /\ pool = [t \in Target |-> 0]
  /\ pc = [c \in Caller |-> "idle"]
  /\ op = [c \in Caller |-> "search"] /\ doc = [c \in Caller |-> NoDoc]
  /\ n = [c \in Caller |-> 0] /\ i = [c \in Caller |-> 0]
  /\ pending = [c \in Caller |-> 0]
  /\ expired = [c \in Caller |-> FALSE] /\ closed = [c \in Caller |-> FALSE]
  /\ got = [c \in Caller |-> EmptyBag] /\ total = [c \in Caller |-> 0]
  /\ gpc = [g \in Goroutine |-> "none"]
  /\ target = [g \in Goroutine |-> NoEndpoint] /\ conn = [g \in Goroutine |-> 0]
  /\ answer = [g \in Goroutine |-> <<>>] /\ channel = [g \in Goroutine |-> <<>>]
  /\ calls = 0 /\ upsets = {}
  /\ \E docs \in Contents :
       /\ stored = [e \in Endpoint |-> {d \in docs : OnReplica(d, e)}]
       /\ known  = [d \in Doc |-> IF \E e \in Endpoint : d \in stored[e] THEN "present" ELSE "absent"]
  /\ quiet = [c \in Caller |-> [d \in Doc |-> "unknown"]]

Running(c) == pc[c] \in {"loop", "wait"}
Writing(d) == {c \in Caller : Running(c) /\ op[c] \in Write /\ doc[c] = d}

(* Faulty: the count of a write is not reset.                                      *)
FaultyBegin(c, o, d) ==
  /\ process = "up" /\ ~Running(c) /\ calls < MaxCalls /\ o \in Methods[c]
  /\ calls' = calls + 1
  /\ op' = [op EXCEPT ![c] = o] /\ doc' = [doc EXCEPT ![c] = d]
  /\ expired' = [expired EXCEPT ![c] = FALSE] /\ closed' = [closed EXCEPT ![c] = FALSE]
  /\ got' = [got EXCEPT ![c] = EmptyBag]
  /\ UNCHANGED <<total, goVars, netVars, envVars>>

Begin(c, o, d) ==
  /\ process = "up" /\ ~Running(c) /\ calls < MaxCalls /\ o \in Methods[c]
  /\ calls' = calls + 1
  /\ op' = [op EXCEPT ![c] = o] /\ doc' = [doc EXCEPT ![c] = d]
  /\ expired' = [expired EXCEPT ![c] = FALSE] /\ closed' = [closed EXCEPT ![c] = FALSE]
  /\ got' = [got EXCEPT ![c] = EmptyBag] /\ total' = [total EXCEPT ![c] = 0]
  /\ UNCHANGED <<goVars, netVars, envVars>>

(* getGroupCount gives 0 if there is no total-shards, or etcd cannot be read.      *)
ReadsNoGroup ==
  /\ (shards = 0 /\ UNCHANGED hubVars) \/ Elsewhere
  /\ upsets' = upsets \cup {"nogroup"}

(* Search and Count give no result then; else they ask the groups in turn, and      *)
(* their wait group expects one producer for each.                                *)
BeginQuery(c, o) ==
  /\ Begin(c, o, NoDoc)
  /\ i' = [i EXCEPT ![c] = 0]
  /\ quiet' = [quiet EXCEPT ![c] = known]
  /\ \/ /\ ReadsNoGroup
        /\ n' = [n EXCEPT ![c] = 0] /\ pc' = [pc EXCEPT ![c] = "returned"]
        /\ UNCHANGED pending
     \/ /\ shards > 0 /\ UNCHANGED <<hubVars, upsets>>
        /\ n' = [n EXCEPT ![c] = shards] /\ pc' = [pc EXCEPT ![c] = "loop"]
        /\ pending' = [pending EXCEPT ![c] = shards]
  /\ UNCHANGED <<process, known>>

(* AddDoc and DeleteDoc take the document's hash modulo the number of groups, and  *)
(* panic if that is 0.                                                            *)
BeginWrite(c, o, d) ==
  /\ Begin(c, o, d)
  /\ n' = [n EXCEPT ![c] = 0]
  /\ known' = [known EXCEPT ![d] = "unknown"]
  /\ quiet' = [a \in Caller |-> [quiet[a] EXCEPT ![d] = "unknown"]]
  /\ \/ /\ ReadsNoGroup
        /\ process' = "exited"
        /\ UNCHANGED <<pc, i>>
     \/ /\ shards > 0 /\ UNCHANGED <<hubVars, process>>
        /\ i' = [i EXCEPT ![c] = GroupIndex(d)] /\ pc' = [pc EXCEPT ![c] = "loop"]
        /\ upsets' = IF Writing(d) # {} THEN upsets \cup {"overlap"} ELSE upsets
  /\ UNCHANGED pending

------------------------------------------------------------------------------
(* The caller is inside GetServiceEndpoints; a query goes on to GetServiceEndpoint. *)
Find(c) ==
  /\ process = "up" /\ pc[c] = "loop"
  /\ StartWatch(c, i[c]) \/ Load(c, i[c]) \/ Fetch(c) \/ Store(c)
  /\ UNCHANGED <<process, callVars, goVars, netVars, envVars, ghosts>>

(* The watch of its group is confirmed.                                           *)
AwaitWatch(c) ==
  /\ process = "up" /\ pc[c] = "loop"
  /\ Watch(c)
  /\ UNCHANGED <<process, callVars, goVars, netVars, envVars, ghosts>>

(* Faulty: the balancer is given the cached list.                                 *)
FaultyFindOne(c) ==
  /\ process = "up" /\ pc[c] = "loop" /\ op[c] \in Query
  /\ \/ /\ at[c] = "listed" /\ list[c] # {}
        /\ Goto(c, "add")
        /\ UNCHANGED <<registered, cache, watched, acc, group, list, picked, changed, failed, upsetCount>>
     \/ Add(c) \/ ReadAcc(c)
  /\ UNCHANGED <<process, callVars, goVars, netVars, envVars, ghosts>>

FindOne(c) ==
  /\ process = "up" /\ pc[c] = "loop" /\ op[c] \in Query
  /\ FetchOne(c) \/ Add(c) \/ ReadAcc(c)
  /\ UNCHANGED <<process, callVars, goVars, netVars, envVars, ghosts>>

(* The loop over the groups goes on; after the last one the consumers and the      *)
(* closer are started.                                                            *)
NextGroup(c) ==
  /\ i' = [i EXCEPT ![c] = @ + 1]
  /\ pc' = IF i[c] + 1 = n[c] THEN [pc EXCEPT ![c] = "wait"] ELSE pc
  /\ Use(c)
  /\ UNCHANGED <<op, doc, n, expired, closed, got, total>>

(* Faulty: a group that is left out is not reported to the wait group.            *)
FaultySkipGroup(c) ==
  /\ process = "up" /\ pc[c] = "loop" /\ op[c] \in Query
  /\ at[c] = "listed" /\ list[c] = {}
  /\ gpc' = [gpc EXCEPT ![<<c, i[c]>>] = "done"]
  /\ NextGroup(c)
  /\ UNCHANGED <<process, pending, target, conn, answer, channel, netVars, envVars, ghosts>>

(* A group without workers is left out: no producer will call Done.               *)
SkipGroup(c) ==
  /\ process = "up" /\ pc[c] = "loop" /\ op[c] \in Query
  /\ at[c] = "listed" /\ list[c] = {}
  /\ gpc' = [gpc EXCEPT ![<<c, i[c]>>] = "done"]
  /\ pending' = [pending EXCEPT ![c] = @ - 1]
  /\ NextGroup(c)
  /\ UNCHANGED <<process, target, conn, answer, channel, netVars, envVars, ghosts>>

(* The producer of a group starts.                                                *)
AskGroup(c) ==
  /\ process = "up" /\ pc[c] = "loop" /\ at[c] = "picked"
  /\ gpc' = [gpc EXCEPT ![<<c, i[c]>>] = "check"]
  /\ target' = [target EXCEPT ![<<c, i[c]>>] = picked[c]]
  /\ NextGroup(c)
  /\ UNCHANGED <<process, pending, conn, answer, channel, netVars, envVars, ghosts>>

(* AddDoc and DeleteDoc return at once when the group has no worker.              *)
NoReplica(c) ==
  /\ process = "up" /\ pc[c] = "loop" /\ op[c] \in Write
  /\ at[c] = "listed" /\ list[c] = {}
  /\ Use(c)
  /\ pc' = [pc EXCEPT ![c] = "returned"]
  /\ UNCHANGED <<process, op, doc, n, i, pending, expired, closed, got, total>>
  /\ UNCHANGED <<goVars, netVars, envVars, ghosts>>

(* Faulty: one worker of the group is written to, as Search asks only one.        *)
FaultyAskReplicas(c) ==
  /\ process = "up" /\ pc[c] = "loop" /\ op[c] \in Write
  /\ at[c] = "listed" /\ list[c] # {}
  /\ gpc' = [g \in Goroutine |-> IF g[1] = c /\ g[2] = Nth(list[c], 0) THEN "check" ELSE gpc[g]]
  /\ target' = [g \in Goroutine |-> IF g[1] = c /\ g[2] \in list[c] THEN g[2] ELSE target[g]]
  /\ Use(c)
  /\ pending' = [pending EXCEPT ![c] = 1]
  /\ pc' = [pc EXCEPT ![c] = "wait"]
  /\ UNCHANGED <<process, op, doc, n, i, expired, closed, got, total>>
  /\ UNCHANGED <<conn, answer, channel, netVars, envVars, ghosts>>

(* A goroutine is started for each worker of the group, and waited for.           *)
AskReplicas(c) ==
  /\ process = "up" /\ pc[c] = "loop" /\ op[c] \in Write
  /\ at[c] = "listed" /\ list[c] # {}
  /\ gpc' = [g \in Goroutine |-> IF g[1] = c /\ g[2] \in list[c] THEN "check" ELSE gpc[g]]
  /\ target' = [g \in Goroutine |-> IF g[1] = c /\ g[2] \in list[c] THEN g[2] ELSE target[g]]
  /\ Use(c)
  /\ pending' = [pending EXCEPT ![c] = Cardinality(list[c])]
  /\ pc' = [pc EXCEPT ![c] = "wait"]
  /\ UNCHANGED <<process, op, doc, n, i, expired, closed, got, total>>
  /\ UNCHANGED <<conn, answer, channel, netVars, envVars, ghosts>>

------------------------------------------------------------------------------
Go(g, label) == gpc' = [gpc EXCEPT ![g] = label]

(* A goroutine ends, and its deferred Done counts it off.                         *)
Done(g) == Go(g, "done") /\ pending' = [pending EXCEPT ![g[1]] = @ - 1]

ConnIs(g, state)  == conns[target[g]][conn[g]] = state
SetConn(g, state) == conns' = [conns EXCEPT ![target[g]][conn[g]] = state]

(* Another goroutine is about to replace or to use the connection of t.           *)
InUse(g, t) == \E h \in Goroutine \ {g} : target[h] = t /\ gpc[h] \in {"close", "dial", "call"}

(* GetGrpcConn looks for a connection, which is used if it is ready.              *)
Check(g) ==
  LET k     == pool[target[g]]
      ready == k # 0 /\ conns[target[g]][k] = "ready"
  IN  /\ process = "up" /\ gpc[g] = "check"
      /\ conn' = [conn EXCEPT ![g] = k]
      /\ IF k = 0 THEN Go(g, "dial") ELSE IF ready THEN Go(g, "call") ELSE Go(g, "close")
      /\ upsets' = IF ~ready /\ InUse(g, target[g]) THEN upsets \cup {"shared"} ELSE upsets
      /\ UNCHANGED <<hubVars, process, callVars, target, answer, channel, netVars, envVars>>
      /\ UNCHANGED <<calls, known, quiet>>

(* One that is not ready is closed, whoever waits for it, and taken out of the    *)
(* pool, even if the pool has another one by now.                                 *)
CloseStale(g) ==
  /\ process = "up" /\ gpc[g] = "close"
  /\ SetConn(g, "closed")
  /\ pool' = [pool EXCEPT ![target[g]] = 0]
  /\ Go(g, "dial")
  /\ UNCHANGED <<hubVars, process, callVars, target, conn, answer, channel, stored>>
  /\ UNCHANGED <<envVars, ghosts>>

(* Faulty: the new connection is not put into the pool.                           *)
FaultyDial(g) ==
  /\ process = "up" /\ gpc[g] = "dial"
  /\ conns' = [conns EXCEPT ![target[g]] = Append(@, "idle")]
  /\ conn' = [conn EXCEPT ![g] = Len(conns[target[g]]) + 1]
  /\ Go(g, "call")
  /\ UNCHANGED <<hubVars, process, callVars, target, answer, channel, pool, stored>>
  /\ UNCHANGED <<envVars, ghosts>>

(* A new one goes into the pool, and connects when it is used.                    *)
Dial(g) ==
  /\ process = "up" /\ gpc[g] = "dial"
  /\ conns' = [conns EXCEPT ![target[g]] = Append(@, "idle")]
  /\ pool' = [pool EXCEPT ![target[g]] = Len(conns[target[g]]) + 1]
  /\ conn' = [conn EXCEPT ![g] = Len(conns[target[g]]) + 1]
  /\ Go(g, "call")
  /\ UNCHANGED <<hubVars, process, callVars, target, answer, channel, stored>>
  /\ UNCHANGED <<envVars, ghosts>>

(* The connection of an RPC that waits becomes ready.                             *)
Connect(g) ==
  /\ process = "up" /\ gpc[g] = "call"
  /\ ConnIs(g, "idle") /\ target[g] \in alive
  /\ SetConn(g, "ready")
  /\ UNCHANGED <<hubVars, process, callVars, goVars, pool, stored, envVars, ghosts>>

Served(g) ==
  /\ process = "up" /\ gpc[g] = "call"
  /\ ConnIs(g, "ready") /\ target[g] \in alive

(* What AddDoc or DeleteDoc does to the index of the worker.                      *)
Applied(g) ==
  LET c == g[1]
  IN  IF op[c] = "add" THEN [stored EXCEPT ![target[g]] = @ \cup {doc[c]}]
                       ELSE [stored EXCEPT ![target[g]] = @ \ {doc[c]}]

(* A worker answers AddDoc with 1, DeleteDoc with 1 if it had the document.       *)
ServeWrite(g) ==
  LET c == g[1]
  IN  /\ Served(g) /\ op[c] \in Write
      /\ stored' = Applied(g)
      /\ total' = IF op[c] = "add" \/ doc[c] \in stored[target[g]]
                    THEN [total EXCEPT ![c] = @ + 1] ELSE total
      /\ Done(g)
      /\ UNCHANGED <<hubVars, process, pc, op, doc, n, i, expired, closed, got>>
      /\ UNCHANGED <<target, conn, answer, channel, conns, pool, envVars, ghosts>>

(* Search answers with documents in any order, Count with one number.             *)
ServeQuery(g) ==
  LET c == g[1]
      docs == stored[target[g]]
  IN  /\ Served(g) /\ op[c] \in Query
      /\ answer' = [answer EXCEPT ![g] = IF op[c] = "search" THEN SetToSeq(docs)
                                                             ELSE <<Cardinality(docs)>>]
      /\ IF op[c] = "search" /\ docs = {} THEN Done(g) ELSE Go(g, "send") /\ UNCHANGED pending
      /\ UNCHANGED <<hubVars, process, pc, op, doc, n, i, expired, closed, got, total>>
      /\ UNCHANGED <<target, conn, channel, netVars, envVars, ghosts>>

(* An RPC fails: a write is logged and left at that, a query ends the web server. *)
Failed(g) ==
  IF op[g[1]] \in Query
    THEN process' = "exited" /\ UNCHANGED <<gpc, pending>>
    ELSE Done(g) /\ UNCHANGED process

(* Its connection was closed by another goroutine, its worker is gone or has no   *)
(* address, or the query's five seconds are over; a write has no deadline.        *)
Fail(g) ==
  /\ process = "up" /\ gpc[g] = "call"
  /\ \/ ConnIs(g, "closed")
     \/ target[g] \notin alive
     \/ op[g[1]] \in Query /\ expired[g[1]]
  /\ Failed(g)
  /\ UNCHANGED <<hubVars, pc, op, doc, n, i, expired, closed, got, total>>
  /\ UNCHANGED <<target, conn, answer, channel, netVars, envVars, ghosts>>

(* The connection breaks before or after the worker has done its part.            *)
Break(g) ==
  /\ process = "up" /\ gpc[g] = "call" /\ ~ConnIs(g, "closed")
  /\ Elsewhere
  /\ upsets' = upsets \cup {"fault"}
  /\ SetConn(g, "idle")
  /\ stored' = stored \/ (Served(g) /\ op[g[1]] \in Write /\ stored' = Applied(g))
  /\ Failed(g)
  /\ UNCHANGED <<pc, op, doc, n, i, expired, closed, got, total>>
  /\ UNCHANGED <<target, conn, answer, channel, pool, envVars, calls, known, quiet>>

(* Faulty: Done is called for each document, not when the goroutine ends.         *)
FaultySend(g) ==
  /\ process = "up" /\ gpc[g] = "send"
  /\ Len(channel[g]) < Capacity
  /\ channel' = [channel EXCEPT ![g] = Append(@, Head(answer[g]))]
  /\ answer' = [answer EXCEPT ![g] = Tail(@)]
  /\ IF Len(answer[g]) = 1 THEN Go(g, "done") ELSE UNCHANGED gpc
  /\ pending' = [pending EXCEPT ![g[1]] = IF @ = 0 THEN 0 ELSE @ - 1]
  /\ UNCHANGED <<hubVars, process, pc, op, doc, n, i, expired, closed, got, total>>
  /\ UNCHANGED <<target, conn, netVars, envVars, ghosts>>

(* A producer sends its answers, unless the context is over.                      *)
Send(g) ==
  /\ process = "up" /\ gpc[g] = "send"
  /\ \/ /\ Len(channel[g]) < Capacity
        /\ channel' = [channel EXCEPT ![g] = Append(@, Head(answer[g]))]
        /\ answer' = [answer EXCEPT ![g] = Tail(@)]
        /\ IF Len(answer[g]) = 1 THEN Done(g) ELSE UNCHANGED <<gpc, pending>>
     \/ /\ expired[g[1]]
        /\ Done(g) /\ UNCHANGED <<channel, answer>>
  /\ UNCHANGED <<hubVars, process, pc, op, doc, n, i, expired, closed, got, total>>
  /\ UNCHANGED <<target, conn, netVars, envVars, ghosts>>

(* A consumer takes from its channel: it appends the document, or adds the count.  *)
Receive(g) ==
  LET c == g[1]
  IN  /\ process = "up" /\ pc[c] = "wait" /\ channel[g] # <<>>
      /\ IF op[c] = "search"
           THEN got' = [got EXCEPT ![c] = @ (+) SetToBag({Head(channel[g])})] /\ UNCHANGED total
           ELSE total' = [total EXCEPT ![c] = @ + Head(channel[g])] /\ UNCHANGED got
      /\ channel' = [channel EXCEPT ![g] = Tail(@)]
      /\ UNCHANGED <<hubVars, process, pc, op, doc, n, i, pending, expired, closed>>
      /\ UNCHANGED <<gpc, target, conn, answer, netVars, envVars, ghosts>>

Producers(c) == {g \in Goroutine : g[1] = c /\ g[2] \in 0 .. n[c] - 1}

(* When the wait group is at zero, the closer closes the channels.                *)
CloseChannels(c) ==
  /\ process = "up" /\ pc[c] = "wait" /\ op[c] \in Query /\ ~closed[c]
  /\ pending[c] = 0
  /\ closed' = [closed EXCEPT ![c] = TRUE]
  /\ UNCHANGED <<hubVars, process, pc, op, doc, n, i, pending, expired, got, total>>
  /\ UNCHANGED <<goVars, netVars, envVars, ghosts>>

Forget(c) ==
  /\ gpc' = [g \in Goroutine |-> IF g[1] = c THEN "none" ELSE gpc[g]]
  /\ target' = [g \in Goroutine |-> IF g[1] = c THEN NoEndpoint ELSE target[g]]
  /\ conn' = [g \in Goroutine |-> IF g[1] = c THEN 0 ELSE conn[g]]
  /\ answer' = [g \in Goroutine |-> IF g[1] = c THEN <<>> ELSE answer[g]]
  /\ UNCHANGED channel

(* Faulty: the query does not wait for its consumers.                             *)
FaultyReturnQuery(c) ==
  /\ process = "up" /\ pc[c] = "wait" /\ closed[c]
  /\ pc' = [pc EXCEPT ![c] = "returned"]
  /\ gpc' = [g \in Goroutine |-> IF g[1] = c THEN "none" ELSE gpc[g]]
  /\ UNCHANGED <<hubVars, process, op, doc, n, i, pending, expired, closed, got, total>>
  /\ UNCHANGED <<target, conn, answer, channel, netVars, envVars, ghosts>>

(* The consumers have emptied the closed channels, and the query returns.         *)
ReturnQuery(c) ==
  /\ process = "up" /\ pc[c] = "wait" /\ closed[c]
  /\ \A g \in Producers(c) : channel[g] = <<>>
  /\ pc' = [pc EXCEPT ![c] = "returned"]
  /\ Forget(c)
  /\ UNCHANGED <<hubVars, process, op, doc, n, i, pending, expired, closed, got, total>>
  /\ UNCHANGED <<netVars, envVars, ghosts>>

(* All replicas have answered or failed, and the write returns total.             *)
ReturnWrite(c) ==
  /\ process = "up" /\ pc[c] = "wait" /\ op[c] \in Write
  /\ pending[c] = 0
  /\ pc' = [pc EXCEPT ![c] = "returned"]
  /\ known' = [known EXCEPT ![doc[c]] = IF op[c] = "add" THEN "present" ELSE "absent"]
  /\ Forget(c)
  /\ UNCHANGED <<hubVars, process, op, doc, n, i, pending, expired, closed, got, total>>
  /\ UNCHANGED <<netVars, envVars, calls, upsets, quiet>>

------------------------------------------------------------------------------
(* The context of a query runs out after five seconds, which matters while one of *)
(* its producers waits for an answer or has answers to send.                      *)
Expire(c) ==
  /\ process = "up" /\ op[c] \in Query /\ ~expired[c]
  /\ \E g \in Goroutine : g[1] = c /\ gpc[g] \in {"call", "send"}
  /\ expired' = [expired EXCEPT ![c] = TRUE]
  /\ upsets' = upsets \cup {"expired"}
  /\ UNCHANGED <<hubVars, process, pc, op, doc, n, i, pending, closed, got, total>>
  /\ UNCHANGED <<goVars, netVars, envVars, calls, known, quiet>>

Fault ==
  /\ process = "up"
  /\ Elsewhere
  /\ upsets' = upsets \cup {"fault"}
  /\ UNCHANGED <<process, callVars, goVars, pool, stored, calls, known, quiet>>

(* A worker ends; its connections are no longer ready.                            *)
Crash(e) ==
  /\ Fault /\ e \in alive
  /\ alive' = alive \ {e}
  /\ conns' = [conns EXCEPT ![e] = [k \in DOMAIN @ |-> IF @[k] = "ready" THEN "idle" ELSE @[k]]]
  /\ UNCHANGED shards

(* Workers of other groups count themselves in or off.                            *)
Resize(m) ==
  /\ Fault /\ m # shards
  /\ shards' = m
  /\ UNCHANGED <<conns, alive>>

(* A worker registers, or its key goes.                                           *)
Register(e) ==
  /\ process = "up" /\ (Join(e) \/ Leave(e))
  /\ UNCHANGED <<process, callVars, goVars, netVars, envVars, ghosts>>

------------------------------------------------------------------------------
(* The steps of a query's caller and of its closer and consumers; those of the     *)
(* goroutines.                                                                    *)
QueryStep(c) ==
  \/ Find(c) \/ FindOne(c) \/ SkipGroup(c) \/ AskGroup(c)
  \/ CloseChannels(c) \/ ReturnQuery(c)
  \/ \E g \in Goroutine : g[1] = c /\ Receive(g)

GetGrpcConn(g)   == Check(g) \/ CloseStale(g) \/ Dial(g)
ProducerStep(g)  == GetGrpcConn(g) \/ Fail(g) \/ Send(g)
ReplicaStep(g)   == GetGrpcConn(g) \/ Fail(g) \/ Connect(g) \/ ServeWrite(g) \/ Break(g)
QueryAnswered(g) == Connect(g) \/ ServeQuery(g) \/ Break(g)

QueryCall(c, o) ==
  \/ BeginQuery(c, o)
  \/ /\ op[c] = o
     /\ \/ QueryStep(c) \/ AwaitWatch(c)
        \/ \E g \in Goroutine : g[1] = c /\ (ProducerStep(g) \/ QueryAnswered(g))

Search(c) == QueryCall(c, "search")
Count(c)  == QueryCall(c, "count")

WriteCall(c, o) ==
  \/ \E d \in Written : BeginWrite(c, o, d)
  \/ /\ op[c] = o
     /\ \/ Find(c) \/ AwaitWatch(c) \/ NoReplica(c) \/ AskReplicas(c) \/ ReturnWrite(c)
        \/ \E g \in Goroutine : g[1] = c /\ ReplicaStep(g)

AddDoc(c)    == WriteCall(c, "add")
DeleteDoc(c) == WriteCall(c, "delete")

Next ==
  \/ \E c \in Caller : Search(c) \/ Count(c) \/ AddDoc(c) \/ DeleteDoc(c) \/ Expire(c)
  \/ \E e \in Unsteady : Crash(e) \/ Register(e)
  \/ \E m \in ShardCounts : Resize(m)

Spec == Init /\ [][Next]_vars

(* A query whose goroutines can run is not held up for ever, each of its reads of  *)
(* etcd ends within three seconds, and its context runs out.  Nothing is assumed   *)
(* of the workers, whose answer to an RPC may stay out, nor of AwaitWatch: the     *)
(* call of Watch has no deadline.                                                 *)
RunQuery(c) ==
  \/ QueryStep(c)
  \/ \E g \in Goroutine : g[1] = c /\ ProducerStep(g)

FairSpec == Spec /\ \A c \in Caller : WF_vars(RunQuery(c)) /\ WF_vars(Expire(c))

------------------------------------------------------------------------------
Undisturbed == upsets = {} /\ changed = {} /\ ~failed

(* Send on a closed channel panics: when the channels of a query are closed, each  *)
(* of its producers has ended, though the closer knows only the counter that the   *)
(* loop sets and that skipped groups and ending producers count down.              *)
ClosedAfterProducers ==
  \A c \in Caller : Running(c) /\ op[c] \in Query /\ closed[c] =>
    pc[c] = "wait" /\ \A g \in Producers(c) : gpc[g] = "done"

(* A query that ran while nothing failed or changed has exactly the documents that *)
(* were there throughout: each that the last AddDoc put on the replicas comes from  *)
(* one group and is merged once, and each that DeleteDoc took away is gone.        *)
AnswerIsExact ==
  \A c \in Caller :
    Undisturbed /\ pc[c] = "returned" /\ n[c] > 0 =>
      /\ op[c] = "search" => \A d \in Doc :
           /\ quiet[c][d] = "present" => BagIn(d, got[c]) /\ got[c][d] = 1
           /\ quiet[c][d] = "absent"  => ~BagIn(d, got[c])
      /\ op[c] = "count" /\ (\A d \in Doc : quiet[c][d] # "unknown") =>
           total[c] = Cardinality({d \in Doc : quiet[c][d] = "present"})

(* The replicas of a group agree on every document that nobody writes: each has it  *)
(* or none.  Excused are five events after which a replica may miss a write: a      *)
(* fault (a worker crashed, a connection broke, or total-shards changed), a worker  *)
(* that came or left, two writes of one document that overlapped, and two           *)
(* goroutines at an endpoint whose connection was not ready, of which one closes    *)
(* the other's.  Queries that expire or fail, writes that find no group or end the  *)
(* web server, and failed reads of etcd do not make replicas differ.                *)
Steady == upsets \cap {"fault", "overlap", "shared"} = {} /\ changed = {}

ReplicasAgree ==
  Steady => \A d \in Doc, e, f \in registered :
    GroupOf[e] = GroupOf[f] /\ Writing(d) = {} => (d \in stored[e] <=> d \in stored[f])

(* As long as no two goroutines use an endpoint before its connection is ready, no  *)
(* RPC loses its connection to the pool, and no open connection is left out of it.  *)
ConnectionsKept ==
  process = "up" /\ "shared" \notin upsets =>
    /\ \A g \in Goroutine : gpc[g] = "call" =>
         ~ConnIs(g, "closed") /\ pool[target[g]] = conn[g]
    /\ \A t \in Target : \A k \in DOMAIN conns[t] : conns[t][k] # "closed" => pool[t] = k

(* Log.Fatalf or a panic ends the web server only after one of these: a fault (a    *)
(* worker crashed, a connection broke, or total-shards changed); a worker that came *)
(* or left; a failed read of a group's endpoints; an expired query; two goroutines  *)
(* at an endpoint whose connection was not ready; or a call that found no group,    *)
(* because total-shards was 0 or could not be read: a write then divides by zero.   *)
(* Writes of one document that overlap are no cause, nor is anything a caller does. *)
HasCause == upsets \cap {"fault", "expired", "shared", "nogroup"} # {} \/ changed # {} \/ failed

ExitHasCause == process = "exited" => HasCause

(* Every Search and Count returns, or ends the web server, whether or not the      *)
(* workers answer, or it is the first to ask for a group and etcd never confirms    *)
(* the watch.  As callers begin finitely many calls and wait for each group's watch *)
(* at most once: again and again all queries that are under way are at a watch.    *)
QueriesEnd ==
  []<>(process = "exited" \/ \A c \in Caller : Running(c) /\ op[c] \in Query => at[c] = "watch")

(* Sentinel uses HubProxy as it is specified.                                       *)
UsesHubProxy == HubSpec

(* service/distribute.go:151 says that empty groups are skipped: a query leaves out *)
(* a group that has no worker, so the proxy must not give it a list for one.       *)
EmptyGroupsAreSkipped ==
  [][\A c \in Caller :
       op[c] \in Query /\ at[c] \in {"idle", "watch"} /\ at'[c] = "listed" /\ EndpointsOf(i[c]) = {}
         => list'[c] = {}]_vars
==============================================================================
