------------------------------- MODULE HubProxy -------------------------------
(* The web server's view of the workers: ServiceHubProxy (service/hub_proxy.go), *)
(* a cache of endpoint lists in front of ServiceHub's reads of etcd, and the      *)
(* round-robin balancer (service/load_balance.go).  GetServiceEndpoints goes      *)
(* through the cache; GetServiceEndpoint is the embedded ServiceHub's method and  *)
(* reads etcd each time.                                                          *)
(*                                                                                *)
(* The first to ask for a group starts a watch and waits until etcd confirms it,   *)
(* without a deadline.  The watch has no other effect: it is for keys that begin   *)
(* with "/electric-search" <index> "/group...", without the slash that ends        *)
(* ServiceRootPath and stands before the index name in every service key, so no   *)
(* event ever reaches its goroutine.  Nothing but a getter stores into the cache.  *)
(* The limiter is left out: a request over the limit is logged and served.         *)
EXTENDS Integers, FiniteSets

CONSTANTS Caller,         (* goroutines of the web server that use the proxy      *)
          Endpoint,       (* addresses of workers, numbered in the order of their  *)
                          (* keys in etcd                                          *)
          Group,          (* numbers of groups: a group is named "group-" number   *)
          GroupOf,        (* the group each worker registers in                    *)
          NoList,         (* no entry in the cache                                 *)
          NoEndpoint,     (* the empty string, Take's answer for an empty list     *)
          AccWidth,       (* the counter of the balancer counts modulo this (2^64) *)
          Starts,         (* the sets of workers that may be registered at first   *)
          Unsteady,       (* bound: the workers that may come, leave or crash      *)
          MaxUpsets       (* bound: registrations that come or go, reads of etcd   *)
                          (* that fail, and faults elsewhere                       *)

ASSUME HubProxyAssumption ==
  /\ Endpoint \subseteq Nat /\ IsFiniteSet(Endpoint)
  /\ Group \subseteq Nat /\ 0 \in Group /\ GroupOf \in [Endpoint -> Group]
  /\ NoEndpoint \notin Endpoint
  /\ \A S \in SUBSET Endpoint : NoList # S
  /\ AccWidth \in Nat \ {0} /\ Starts \subseteq SUBSET Endpoint
  /\ Unsteady \subseteq Endpoint
  /\ MaxUpsets \in Nat

VARIABLES registered,     (* etcd: the workers whose service key exists            *)
          cache,          (* endpointCache: a list for some groups                 *)
          watched,        (* the groups that somebody has begun to watch           *)
          acc,            (* RoundRobin.acc                                        *)
          at,             (* where each caller is inside the two getters           *)
          group,          (* their argument                                        *)
          list,           (* the list a caller has read from the cache or etcd     *)
          picked,         (* the answer of Take                                    *)
          changed,        (* history: workers that came or left                    *)
          failed,         (* history: some read of etcd failed                     *)
          upsetCount      (* history: how many such things happened                *)

hubVars == <<registered, cache, watched, acc, at, group, list, picked, changed, failed, upsetCount>>

At    == {"idle", "watch", "fetch", "store", "listed", "add", "read", "picked"}
List  == SUBSET Endpoint

HubTypeOK ==
  /\ registered \subseteq Endpoint
  /\ cache \in [Group -> {NoList} \cup List]
  /\ watched \subseteq Group
  /\ acc \in 0 .. AccWidth - 1
  /\ at \in [Caller -> At]
  /\ group \in [Caller -> Group]
  /\ list \in [Caller -> List]
  /\ picked \in [Caller -> {NoEndpoint} \cup Endpoint]
  /\ changed \subseteq Endpoint
  /\ failed \in BOOLEAN /\ upsetCount \in 0 .. MaxUpsets

(* The key of a worker of group h begins with the prefix of group g: no slash     *)
(* ends the prefix, so "group-1" also selects "group-10" to "group-19".           *)
NameBegins(h, g) == h = g \/ (g > 0 /\ h >= 10 * g /\ h <= 10 * g + 9)

(* What a Get of etcd with the prefix of g returns.                               *)
EndpointsOf(g) == {e \in registered : NameBegins(GroupOf[e], g)}

------------------------------------------------------------------------------
HubInit ==
  /\ registered \in Starts
  /\ cache = [g \in Group |-> NoList]
  /\ watched = {} /\ acc = 0
  /\ at = [c \in Caller |-> "idle"]
  /\ group = [c \in Caller |-> 0]
  /\ list = [c \in Caller |-> {}]
  /\ picked = [c \in Caller |-> NoEndpoint]
  /\ changed = {} /\ failed = FALSE /\ upsetCount = 0

Upset == upsetCount < MaxUpsets /\ upsetCount' = upsetCount + 1

Goto(c, label) == at' = [at EXCEPT ![c] = label]

(* GetServiceEndpoints(g): the first caller for a group asks etcd to watch it, ... *)
StartWatch(c, g) ==
  /\ at[c] = "idle" /\ g \notin watched
  /\ watched' = watched \cup {g}
  /\ group' = [group EXCEPT ![c] = g]
  /\ Goto(c, "watch")
  /\ UNCHANGED <<registered, cache, acc, list, picked, changed, failed, upsetCount>>

Lookup(c, g) ==
  IF cache[g] # NoList
    THEN Goto(c, "listed") /\ list' = [list EXCEPT ![c] = cache[g]]
    ELSE Goto(c, "fetch") /\ UNCHANGED list

(* ... and looks into the cache when etcd has confirmed that; ...                  *)
Watch(c) ==
  /\ at[c] = "watch"
  /\ Lookup(c, group[c])
  /\ UNCHANGED <<registered, cache, watched, acc, group, picked, changed, failed, upsetCount>>

(* ... everyone else looks into the cache at once.                                 *)
Load(c, g) ==
  /\ at[c] = "idle" /\ g \in watched
  /\ group' = [group EXCEPT ![c] = g]
  /\ Lookup(c, g)
  /\ UNCHANGED <<registered, cache, watched, acc, picked, changed, failed, upsetCount>>

(* ServiceHub.GetServiceEndpoints: one Get; an error is logged and gives nil.     *)
Read(c, from, to) ==
  /\ at[c] = from
  /\ Goto(c, to)
  /\ \/ /\ list' = [list EXCEPT ![c] = EndpointsOf(group[c])]
        /\ UNCHANGED <<failed, upsetCount>>
     \/ /\ list' = [list EXCEPT ![c] = {}]
        /\ Upset /\ failed' = TRUE
  /\ UNCHANGED <<registered, cache, watched, acc, group, picked, changed>>

Fetch(c) == Read(c, "fetch", "store")

(* The variants whose names begin with Faulty are not part of the specification:  *)
(* each is the definition that follows it with a plausible bug.                   *)

(* Faulty: a nil list is stored as well.                                          *)
FaultyStore(c) ==
  /\ at[c] = "store"
  /\ Goto(c, "listed")
  /\ cache' = [cache EXCEPT ![group[c]] = list[c]]
  /\ UNCHANGED <<registered, watched, acc, group, list, picked, changed, failed, upsetCount>>

(* The list goes into the cache unless it is empty.                               *)
Store(c) ==
  /\ at[c] = "store"
  /\ Goto(c, "listed")
  /\ cache' = IF list[c] # {} THEN [cache EXCEPT ![group[c]] = list[c]] ELSE cache
  /\ UNCHANGED <<registered, watched, acc, group, list, picked, changed, failed, upsetCount>>

(* GetServiceEndpoint(g) is called for a group whose list was not empty, and reads  *)
(* etcd again.                                                                     *)
FetchOne(c) == list[c] # {} /\ Read(c, "listed", "add")

(* Faulty: a list of one worker is taken for empty.                               *)
FaultyAdd(c) ==
  /\ at[c] = "add"
  /\ IF Cardinality(list[c]) <= 1
       THEN /\ picked' = [picked EXCEPT ![c] = NoEndpoint]
            /\ Goto(c, "picked")
            /\ UNCHANGED acc
       ELSE /\ acc' = (acc + 1) % AccWidth
            /\ Goto(c, "read")
            /\ UNCHANGED picked
  /\ UNCHANGED <<registered, cache, watched, group, list, changed, failed, upsetCount>>

(* Take returns at once for an empty list; otherwise it adds to the counter ...   *)
Add(c) ==
  /\ at[c] = "add"
  /\ IF list[c] = {}
       THEN /\ picked' = [picked EXCEPT ![c] = NoEndpoint]
            /\ Goto(c, "picked")
            /\ UNCHANGED acc
       ELSE /\ acc' = (acc + 1) % AccWidth
            /\ Goto(c, "read")
            /\ UNCHANGED picked
  /\ UNCHANGED <<registered, cache, watched, group, list, changed, failed, upsetCount>>

(* The element of S that n others precede.                                        *)
Nth(S, n) == CHOOSE e \in S : Cardinality({f \in S : f < e}) = n

(* ... and indexes with the counter it reads again, without the atomic operation. *)
Take(S) == Nth(S, acc % Cardinality(S))

ReadAcc(c) ==
  /\ at[c] = "read"
  /\ picked' = [picked EXCEPT ![c] = Take(list[c])]
  /\ Goto(c, "picked")
  /\ UNCHANGED <<registered, cache, watched, acc, group, list, changed, failed, upsetCount>>

(* The caller goes on with the list or the endpoint.                              *)
Use(c) ==
  /\ at[c] \in {"listed", "picked"}
  /\ Goto(c, "idle")
  /\ list' = [list EXCEPT ![c] = {}]
  /\ picked' = [picked EXCEPT ![c] = NoEndpoint]
  /\ group' = [group EXCEPT ![c] = 0]
  /\ UNCHANGED <<registered, cache, watched, acc, changed, failed, upsetCount>>

(* etcd: a worker registers; it unregisters, or its lease runs out.               *)
Change(e) ==
  /\ Upset
  /\ changed' = changed \cup {e}
  /\ UNCHANGED <<cache, watched, acc, at, group, list, picked, failed>>

Join(e)  == e \notin registered /\ registered' = registered \cup {e} /\ Change(e)
Leave(e) == e \in registered /\ registered' = registered \ {e} /\ Change(e)

HubStep(c) ==
  \/ \E g \in Group : StartWatch(c, g) \/ Load(c, g)
  \/ Watch(c) \/ Fetch(c) \/ Store(c) \/ FetchOne(c) \/ Add(c) \/ ReadAcc(c) \/ Use(c)

(* Something else goes wrong that the getters do not notice.                      *)
Elsewhere ==
  /\ Upset
  /\ UNCHANGED <<registered, cache, watched, acc, at, group, list, picked, changed, failed>>

HubNext ==
  \/ \E c \in Caller : HubStep(c)
  \/ \E e \in Unsteady : Join(e) \/ Leave(e)
  \/ Elsewhere

HubSpec == HubInit /\ [][HubNext]_hubVars

------------------------------------------------------------------------------
(* A cached list is never empty, and differs from the workers that are registered *)
(* now by workers that came or left only: neither concurrent getters nor failed    *)
(* reads put anything else into the cache.                                         *)
CacheIsCurrent ==
  \A g \in Group : cache[g] # NoList =>
    cache[g] # {} /\ cache[g] \ changed = EndpointsOf(g) \ changed

(* The balancer hands out the empty endpoint, which ends the web server, only if   *)
(* all workers of the group's cached list have come or left meanwhile, or a read   *)
(* of etcd failed; and any other endpoint is one of the group's, or has left.      *)
PickIsOfGroup ==
  \A c \in Caller : at[c] = "picked" =>
    IF picked[c] = NoEndpoint
      THEN failed \/ (cache[group[c]] # NoList /\ cache[group[c]] \subseteq changed)
      ELSE picked[c] \in EndpointsOf(group[c]) \cup changed
==============================================================================
