---------------------------- MODULE HubProxyProofs ----------------------------
(* Theorems about HubProxy, for every set of callers, workers and groups and     *)
(* however often workers come and go: what the cache holds, and what the          *)
(* balancer hands out.                                                            *)
EXTENDS HubProxy, FiniteSetTheorems, TLAPS

(* A list read from etcd differs from the registered workers by those that came   *)
(* or left, or is what a failed read left.                                        *)
ListIsCurrent ==
  \A c \in Caller : at[c] \in {"store", "listed", "add", "read"} =>
    \/ list[c] \ changed = EndpointsOf(group[c]) \ changed
    \/ failed /\ list[c] = {}

(* A caller with a list of a group, or past it, has it from the cache or left it   *)
(* there.                                                                          *)
GroupIsCached ==
  \A c \in Caller :
    at[c] \in {"add", "read", "picked"} \/ (at[c] = "listed" /\ list[c] # {}) =>
      cache[group[c]] # NoList

(* An index is taken of a list that is not empty.                                 *)
IndexedIsNonempty == \A c \in Caller : at[c] = "read" => list[c] # {}

(* What the balancer hands out, by the workers rather than by the cache.          *)
PickIsCurrent ==
  \A c \in Caller : at[c] = "picked" =>
    IF picked[c] = NoEndpoint THEN failed \/ EndpointsOf(group[c]) \subseteq changed
                              ELSE picked[c] \in EndpointsOf(group[c]) \cup changed

HubInv == /\ HubTypeOK /\ CacheIsCurrent /\ ListIsCurrent
          /\ GroupIsCached /\ IndexedIsNonempty /\ PickIsCurrent

------------------------------------------------------------------------------
USE HubProxyAssumption DEF HubProxyAssumption

(* In a finite set of numbers each place below its size is taken: counting the    *)
(* smaller elements is one to one into 0 .. Cardinality(S) - 1, so onto.           *)
LEMMA NthIsElement ==
  ASSUME NEW S \in SUBSET Nat, IsFiniteSet(S), NEW k \in Nat, k < Cardinality(S)
  PROVE  Nth(S, k) \in S
<1> DEFINE Less(e) == {f \in S : f < e}
           rank == [e \in S |-> Cardinality(Less(e))]
           n == Cardinality(S)
<1>1. n \in Nat
  BY FS_CardinalityType
<1>2. \A e \in S : IsFiniteSet(Less(e)) /\ rank[e] = Cardinality(Less(e)) /\ rank[e] \in Nat
  BY FS_Subset, FS_CardinalityType
<1>r. rank = [e \in S |-> rank[e]]
  OBVIOUS
<1>k. k \in 0 .. n - 1
  BY <1>1
<1> HIDE DEF rank, n
<1>3. \A e \in S : rank[e] \in 0 .. n - 1
  <2> TAKE e \in S
  <2>1. Less(e) \in SUBSET S /\ Less(e) # S
    <3>1. e \notin Less(e)
      OBVIOUS
    <3> QED BY <3>1
  <2>2. Cardinality(Less(e)) <= n /\ Cardinality(Less(e)) # n
    BY <2>1, FS_Subset DEF n
  <2> QED BY <1>1, <1>2, <2>2
<1>4. \A e, f \in S : e < f => rank[e] # rank[f]
  <2> TAKE e, f \in S
  <2> HAVE e < f
  <2>1. Less(e) \in SUBSET Less(f) /\ e \in Less(f) /\ e \notin Less(e)
    <3>1. e \in Nat /\ f \in Nat /\ \A d \in S : d \in Nat
      OBVIOUS
    <3>2. \A d \in Less(e) : d \in S /\ d < f
      BY <3>1
    <3>3. e \in Less(f) /\ e \notin Less(e)
      BY <3>1
    <3>4. \A d \in Less(e) : d \in Less(f)
      BY <3>2
    <3> QED BY <3>3, <3>4
  <2>2. IsFiniteSet(Less(f)) /\ Less(e) # Less(f)
    BY <1>2, <2>1
  <2>3. Cardinality(Less(f)) # Cardinality(Less(e))
    BY <2>1, <2>2, FS_Subset
  <2> QED BY <1>2, <2>3
<1>5. \A e, f \in S : e # f => rank[e] # rank[f]
  <2> TAKE e, f \in S
  <2> HAVE e # f
  <2>1. e < f \/ f < e
    OBVIOUS
  <2> QED BY <1>4, <2>1
<1>6. \E e \in S : rank[e] = k
  <2> SUFFICES ASSUME \A e \in S : rank[e] # k PROVE FALSE
    OBVIOUS
  <2> DEFINE Rest == (0 .. n - 1) \ {k}
  <2>1. IsFiniteSet(0 .. n - 1) /\ Cardinality(0 .. n - 1) = n
    <3>1. 0 \in Int /\ n - 1 \in Int /\ (0 > n - 1 => n = 0) /\ n - 1 - 0 + 1 = n
      BY <1>1
    <3> QED BY <3>1, FS_Interval, Zenon
  <2>2. IsFiniteSet(Rest) /\ Cardinality(Rest) < n
    <3>1. IsFiniteSet(Rest) /\ Cardinality(Rest) = n - 1
      <4>1. /\ IsFiniteSet((0 .. n - 1) \ {k})
            /\ Cardinality((0 .. n - 1) \ {k}) =
                 IF k \in 0 .. n - 1 THEN Cardinality(0 .. n - 1) - 1 ELSE Cardinality(0 .. n - 1)
        BY <2>1, FS_RemoveElement, Zenon
      <4> QED BY <1>k, <2>1, <4>1
    <3> QED BY <1>1, <3>1
  <2>3. rank \in [S -> Rest]
    BY <1>3, <1>r
  <2> HIDE DEF Rest
  <2>4. \E e, f \in S : e # f /\ rank[e] = rank[f]
    BY <2>2, <2>3, FS_PigeonHole DEF n
  <2> QED BY <1>5, <2>4
<1>7. \E e \in S : Cardinality({f \in S : f < e}) = k
  BY <1>2, <1>6
<1> QED BY <1>7 DEF Nth

(* The balancer answers with a worker of its list.                                *)
LEMMA TakeIsElement ==
  ASSUME HubTypeOK, NEW S \in List, S # {}
  PROVE  Take(S) \in S
<1>1. IsFiniteSet(S) /\ S \in SUBSET Nat
  BY FS_Subset DEF List
<1>2. Cardinality(S) \in Nat /\ Cardinality(S) # 0
  BY <1>1, FS_CardinalityType, FS_EmptySet
<1>3. acc \in Nat
  BY DEF HubTypeOK
<1>4. acc % Cardinality(S) \in Nat /\ acc % Cardinality(S) < Cardinality(S)
  BY <1>2, <1>3
<1> QED BY <1>1, <1>4, NthIsElement DEF Take

LEMMA UpsetType ==
  ASSUME HubTypeOK, Upset
  PROVE  upsetCount' \in 0 .. MaxUpsets
BY DEF HubTypeOK, Upset

LEMMA HubInitInv == HubInit => HubInv
<1> SUFFICES ASSUME HubInit PROVE HubInv
  OBVIOUS
<1>1. acc \in 0 .. AccWidth - 1 /\ upsetCount \in 0 .. MaxUpsets /\ registered \subseteq Endpoint
  BY DEF HubInit
<1>2. HubTypeOK
  BY <1>1 DEF HubInit, HubTypeOK, List, At
<1> QED BY <1>2 DEF HubInit, HubInv, CacheIsCurrent, ListIsCurrent, GroupIsCached,
           IndexedIsNonempty, PickIsCurrent

(* What a getter reads or picks keeps the types.                                  *)
LEMMA EndpointsType == \A g : EndpointsOf(g) \subseteq registered
BY DEF EndpointsOf

LEMMA GotoType ==
  ASSUME at \in [Caller -> At], NEW c \in Caller, NEW l \in At, Goto(c, l)
  PROVE  /\ at' \in [Caller -> At] /\ at' = [at EXCEPT ![c] = l]
         /\ at'[c] = l /\ \A d \in Caller \ {c} : at'[d] = at[d]
BY DEF Goto

(* Each step of a getter keeps the invariant.                                     *)
LEMMA StartWatchStep ==
  ASSUME HubInv, NEW c \in Caller, NEW g \in Group, StartWatch(c, g)
  PROVE  HubInv'
<1>1. \A h : EndpointsOf(h)' = EndpointsOf(h)
  BY DEF StartWatch, EndpointsOf
<1>2. /\ at' \in [Caller -> At] /\ at'[c] = "watch" /\ watched' \subseteq Group
      /\ \A d \in Caller \ {c} : at'[d] = at[d] /\ group'[d] = group[d]
      /\ group' \in [Caller -> Group]
  BY DEF StartWatch, Goto, HubInv, HubTypeOK, At
<1>3. UNCHANGED <<registered, cache, acc, list, picked, changed, failed, upsetCount>>
  BY DEF StartWatch
<1> QED BY <1>1, <1>2, <1>3 DEF HubInv, HubTypeOK, CacheIsCurrent, ListIsCurrent,
           GroupIsCached, IndexedIsNonempty, PickIsCurrent

(* A look into the cache, at once or after a watch.                               *)
LEMMA LookupStep ==
  ASSUME HubInv, NEW c \in Caller, NEW g \in Group, Lookup(c, g),
         group' = [group EXCEPT ![c] = g],
         UNCHANGED <<registered, cache, watched, acc, picked, changed, failed, upsetCount>>
  PROVE  HubInv'
<1>1. \A h : EndpointsOf(h)' = EndpointsOf(h)
  BY DEF EndpointsOf
<1>2. /\ at' \in [Caller -> At] /\ list' \in [Caller -> List] /\ at'[c] \in {"listed", "fetch"}
      /\ at'[c] = "listed" => list'[c] = cache[g] /\ cache[g] # NoList
      /\ \A d \in Caller \ {c} : at'[d] = at[d] /\ list'[d] = list[d] /\ group'[d] = group[d]
      /\ group' \in [Caller -> Group] /\ group'[c] = g
  BY DEF Lookup, Goto, HubInv, HubTypeOK, At
<1> QED BY <1>1, <1>2 DEF HubInv, HubTypeOK, CacheIsCurrent, ListIsCurrent,
           GroupIsCached, IndexedIsNonempty, PickIsCurrent

LEMMA LoadStep ==
  ASSUME HubInv, NEW c \in Caller, NEW g \in Group, Load(c, g)
  PROVE  HubInv'
BY LookupStep DEF Load

LEMMA WatchStep ==
  ASSUME HubInv, NEW c \in Caller, Watch(c)
  PROVE  HubInv'
<1>1. group[c] \in Group /\ group' = [group EXCEPT ![c] = group[c]]
  BY DEF Watch, HubInv, HubTypeOK
<1> QED BY <1>1, LookupStep DEF Watch

LEMMA ReadStep ==
  ASSUME HubInv, NEW c \in Caller, NEW from \in At, NEW to \in {"store", "add"},
         from = "listed" => cache[group[c]] # NoList,
         to = "add" => from = "listed", Read(c, from, to)
  PROVE  HubInv'
<1>1. \A h : EndpointsOf(h)' = EndpointsOf(h)
  BY DEF Read, EndpointsOf
<1>2. /\ at' \in [Caller -> At] /\ list' \in [Caller -> List] /\ at'[c] = to
      /\ list'[c] = EndpointsOf(group[c]) \/ (list'[c] = {} /\ failed')
      /\ \A d \in Caller \ {c} : at'[d] = at[d] /\ list'[d] = list[d]
      /\ failed' \in BOOLEAN /\ upsetCount' \in 0 .. MaxUpsets /\ (failed => failed')
  <2>1. EndpointsOf(group[c]) \in List /\ {} \in List
    BY EndpointsType DEF HubInv, HubTypeOK, List
  <2>2. to \in At /\ Goto(c, to) /\ at \in [Caller -> At]
    BY DEF Read, HubInv, HubTypeOK, At
  <2>3. /\ list \in [Caller -> List] /\ group \in [Caller -> Group]
        /\ failed \in BOOLEAN /\ upsetCount \in 0 .. MaxUpsets
    BY DEF HubInv, HubTypeOK
  <2>4. \/ list' = [list EXCEPT ![c] = EndpointsOf(group[c])] /\ UNCHANGED <<failed, upsetCount>>
        \/ list' = [list EXCEPT ![c] = {}] /\ Upset /\ failed' = TRUE
    BY DEF Read
  <2>5. CASE list' = [list EXCEPT ![c] = EndpointsOf(group[c])] /\ UNCHANGED <<failed, upsetCount>>
    BY <2>1, <2>2, <2>3, <2>5, GotoType
  <2>6. CASE list' = [list EXCEPT ![c] = {}] /\ Upset /\ failed' = TRUE
    <3>1. upsetCount' \in 0 .. MaxUpsets
      BY <2>6, UpsetType DEF HubInv
    <3> QED BY <2>1, <2>2, <2>3, <2>6, <3>1, GotoType
  <2> QED BY <2>4, <2>5, <2>6
<1>3. UNCHANGED <<registered, cache, watched, acc, group, picked, changed>>
  BY DEF Read
<1> QED BY <1>1, <1>2, <1>3 DEF HubInv, HubTypeOK, CacheIsCurrent, ListIsCurrent,
           GroupIsCached, IndexedIsNonempty, PickIsCurrent

LEMMA StoreStep ==
  ASSUME HubInv, NEW c \in Caller, Store(c)
  PROVE  HubInv'
<1>1. \A h : EndpointsOf(h)' = EndpointsOf(h)
  BY DEF Store, EndpointsOf
<1>2. /\ at' \in [Caller -> At] /\ at[c] = "store" /\ at'[c] = "listed"
      /\ \A d \in Caller \ {c} : at'[d] = at[d]
  BY DEF Store, Goto, HubInv, HubTypeOK, At
<1>3. UNCHANGED <<registered, watched, acc, group, list, picked, changed, failed, upsetCount>>
  BY DEF Store
<1>4. CASE list[c] = {}
  BY <1>1, <1>2, <1>3, <1>4 DEF Store, HubInv, HubTypeOK, CacheIsCurrent, ListIsCurrent,
     GroupIsCached, IndexedIsNonempty, PickIsCurrent
<1>5. CASE list[c] # {}
  <2>1. list[c] \in List /\ list[c] # NoList /\ group[c] \in Group
    BY DEF HubInv, HubTypeOK, List
  <2>2. /\ cache' = [cache EXCEPT ![group[c]] = list[c]]
        /\ cache' \in [Group -> {NoList} \cup List]
    BY <1>5, <2>1 DEF Store, HubInv, HubTypeOK
  <2>3. list[c] \ changed = EndpointsOf(group[c]) \ changed
    BY <1>2, <1>5 DEF HubInv, ListIsCurrent
  <2>4. CacheIsCurrent'
    BY <1>1, <1>3, <1>5, <2>1, <2>2, <2>3 DEF CacheIsCurrent, HubInv, HubTypeOK
  <2>5. GroupIsCached'
    BY <1>2, <1>3, <2>1, <2>2 DEF GroupIsCached, HubInv, HubTypeOK
  <2> QED BY <1>1, <1>2, <1>3, <2>2, <2>4, <2>5 DEF HubInv, HubTypeOK, ListIsCurrent,
             IndexedIsNonempty, PickIsCurrent
<1> QED BY <1>4, <1>5

LEMMA AddStep ==
  ASSUME HubInv, NEW c \in Caller, Add(c)
  PROVE  HubInv'
<1>1. \A h : EndpointsOf(h)' = EndpointsOf(h)
  BY DEF Add, EndpointsOf
<1>2. /\ at' \in [Caller -> At] /\ at[c] = "add" /\ at'[c] \in {"picked", "read"}
      /\ at'[c] = IF list[c] = {} THEN "picked" ELSE "read"
      /\ \A d \in Caller \ {c} : at'[d] = at[d] /\ picked'[d] = picked[d]
      /\ picked' \in [Caller -> {NoEndpoint} \cup Endpoint]
      /\ list[c] = {} => picked'[c] = NoEndpoint
  BY DEF Add, Goto, HubInv, HubTypeOK, At
<1>3. acc' \in 0 .. AccWidth - 1
  BY DEF Add, HubInv, HubTypeOK
<1>4. UNCHANGED <<registered, cache, watched, group, list, changed, failed, upsetCount>>
  BY DEF Add
<1>5. list[c] = {} => failed \/ EndpointsOf(group[c]) \subseteq changed
  BY <1>2 DEF HubInv, ListIsCurrent
<1> QED BY <1>1, <1>2, <1>3, <1>4, <1>5 DEF HubInv, HubTypeOK, CacheIsCurrent, ListIsCurrent,
           GroupIsCached, IndexedIsNonempty, PickIsCurrent

LEMMA ReadAccStep ==
  ASSUME HubInv, NEW c \in Caller, ReadAcc(c)
  PROVE  HubInv'
<1>1. \A h : EndpointsOf(h)' = EndpointsOf(h)
  BY DEF ReadAcc, EndpointsOf
<1>2. Take(list[c]) \in list[c] /\ list[c] \in List
  BY TakeIsElement DEF ReadAcc, HubInv, HubTypeOK, IndexedIsNonempty
<1>3. Take(list[c]) \in EndpointsOf(group[c]) \cup changed
  BY <1>2 DEF ReadAcc, HubInv, ListIsCurrent
<1>4. Take(list[c]) \in Endpoint /\ Take(list[c]) # NoEndpoint
  BY <1>2 DEF List
<1>5. /\ at' \in [Caller -> At] /\ at[c] = "read" /\ at'[c] = "picked"
      /\ \A d \in Caller \ {c} : at'[d] = at[d] /\ picked'[d] = picked[d]
      /\ picked' \in [Caller -> {NoEndpoint} \cup Endpoint] /\ picked'[c] = Take(list[c])
  BY <1>4 DEF ReadAcc, Goto, HubInv, HubTypeOK, At
<1>6. UNCHANGED <<registered, cache, watched, acc, group, list, changed, failed, upsetCount>>
  BY DEF ReadAcc
<1> QED BY <1>1, <1>3, <1>4, <1>5, <1>6 DEF HubInv, HubTypeOK, CacheIsCurrent, ListIsCurrent,
           GroupIsCached, IndexedIsNonempty, PickIsCurrent

LEMMA UseStep ==
  ASSUME HubInv, NEW c \in Caller, Use(c)
  PROVE  HubInv'
<1>1. \A h : EndpointsOf(h)' = EndpointsOf(h)
  BY DEF Use, EndpointsOf
<1>2. /\ at' \in [Caller -> At] /\ at'[c] = "idle"
      /\ \A d \in Caller \ {c} : /\ at'[d] = at[d] /\ list'[d] = list[d]
                               /\ group'[d] = group[d] /\ picked'[d] = picked[d]
      /\ list' \in [Caller -> List] /\ group' \in [Caller -> Group]
      /\ picked' \in [Caller -> {NoEndpoint} \cup Endpoint]
  BY DEF Use, Goto, HubInv, HubTypeOK, At, List
<1>3. UNCHANGED <<registered, cache, watched, acc, changed, failed, upsetCount>>
  BY DEF Use
<1> QED BY <1>1, <1>2, <1>3 DEF HubInv, HubTypeOK, CacheIsCurrent, ListIsCurrent,
           GroupIsCached, IndexedIsNonempty, PickIsCurrent

(* A worker that comes or goes is taken out of both sides of each comparison.      *)
LEMMA ChangeStep ==
  ASSUME HubInv, NEW e \in Unsteady, Join(e) \/ Leave(e)
  PROVE  HubInv'
<1>1. \A h : EndpointsOf(h)' \ changed' = (EndpointsOf(h) \ changed) \ {e}
  BY DEF Join, Leave, Change, EndpointsOf
<1>2. \A h : EndpointsOf(h)' \cup changed' = EndpointsOf(h) \cup changed \cup {e}
  BY DEF Join, Leave, Change, EndpointsOf
<1>3. /\ changed' = changed \cup {e} /\ e \in Endpoint /\ registered' \subseteq Endpoint
      /\ changed' \subseteq Endpoint /\ upsetCount' \in 0 .. MaxUpsets
  BY UpsetType DEF Join, Leave, Change, HubInv, HubTypeOK
<1>4. UNCHANGED <<cache, watched, acc, at, group, list, picked, failed>>
  BY DEF Join, Leave, Change
<1>5. HubTypeOK'
  BY <1>3, <1>4 DEF HubInv, HubTypeOK
<1>6. CacheIsCurrent'
  <2> SUFFICES ASSUME NEW g \in Group, cache[g] # NoList
               PROVE  cache[g] # {} /\ cache[g] \ changed' = EndpointsOf(g)' \ changed'
    BY <1>4 DEF CacheIsCurrent
  <2>1. cache[g] # {} /\ cache[g] \ changed = EndpointsOf(g) \ changed
    BY DEF HubInv, CacheIsCurrent
  <2>2. cache[g] \ changed' = (cache[g] \ changed) \ {e}
    BY <1>3
  <2> QED BY <1>1, <2>1, <2>2
<1>7. ListIsCurrent'
  <2> SUFFICES ASSUME NEW c \in Caller, at[c] \in {"store", "listed", "add", "read"},
                             ~(failed /\ list[c] = {})
               PROVE  list[c] \ changed' = EndpointsOf(group[c])' \ changed'
    BY <1>4 DEF ListIsCurrent, EndpointsOf
  <2>1. list[c] \ changed = EndpointsOf(group[c]) \ changed
    BY DEF HubInv, ListIsCurrent
  <2>2. list[c] \ changed' = (list[c] \ changed) \ {e}
    BY <1>3
  <2>3. group' = group
    BY <1>4
  <2> QED BY <1>1, <2>1, <2>2, <2>3
<1>8. GroupIsCached' /\ IndexedIsNonempty'
  BY <1>4 DEF HubInv, GroupIsCached, IndexedIsNonempty
<1>9. PickIsCurrent'
  <2> SUFFICES ASSUME NEW c \in Caller, at[c] = "picked"
               PROVE  IF picked[c] = NoEndpoint
                        THEN failed \/ EndpointsOf(group[c])' \subseteq changed'
                        ELSE picked[c] \in EndpointsOf(group[c])' \cup changed'
    BY <1>4 DEF PickIsCurrent, EndpointsOf
  <2>1. IF picked[c] = NoEndpoint THEN failed \/ EndpointsOf(group[c]) \subseteq changed
                                  ELSE picked[c] \in EndpointsOf(group[c]) \cup changed
    BY DEF HubInv, PickIsCurrent
  <2>2. EndpointsOf(group[c])' \ changed' = (EndpointsOf(group[c]) \ changed) \ {e}
    BY <1>1, <1>4
  <2>3. EndpointsOf(group[c])' \cup changed' = EndpointsOf(group[c]) \cup changed \cup {e}
    BY <1>2, <1>4
  <2> QED BY <2>1, <2>2, <2>3
<1> QED BY <1>5, <1>6, <1>7, <1>8, <1>9 DEF HubInv

LEMMA ElsewhereStep ==
  ASSUME HubInv, Elsewhere \/ UNCHANGED hubVars
  PROVE  HubInv'
<1>1. /\ UNCHANGED <<registered, cache, watched, acc, at, group, list, picked, changed, failed>>
      /\ upsetCount' \in 0 .. MaxUpsets
  BY DEF Elsewhere, Upset, hubVars, HubInv, HubTypeOK
<1> QED BY <1>1 DEF HubInv, HubTypeOK, CacheIsCurrent, ListIsCurrent, GroupIsCached,
           IndexedIsNonempty, PickIsCurrent, EndpointsOf

LEMMA HubNextInv == HubInv /\ [HubNext]_hubVars => HubInv'
<1> SUFFICES ASSUME HubInv, [HubNext]_hubVars PROVE HubInv'
  OBVIOUS
<1>1. ASSUME NEW c \in Caller, Fetch(c) PROVE HubInv'
  BY <1>1, ReadStep DEF Fetch, At
<1>2. ASSUME NEW c \in Caller, FetchOne(c) PROVE HubInv'
  <2>1. cache[group[c]] # NoList
    BY <1>2 DEF FetchOne, Read, HubInv, GroupIsCached
  <2> QED BY <1>2, <2>1, ReadStep DEF FetchOne, At
<1>3. ASSUME NEW c \in Caller, HubStep(c) PROVE HubInv'
  BY <1>1, <1>2, <1>3, StartWatchStep, LoadStep, WatchStep, StoreStep, AddStep,
     ReadAccStep, UseStep DEF HubStep
<1> QED BY <1>3, ChangeStep, ElsewhereStep DEF HubNext

(* The parts of the invariant that the runs check.                                *)
LEMMA HubInvImplies == HubInv => CacheIsCurrent /\ PickIsOfGroup
<1> SUFFICES ASSUME HubInv, NEW c \in Caller, at[c] = "picked", picked[c] = NoEndpoint, ~failed
             PROVE  cache[group[c]] # NoList /\ cache[group[c]] \subseteq changed
  BY DEF HubInv, PickIsCurrent, PickIsOfGroup
<1>1. EndpointsOf(group[c]) \subseteq changed /\ cache[group[c]] # NoList /\ group[c] \in Group
  BY DEF HubInv, HubTypeOK, PickIsCurrent, GroupIsCached
<1>2. cache[group[c]] \ changed = EndpointsOf(group[c]) \ changed
  BY <1>1 DEF HubInv, CacheIsCurrent
<1> QED BY <1>1, <1>2

LEMMA HubInvAlways == HubSpec => []HubInv
BY HubInitInv, HubNextInv, PTL DEF HubSpec

(* The cache follows etcd but for workers that came or left, whatever getters       *)
(* overlap and whatever reads fail (ServiceHubProxy.GetServiceEndpoints).           *)
THEOREM CacheFollowsEtcd == HubSpec => [](HubTypeOK /\ CacheIsCurrent)
<1>1. HubInv => HubTypeOK /\ CacheIsCurrent
  BY HubInvImplies DEF HubInv
<1> QED BY <1>1, HubInvAlways, PTL

(* What the balancer hands out is one of the group's workers or one that has left,  *)
(* and it hands out nothing only when the whole list has come or left or a read     *)
(* failed (ServiceHub.GetServiceEndpoint, RoundRobin.Take).                         *)
THEOREM PicksAreOfGroup == HubSpec => []PickIsOfGroup
BY HubInvAlways, HubInvImplies, PTL
==============================================================================
