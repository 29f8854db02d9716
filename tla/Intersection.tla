----------------------------- MODULE Intersection -----------------------------
(* IntersectionOfSkipList (internal/reverse_index/skiplist_reverse_index.go):   *)
(* the documents common to the lists of a conjunctive query, by one cursor per  *)
(* list.  A skip list is the set of its keys, which it keeps in order; the      *)
(* value of a key is the same in all lists and left out.  The lists are copies  *)
(* made for this search, so nothing else changes them.                          *)
EXTENDS Naturals, Sequences

CONSTANTS IntId,          (* the integer ids of documents                         *)
          NoList,         (* nil                                                  *)
          MaxLists        (* bound: the conjuncts of a query                      *)

(* The loop takes 0 for "no key seen yet"; snowflake ids are never 0.           *)
ASSUME IntersectionAssumption ==
  /\ IntId \subseteq Nat \ {0}
  /\ \A S \in SUBSET IntId : NoList # S
  /\ MaxLists \in Nat

VARIABLES lists,          (* the arguments                                        *)
          nodes,          (* the keys of the cursors                              *)
          res,            (* the result under construction, and the result        *)
          pc              (* "start", "loop" or "done"                            *)

vars == <<lists, nodes, res, pc>>

SkipList  == {NoList} \cup SUBSET IntId
Arguments == UNION {[1 .. n -> SkipList] : n \in 0 .. MaxLists}

TypeOK ==
  /\ lists \in Arguments
  /\ res \in SkipList
  /\ pc \in {"start", "loop", "done"}
  /\ pc = "loop" => res # NoList /\ nodes \in [DOMAIN lists -> IntId]

IsFront(n, list)   == n \in list /\ \A m \in list : n <= m
IsNext(n, list, m) == n \in list /\ n > m /\ \A o \in list : o > m => n <= o
IsLast(m, list)    == \A o \in list : o <= m

------------------------------------------------------------------------------
Init ==
  /\ lists \in Arguments
  /\ nodes = <<>>
  /\ res = NoList
  /\ pc = "start"

(* No list, or one that is nil or empty.                                        *)
ReturnNil ==
  /\ pc = "start"
  /\ lists = <<>> \/ (Len(lists) > 1 /\ \E i \in DOMAIN lists : lists[i] \in {NoList, {}})
  /\ pc' = "done"
  /\ UNCHANGED <<lists, nodes, res>>

ReturnOnly ==
  /\ pc = "start"
  /\ Len(lists) = 1
  /\ res' = lists[1]
  /\ pc' = "done"
  /\ UNCHANGED <<lists, nodes>>

(* The variants whose names begin with Faulty are not part of the               *)
(* specification: each is the definition that follows it with a plausible bug.  *)

(* Faulty: res is not allocated.                                                *)
FaultyEnter ==
  /\ pc = "start"
  /\ Len(lists) > 1 /\ \A i \in DOMAIN lists : lists[i] \notin {NoList, {}}
  /\ \E front \in [DOMAIN lists -> IntId] :
       (\A i \in DOMAIN lists : IsFront(front[i], lists[i])) /\ nodes' = front
  /\ pc' = "loop"
  /\ UNCHANGED <<lists, res>>

(* Every cursor starts at the front of its list.                                *)
Enter ==
  /\ pc = "start"
  /\ Len(lists) > 1 /\ \A i \in DOMAIN lists : lists[i] \notin {NoList, {}}
  /\ \E front \in [DOMAIN lists -> IntId] :
       (\A i \in DOMAIN lists : IsFront(front[i], lists[i])) /\ nodes' = front
  /\ res' = {}
  /\ pc' = "loop"
  /\ UNCHANGED lists

(* The cursors for which moving holds go on; the function returns when one of   *)
(* them is at its end, and the cursors are then of no use.                      *)
Advance(moving) ==
  \/ /\ \E i \in DOMAIN lists : moving[i] /\ IsLast(nodes[i], lists[i])
     /\ pc' = "done"
     /\ UNCHANGED nodes
  \/ /\ \E next \in [DOMAIN lists -> IntId] :
          /\ \A i \in DOMAIN lists : IF moving[i] THEN IsNext(next[i], lists[i], nodes[i])
                                     ELSE next[i] = nodes[i]
          /\ nodes' = next
     /\ UNCHANGED pc

(* Faulty: the cursors do not go on.                                            *)
FaultyMatch ==
  /\ pc = "loop"
  /\ \A i, j \in DOMAIN lists : nodes[i] = nodes[j]
  /\ res' = res \cup {nodes[1]}
  /\ UNCHANGED <<lists, nodes, pc>>

(* All cursors are at the maximum: it belongs to the result, and all go on.     *)
Match ==
  /\ pc = "loop"
  /\ \A i, j \in DOMAIN lists : nodes[i] = nodes[j]
  /\ res' = res \cup {nodes[1]}
  /\ Advance([i \in DOMAIN lists |-> TRUE])
  /\ UNCHANGED lists

(* Faulty: the cursors at the maximum go on instead of those behind it.         *)
FaultyBehind(i) == \A j \in DOMAIN lists : nodes[i] >= nodes[j]

(* The cursor is not at the maximum.                                            *)
Behind(i) == \E j \in DOMAIN lists : nodes[i] < nodes[j]

CatchUp ==
  /\ pc = "loop"
  /\ \E i, j \in DOMAIN lists : nodes[i] # nodes[j]
  /\ Advance([i \in DOMAIN lists |-> Behind(i)])
  /\ UNCHANGED <<lists, res>>

Next == ReturnNil \/ ReturnOnly \/ Enter \/ Match \/ CatchUp

Spec == Init /\ [][Next]_vars

(* The function runs on by itself.                                              *)
FairSpec == Spec /\ WF_vars(Next)

------------------------------------------------------------------------------
Elements(list) == IF list = NoList THEN {} ELSE list
Common == {n \in IntId : lists # <<>> /\ \A i \in DOMAIN lists : n \in Elements(lists[i])}

(* What IntersectionOfSkipList returns are the keys that all lists have.        *)
ResultIsCommon == pc = "done" => Elements(res) = Common

(* It returns.                                                                  *)
Returns == <>(pc = "done")
==============================================================================
