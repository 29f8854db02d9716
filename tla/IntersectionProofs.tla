------------------------- MODULE IntersectionProofs --------------------------
(* The result of IntersectionOfSkipList, for any number of lists of any length. *)
EXTENDS Intersection, TLAPS

(* In the loop no list is nil, every cursor is at a key of its list, the result *)
(* holds common keys only, and no common key is lost: those that are not in the *)
(* result yet are ahead of every cursor, or under it.                           *)
Cursors ==
  pc = "loop" =>
    /\ DOMAIN lists # {}
    /\ \A i \in DOMAIN lists : lists[i] \subseteq IntId /\ nodes[i] \in lists[i]

NoneLost ==
  pc = "loop" =>
    /\ res \subseteq Common
    /\ \A k \in Common \ res : \A i \in DOMAIN lists : k >= nodes[i]

Fresh == pc = "start" => res = NoList

IInv == TypeOK /\ Fresh /\ Cursors /\ NoneLost /\ ResultIsCommon

(* The indices of the arguments are 1 to their number, which decides the cases  *)
(* that the function tells apart.                                               *)
LEMMA ArgumentsShape ==
  ASSUME lists \in Arguments
  PROVE  /\ Len(lists) \in Nat
         /\ DOMAIN lists = 1 .. Len(lists)
         /\ \A i \in DOMAIN lists : lists[i] \in SkipList
         /\ lists = <<>> <=> DOMAIN lists = {}
<1>1. PICK n \in 0 .. MaxLists : lists \in [1 .. n -> SkipList]
  BY DEF Arguments
<1>2. n \in Nat /\ lists \in Seq(SkipList)
  BY <1>1, IntersectionAssumption
<1>3. QED
  BY <1>1, <1>2

(* nil is none of the sets of keys.                                             *)
LEMMA NilIsNoSet ==
  ASSUME NEW S \in SUBSET IntId
  PROVE  NoList # S /\ Elements(S) = S
BY IntersectionAssumption DEF Elements

(* When the last key of a list is passed, every common key is in the result.    *)
LEMMA NothingAhead ==
  ASSUME IInv, pc = "loop",
         NEW i \in DOMAIN lists, IsLast(nodes[i], lists[i]),
         NEW found, res \subseteq found, found \subseteq Common,
         \A k \in Common \ found : k > nodes[i]
  PROVE  found = Common
<1>1. SUFFICES ASSUME NEW k \in Common \ found PROVE FALSE
  OBVIOUS
<1>2. lists[i] \subseteq IntId /\ nodes[i] \in IntId /\ k \in IntId
  BY DEF IInv, Cursors, Common
<1>3. k \in lists[i]
  BY <1>2, NilIsNoSet DEF Common
<1>4. k <= nodes[i] /\ k > nodes[i]
  BY <1>3 DEF IsLast
<1>5. nodes[i] \in Nat /\ k \in Nat
  BY <1>2, IntersectionAssumption
<1>6. QED
  BY <1>4, <1>5

(* When cursors go on, a common key beyond one of them stays ahead of it.       *)
LEMMA NothingSkipped ==
  ASSUME IInv, pc = "loop",
         NEW k \in Common,
         NEW i \in DOMAIN lists, NEW n, IsNext(n, lists[i], nodes[i]), k > nodes[i]
  PROVE  k >= n
<1>1. lists[i] \subseteq IntId /\ n \in IntId
  BY DEF IInv, Cursors, IsNext
<1>2. k \in lists[i] /\ k \in IntId
  BY <1>1, NilIsNoSet DEF Common
<1>3. QED
  BY <1>1, <1>2, IntersectionAssumption DEF IsNext

(* Before the first step nothing is found, and nothing can have been lost.      *)
LEMMA InvInit == Init => IInv
<1>1. SUFFICES ASSUME Init PROVE IInv
  OBVIOUS
<1>2. QED
  BY <1>1 DEF Init, IInv, TypeOK, Fresh, Cursors, NoneLost, ResultIsCommon, SkipList

(* What one turn of the loop has to show, whichever cursors it moves: the new   *)
(* result holds common keys only, and a common key that is not in it is beyond  *)
(* every cursor that moves, and not behind the others.                          *)
LEMMA Turn ==
  ASSUME IInv, pc = "loop",
         NEW moving \in [DOMAIN lists -> BOOLEAN],
         Advance(moving), lists' = lists,
         res' \in SUBSET IntId, res \subseteq res', res' \subseteq Common,
         \A k \in Common \ res' : \A i \in DOMAIN lists :
           k >= nodes[i] /\ (moving[i] => k > nodes[i])
  PROVE  IInv'
<1>1. Common' = Common
  BY DEF Common, Elements
<1>2. lists' \in Arguments /\ res' \in SkipList /\ res' # NoList /\ Elements(res') = res'
  BY NilIsNoSet DEF IInv, TypeOK, SkipList
<1>3. CASE pc' = "done" /\ \E i \in DOMAIN lists : moving[i] /\ IsLast(nodes[i], lists[i])
  <2>1. res' = Common
    BY <1>3, NothingAhead
  <2>2. QED
    BY <1>1, <1>2, <1>3, <2>1 DEF IInv, TypeOK, Fresh, Cursors, NoneLost, ResultIsCommon, Elements
<1>4. CASE /\ pc' = pc
           /\ \E next \in [DOMAIN lists -> IntId] :
                /\ \A i \in DOMAIN lists : IF moving[i] THEN IsNext(next[i], lists[i], nodes[i])
                                           ELSE next[i] = nodes[i]
                /\ nodes' = next
  <2>1. PICK next \in [DOMAIN lists -> IntId] :
          /\ \A i \in DOMAIN lists : IF moving[i] THEN IsNext(next[i], lists[i], nodes[i])
                                     ELSE next[i] = nodes[i]
          /\ nodes' = next
    BY <1>4
  <2>2. Cursors'
    BY <2>1 DEF IInv, Cursors, IsNext
  <2>3. ASSUME NEW k \in Common \ res', NEW i \in DOMAIN lists PROVE k >= next[i]
    <3>1. CASE moving[i]
      <4>1. IsNext(next[i], lists[i], nodes[i]) /\ k > nodes[i]
        BY <2>1, <2>3, <3>1
      <4>2. QED
        BY <4>1, <2>3, NothingSkipped
    <3>2. CASE ~moving[i]
      BY <2>1, <2>3, <3>2
    <3>3. QED
      BY <3>1, <3>2
  <2>4. NoneLost'
    BY <1>1, <2>1, <2>3 DEF NoneLost
  <2>5. TypeOK' /\ Fresh' /\ ResultIsCommon'
    BY <1>2, <1>4, <2>1 DEF IInv, TypeOK, Fresh, ResultIsCommon
  <2>6. QED
    BY <2>2, <2>4, <2>5 DEF IInv
<1>5. QED
  BY <1>3, <1>4 DEF Advance

(* A key under all cursors is common, and the other common keys are beyond it.  *)
LEMMA InvMatch == ASSUME IInv, Match PROVE IInv'
<1>1. pc = "loop" /\ res' = res \cup {nodes[1]} /\ lists' = lists
      /\ Advance([i \in DOMAIN lists |-> TRUE])
      /\ \A i, j \in DOMAIN lists : nodes[i] = nodes[j]
  BY DEF Match
<1>2. 1 \in DOMAIN lists
  <2>1. DOMAIN lists = 1 .. Len(lists) /\ Len(lists) \in Nat
    BY ArgumentsShape DEF IInv, TypeOK
  <2>2. DOMAIN lists # {}
    BY <1>1 DEF IInv, Cursors
  <2>3. QED
    BY <2>1, <2>2
<1>3. \A i \in DOMAIN lists : nodes[i] = nodes[1] /\ nodes[1] \in lists[i] /\ lists[i] \subseteq IntId
  BY <1>1, <1>2 DEF IInv, Cursors
<1>4. nodes[1] \in Common
  <2>1. nodes[1] \in IntId /\ lists # <<>>
    BY <1>2, <1>3
  <2>2. \A i \in DOMAIN lists : Elements(lists[i]) = lists[i]
    BY <1>3, NilIsNoSet
  <2>3. QED
    BY <1>3, <2>1, <2>2 DEF Common
<1>5. res \subseteq Common /\ \A k \in Common \ res : \A i \in DOMAIN lists : k >= nodes[i]
  BY <1>1 DEF IInv, NoneLost
<1>6. res' \subseteq Common /\ res \subseteq res' /\ res' \in SUBSET IntId
  BY <1>1, <1>4, <1>5 DEF Common
<1>7. ASSUME NEW k \in Common \ res', NEW i \in DOMAIN lists PROVE k >= nodes[i] /\ k > nodes[i]
  <2>1. k \in IntId /\ nodes[i] \in IntId
    BY <1>3 DEF Common
  <2>2. k # nodes[i] /\ k >= nodes[i]
    BY <1>1, <1>3, <1>5, <1>7
  <2>3. QED
    BY <2>1, <2>2, IntersectionAssumption
<1>8. [i \in DOMAIN lists |-> TRUE] \in [DOMAIN lists -> BOOLEAN]
  OBVIOUS
<1>9. QED
  BY <1>1, <1>6, <1>7, <1>8, Turn

(* A common key is not behind any cursor, so it is beyond those not at the      *)
(* maximum.                                                                     *)
LEMMA InvCatchUp == ASSUME IInv, CatchUp PROVE IInv'
<1> DEFINE moving == [i \in DOMAIN lists |-> Behind(i)]
<1>1. pc = "loop" /\ res' = res /\ lists' = lists /\ Advance(moving)
  BY DEF CatchUp
<1>2. res \subseteq Common /\ \A k \in Common \ res : \A i \in DOMAIN lists : k >= nodes[i]
  BY <1>1 DEF IInv, NoneLost
<1>3. moving \in [DOMAIN lists -> BOOLEAN]
  BY DEF Behind
<1>4. res' \in SUBSET IntId /\ res' \subseteq Common
  BY <1>1, <1>2 DEF Common
<1>5. ASSUME NEW k \in Common \ res', NEW i \in DOMAIN lists
      PROVE  k >= nodes[i] /\ (moving[i] => k > nodes[i])
  <2>1. k >= nodes[i]
    BY <1>1, <1>2, <1>5
  <2>2. ASSUME moving[i] PROVE k > nodes[i]
    <3>1. PICK j \in DOMAIN lists : nodes[i] < nodes[j]
      BY <2>2 DEF Behind
    <3>2. k >= nodes[j]
      BY <1>1, <1>2, <1>5
    <3>3. k \in IntId /\ nodes[i] \in IntId /\ nodes[j] \in IntId
      BY <1>1, <1>5 DEF IInv, Cursors, Common
    <3>4. k \in Nat /\ nodes[i] \in Nat /\ nodes[j] \in Nat
      BY <3>3, IntersectionAssumption
    <3>5. QED
      BY <3>1, <3>2, <3>4
  <2>3. QED
    BY <2>1, <2>2
<1>6. QED
  <2> HIDE DEF moving
  <2>1. QED
    BY <1>1, <1>3, <1>4, <1>5, Turn

(* Every step of the function preserves IInv.                                   *)
LEMMA InvNext == IInv /\ [Next]_vars => IInv'
<1> SUFFICES ASSUME IInv, [Next]_vars PROVE IInv'
  OBVIOUS
<1> USE DEF IInv
<1>0. /\ Len(lists) \in Nat
      /\ DOMAIN lists = 1 .. Len(lists)
      /\ \A i \in DOMAIN lists : lists[i] \in SkipList
      /\ lists = <<>> <=> DOMAIN lists = {}
  BY ArgumentsShape DEF TypeOK
<1>1. CASE ReturnNil
  <2>1. Common = {}
    <3>1. lists = <<>> \/ \E i \in DOMAIN lists : lists[i] \in {NoList, {}}
      BY <1>1 DEF ReturnNil
    <3>2. Elements(NoList) = {} /\ Elements({}) = {}
      BY DEF Elements
    <3>3. QED
      BY <3>1, <3>2 DEF Common
  <2>2. Common' = Common /\ Elements(res') = {}
    BY <1>1 DEF ReturnNil, Common, Elements, Fresh
  <2>3. QED
    BY <1>1, <2>1, <2>2 DEF ReturnNil, TypeOK, Fresh, Cursors, NoneLost, ResultIsCommon
<1>2. CASE ReturnOnly
  <2>1. 1 \in DOMAIN lists /\ DOMAIN lists = {1} /\ lists # <<>>
    BY <1>0, <1>2 DEF ReturnOnly
  <2>2. Elements(lists[1]) \subseteq IntId
    BY <1>0, <2>1 DEF SkipList, Elements
  <2>3. Common = Elements(lists[1])
    BY <2>1, <2>2 DEF Common
  <2>4. Common' = Common /\ Elements(res') = Elements(lists[1])
    BY <1>2 DEF ReturnOnly, Common, Elements
  <2>5. QED
    BY <1>0, <1>2, <2>1, <2>3, <2>4 DEF ReturnOnly, TypeOK, Fresh, Cursors, NoneLost, ResultIsCommon
<1>3. CASE Enter
  <2>1. PICK front \in [DOMAIN lists -> IntId] :
          (\A i \in DOMAIN lists : IsFront(front[i], lists[i])) /\ nodes' = front
    BY <1>3 DEF Enter
  <2>2. /\ Len(lists) > 1 /\ res' = {} /\ pc' = "loop" /\ lists' = lists
        /\ \A i \in DOMAIN lists : lists[i] \subseteq IntId
    BY <1>0, <1>3 DEF Enter, SkipList
  <2>3. Common' = Common
    BY <2>2 DEF Common, Elements
  <2>4. TypeOK'
    BY <2>1, <2>2, NilIsNoSet DEF TypeOK, SkipList
  <2>5. Cursors'
    BY <1>0, <2>1, <2>2 DEF Cursors, IsFront
  <2>6. ASSUME NEW k \in Common, NEW i \in DOMAIN lists PROVE k >= front[i]
    <3>1. k \in lists[i] /\ k \in IntId
      BY <2>2, <2>6, NilIsNoSet DEF Common
    <3>2. QED
      BY <2>1, <3>1, IntersectionAssumption DEF IsFront
  <2>7. NoneLost'
    BY <2>1, <2>2, <2>3, <2>6 DEF NoneLost
  <2>8. Fresh' /\ ResultIsCommon'
    BY <2>2 DEF Fresh, ResultIsCommon
  <2>9. QED
    BY <2>4, <2>5, <2>7, <2>8
<1>4. CASE Match
  BY <1>4, InvMatch
<1>5. CASE CatchUp
  BY <1>5, InvCatchUp
<1>6. CASE UNCHANGED vars
  BY <1>6 DEF vars, TypeOK, Fresh, Cursors, NoneLost, ResultIsCommon, Common, Elements
<1>7. QED
  BY <1>1, <1>2, <1>3, <1>4, <1>5, <1>6 DEF Next

(* IInv holds in every state of every search.                                   *)
LEMMA Inductive == Spec => []IInv
BY InvInit, InvNext, PTL DEF Spec

(* The cursors stay on keys, and the result is nil or a list.                   *)
THEOREM TypeCorrect == Spec => []TypeOK
<1>1. IInv => TypeOK
  BY DEF IInv
<1>2. QED
  BY Inductive, <1>1, PTL

(* IntersectionOfSkipList returns exactly the keys that all lists have.         *)
THEOREM ResultIsCommonAlways == Spec => []ResultIsCommon
<1>1. IInv => ResultIsCommon
  BY DEF IInv
<1>2. QED
  BY Inductive, <1>1, PTL
==============================================================================
