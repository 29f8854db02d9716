--------------------------- MODULE ServiceHubProofs ---------------------------
(* Theorems about ServiceHub, for every set of workers and groups and however   *)
(* often workers are started: the lock around total-shards excludes and no      *)
(* update is lost, until a lock's lease runs out under its holder; and          *)
(* total-shards is the number of groups that have a worker.                     *)
EXTENDS ServiceHub, FiniteSetTheorems, TLAPS

(* Who is between acquiring and releasing owns the key in etcd.                 *)
HolderOwnsLock ==
  "lock expiry" \notin upsets => \A w \in Worker : pc[w] \in Section => lock = w

(* What was read under the lock is still so.                                    *)
CountIsFresh ==
  "lock expiry" \notin upsets => \A w \in Worker : pc[w] = "write" => count[w] = shards

(* subIndexGroup counts down only from a key that exists.                       *)
SubIsPositive ==
  \A w \in Worker : pc[w] = "write" /\ op[w] # "add" => count[w] > 0

IInv == TypeOK /\ HolderOwnsLock /\ CountIsFresh /\ SubIsPositive

(* The labels a process can be at.                                              *)
Label == {"down", "register", "check", "unregister", "checkEmpty", "grant", "acquire", "revoke"}
           \cup Serving \cup Section

------------------------------------------------------------------------------
USE ServiceHubAssumption DEF ServiceHubAssumption

(* A jump moves one process and leaves the others where they are.               *)
LEMMA GotoFacts ==
  ASSUME TypeOK, NEW w \in Worker, NEW l \in Label, Goto(w, l)
  PROVE  /\ pc' \in [Worker -> Label]
         /\ pc' = [pc EXCEPT ![w] = l]
         /\ beating' \subseteq Worker
<1>1. beating' \in {beating \cup {w}, beating \ {w}, beating}
  BY DEF Goto
<1> QED BY <1>1 DEF Goto, TypeOK, Label

(* The end of a process keeps the types.                                        *)
LEMMA DownFacts ==
  ASSUME TypeOK, NEW w \in Worker, Down(w)
  PROVE  /\ pc' \in [Worker -> Label] /\ beating' \subseteq Worker
         /\ pc' = [pc EXCEPT ![w] = "down"]
         /\ op' \in [Worker -> {"add", "sub", "count"}]
         /\ count' \in [Worker -> Nat]
         /\ upsets' = upsets \cup {"fault"} /\ upsets' \subseteq Upset
<1>1. "down" \in Label /\ Goto(w, "down")
  BY DEF Down, Label
<1>2. op' \in [Worker -> {"add", "sub", "count"}] /\ count' \in [Worker -> Nat]
  BY DEF Down, TypeOK
<1>3. upsets' = upsets \cup {"fault"} /\ upsets' \subseteq Upset
  BY DEF Down, TypeOK, Upset
<1> QED BY <1>1, <1>2, <1>3, GotoFacts

(* What write puts is a number of groups.                                       *)
LEMMA UpdatedType ==
  ASSUME TypeOK, SubIsPositive, NEW w \in Worker, pc[w] = "write"
  PROVE  Updated(w) \in Nat
BY DEF TypeOK, SubIsPositive, Updated

(* The initial state satisfies the inductive invariant.                         *)
LEMMA InitInv == Init => IInv
BY DEF Init, IInv, TypeOK, HolderOwnsLock, CountIsFresh, SubIsPositive, Section

(* Every step keeps the types.                                                  *)
LEMMA TypeStep ==
  ASSUME IInv, [Next]_vars
  PROVE  TypeOK'
<1> USE DEF IInv
<1>t. TypeOK /\ pc \in [Worker -> Label]
  BY DEF TypeOK, Label
<1>a. ASSUME NEW w \in Worker, NEW l \in Label, Goto(w, l), UNCHANGED <<etcd, op, count, starts>>,
             upsets' \subseteq Upset
      PROVE  TypeOK'
  BY <1>a, GotoFacts DEF TypeOK, Label, etcd
<1>b. \A w \in Worker : Upsetting(w) \subseteq Upset /\ upsets \cup {"fault"} \subseteq Upset
  BY <1>t DEF TypeOK, Upsetting, Upset
<1>1. ASSUME NEW w \in Worker, Start(w) PROVE TypeOK'
  <2>1. "register" \in Label
    BY DEF Label
  <2>2. starts' \in 0 .. MaxStarts
    BY <1>1, <1>t DEF Start, TypeOK
  <2> QED BY <1>1, <1>t, <1>b, <2>1, <2>2, GotoFacts DEF Start, TypeOK, Label, etcd
<1>2. ASSUME NEW w \in Worker, Register(w) PROVE TypeOK'
  <2>1. "check" \in Label
    BY DEF Label
  <2> QED BY <1>2, <1>t, <2>1, GotoFacts DEF Register, TypeOK, Label
<1>e. ASSUME NEW w \in Worker, NEW o \in {"add", "sub", "count"}, Enter(w, o),
             UNCHANGED <<etcd, count, starts, upsets>>
      PROVE  TypeOK'
  <2>1. "grant" \in Label /\ Goto(w, "grant")
    BY <1>e DEF Label, Enter
  <2>2. op' \in [Worker -> {"add", "sub", "count"}]
    BY <1>e, <1>t DEF Enter, TypeOK
  <2> QED BY <1>e, <1>t, <2>1, <2>2, GotoFacts DEF TypeOK, Label, etcd
<1>3. ASSUME NEW w \in Worker, Check(w) PROVE TypeOK'
  <2>1. "registered" \in Label
    BY DEF Label, Serving
  <2> QED BY <1>3, <1>t, <1>a, <1>e, <2>1 DEF Check, etcd, TypeOK
<1>4. ASSUME NEW w \in Worker, Serve(w) PROVE TypeOK'
  <2>1. "serving" \in Label
    BY DEF Label, Serving
  <2> QED BY <1>4, <1>t, <1>a, <2>1 DEF Serve, TypeOK
<1>5. ASSUME NEW w \in Worker, Rebuild(w) PROVE TypeOK'
  BY <1>5, <1>e DEF Rebuild
<1>6. ASSUME NEW w \in Worker, Heartbeat(w) PROVE TypeOK'
  BY <1>6, <1>t, <1>b DEF Heartbeat, TypeOK
<1>7. ASSUME NEW w \in Worker, Close(w) PROVE TypeOK'
  <2>1. "unregister" \in Label
    BY DEF Label
  <2> QED BY <1>7, <1>b, <1>a, <2>1 DEF Close
<1>8. ASSUME NEW w \in Worker, UnRegister(w) PROVE TypeOK'
  <2>1. "checkEmpty" \in Label
    BY DEF Label
  <2> QED BY <1>8, <1>t, <2>1, GotoFacts DEF UnRegister, TypeOK, Label
<1>9. ASSUME NEW w \in Worker, CheckEmpty(w) PROVE TypeOK'
  <2>1. "down" \in Label
    BY DEF Label
  <2> QED BY <1>9, <1>t, <1>a, <1>e, <2>1 DEF CheckEmpty, etcd, TypeOK
<1>10. ASSUME NEW w \in Worker, Acquire(w) PROVE TypeOK'
  <2>1. "read" \in Label
    BY DEF Label, Section
  <2> QED BY <1>10, <1>t, <2>1, GotoFacts DEF Acquire, TypeOK, Label
<1>11. ASSUME NEW w \in Worker, AcquireUnanswered(w) PROVE TypeOK'
  BY <1>11, <1>t DEF AcquireUnanswered, TypeOK
<1>12. ASSUME NEW w \in Worker, GiveUp(w) PROVE TypeOK'
  <2>1. "revoke" \in Label
    BY DEF Label
  <2> QED BY <1>12, <1>t, <1>a, <2>1 DEF GiveUp, TypeOK
<1>23. ASSUME NEW w \in Worker, Grant(w) PROVE TypeOK'
  <2>1. "acquire" \in Label
    BY DEF Label
  <2> QED BY <1>23, <1>t, <2>1, GotoFacts DEF Grant, TypeOK, Label
<1>24. ASSUME NEW w \in Worker, Revoke(w) PROVE TypeOK'
  <2>1. Down(w)
    BY <1>24 DEF Revoke
  <2> QED BY <1>24, <1>t, <2>1, DownFacts DEF Revoke, TypeOK, Label
<1>13. ASSUME NEW w \in Worker, Read(w) PROVE TypeOK'
  <2>1. PICK l \in Label : Goto(w, l)
    BY <1>13 DEF Read, Label, Section
  <2>2. count' \in [Worker -> Nat]
    BY <1>13, <1>t DEF Read, TypeOK
  <2> QED BY <1>13, <1>t, <2>1, <2>2, GotoFacts DEF Read, TypeOK, Label, etcd
<1>14. ASSUME NEW w \in Worker, ReadNothing(w) PROVE TypeOK'
  <2>1. Down(w)
    BY <1>14 DEF ReadNothing
  <2> QED BY <1>14, <1>t, <2>1, DownFacts DEF ReadNothing, TypeOK, Label
<1>15. ASSUME NEW w \in Worker, Write(w) PROVE TypeOK'
  <2>1. "release" \in Label
    BY DEF Label, Section
  <2> QED BY <1>15, <1>t, <2>1, GotoFacts, UpdatedType DEF Write, TypeOK, Label
<1>16. ASSUME NEW w \in Worker, Release(w) PROVE TypeOK'
  <2>1. PICK l \in Label : Goto(w, l)
    BY <1>16 DEF Release, Label, Serving
  <2>2. count' \in [Worker -> Nat] /\ op' \in [Worker -> {"add", "sub", "count"}]
    BY <1>16, <1>t DEF Release, TypeOK
  <2> QED BY <1>16, <1>t, <2>1, <2>2, GotoFacts DEF Release, TypeOK, Label
<1>17. ASSUME NEW w \in Worker, Fail(w) PROVE TypeOK'
  <2>1. PICK l \in Label : Goto(w, l)
    BY <1>17 DEF Fail, Label, Section, Serving
  <2>2. keys' \subseteq Worker /\ shards' \in Nat
    BY <1>17, <1>t, UpdatedType DEF Fail, TypeOK
  <2> QED BY <1>17, <1>t, <1>b, <2>1, <2>2, GotoFacts DEF Fail, TypeOK, Label
<1>18. ASSUME NEW w \in Worker, Crash(w) PROVE TypeOK'
  <2>1. Down(w)
    BY <1>18 DEF Crash
  <2> QED BY <1>18, <1>t, <2>1, DownFacts DEF Crash, TypeOK, Label
<1>19. ASSUME NEW w \in Worker, LockExpires(w) PROVE TypeOK'
  BY <1>19, <1>t DEF LockExpires, TypeOK, Upset
<1>20. ASSUME NEW w \in Worker, KeyExpires(w) PROVE TypeOK'
  BY <1>20, <1>t, <1>b DEF KeyExpires, TypeOK
<1>21. CASE OrphanExpires
  BY <1>21, <1>t DEF OrphanExpires, TypeOK
<1>22. CASE UNCHANGED vars
  BY <1>22, <1>t DEF vars, etcd, TypeOK
<1> QED BY <1>1, <1>2, <1>3, <1>4, <1>5, <1>6, <1>7, <1>8, <1>9, <1>10, <1>11, <1>12, <1>13,
        <1>14, <1>15, <1>16, <1>17, <1>18, <1>19, <1>20, <1>21, <1>22, <1>23, <1>24 DEF Next, Run

(* Every step keeps what the lock promises while no lease runs out under its    *)
(* holder.                                                                      *)
LEMMA LockStep ==
  ASSUME IInv, [Next]_vars
  PROVE  HolderOwnsLock' /\ CountIsFresh' /\ SubIsPositive'
<1> DEFINE Goal == HolderOwnsLock' /\ CountIsFresh' /\ SubIsPositive'
<1> USE DEF IInv, TypeOK, HolderOwnsLock, CountIsFresh, SubIsPositive, Section, Serving
<1>1. ASSUME NEW w \in Worker, Start(w) PROVE Goal
  BY <1>1 DEF Start, Goto, Upsetting, etcd
<1>2. ASSUME NEW w \in Worker, Register(w) PROVE Goal
  BY <1>2 DEF Register, Goto
<1>3. ASSUME NEW w \in Worker, Check(w) PROVE Goal
  BY <1>3 DEF Check, Enter, Goto, etcd
<1>4. ASSUME NEW w \in Worker, Serve(w) PROVE Goal
  BY <1>4 DEF Serve, Goto, etcd
<1>5. ASSUME NEW w \in Worker, Rebuild(w) PROVE Goal
  BY <1>5 DEF Rebuild, Enter, Goto, etcd
<1>6. ASSUME NEW w \in Worker, Heartbeat(w) PROVE Goal
  BY <1>6 DEF Heartbeat
<1>7. ASSUME NEW w \in Worker, Close(w) PROVE Goal
  BY <1>7 DEF Close, Goto, Upsetting, etcd
<1>8. ASSUME NEW w \in Worker, UnRegister(w) PROVE Goal
  BY <1>8 DEF UnRegister, Goto
<1>9. ASSUME NEW w \in Worker, CheckEmpty(w) PROVE Goal
  BY <1>9 DEF CheckEmpty, Enter, Goto, etcd
<1>10. ASSUME NEW w \in Worker, Acquire(w) PROVE Goal
  BY <1>10 DEF Acquire, Goto
<1>11. ASSUME NEW w \in Worker, AcquireUnanswered(w) PROVE Goal
  BY <1>11 DEF AcquireUnanswered
<1>12. ASSUME NEW w \in Worker, GiveUp(w) PROVE Goal
  BY <1>12 DEF GiveUp, Goto, etcd
<1>23. ASSUME NEW w \in Worker, Grant(w) PROVE Goal
  BY <1>23 DEF Grant, Goto
<1>24. ASSUME NEW w \in Worker, Revoke(w) PROVE Goal
  BY <1>24 DEF Revoke, Down, Goto
<1>13. ASSUME NEW w \in Worker, Read(w) PROVE Goal
  BY <1>13 DEF Read, Goto, etcd
<1>14. ASSUME NEW w \in Worker, ReadNothing(w) PROVE Goal
  BY <1>14 DEF ReadNothing, Down, Goto
<1>15. ASSUME NEW w \in Worker, Write(w) PROVE Goal
  BY <1>15 DEF Write, Goto
<1>16. ASSUME NEW w \in Worker, Release(w) PROVE Goal
  BY <1>16 DEF Release, Goto
<1>17. ASSUME NEW w \in Worker, Fail(w) PROVE Goal
  BY <1>17 DEF Fail, Goto
<1>18. ASSUME NEW w \in Worker, Crash(w) PROVE Goal
  BY <1>18 DEF Crash, Down, Goto
<1>19. ASSUME NEW w \in Worker, LockExpires(w) PROVE Goal
  BY <1>19 DEF LockExpires
<1>20. ASSUME NEW w \in Worker, KeyExpires(w) PROVE Goal
  BY <1>20 DEF KeyExpires
<1>21. CASE OrphanExpires
  BY <1>21 DEF OrphanExpires
<1>22. CASE UNCHANGED vars
  BY <1>22 DEF vars, etcd
<1> QED BY <1>1, <1>2, <1>3, <1>4, <1>5, <1>6, <1>7, <1>8, <1>9, <1>10, <1>11, <1>12, <1>13,
        <1>14, <1>15, <1>16, <1>17, <1>18, <1>19, <1>20, <1>21, <1>22, <1>23, <1>24 DEF Next, Run

(* The inductive invariant holds always.                                        *)
LEMMA Invariance == Spec => []IInv
<1>1. IInv /\ [Next]_vars => IInv'
  BY TypeStep, LockStep DEF IInv
<1> QED BY <1>1, InitInv, PTL DEF Spec

------------------------------------------------------------------------------
(* Every variable keeps its type; total-shards never becomes negative.          *)
THEOREM TypeCorrect == Spec => []TypeOK
<1>1. IInv => TypeOK
  BY DEF IInv
<1> QED BY <1>1, Invariance, PTL

(* addIndexGroup, subIndexGroup and CountIndexGroup exclude one another until a *)
(* lock's lease runs out under its holder.                                      *)
THEOREM MutualExclusionHolds == Spec => []MutualExclusion
<1>1. IInv => MutualExclusion
  BY DEF IInv, HolderOwnsLock, MutualExclusion
<1> QED BY <1>1, Invariance, PTL

(* Until then no update of total-shards is lost.                                *)
THEOREM NoUpdateIsLost == Spec => NoLostUpdate
<1> DEFINE Exact == \A w \in Worker : Write(w) /\ "lock expiry" \notin upsets =>
                      shards' = IF op[w] = "add" THEN shards + 1 ELSE shards - 1
<1>1. IInv => Exact
  BY DEF IInv, CountIsFresh, Write, Updated
<1>2. IInv /\ [Next]_vars => [Exact]_vars
  BY <1>1
<1> QED BY <1>2, Invariance, PTL DEF Spec, NoLostUpdate

------------------------------------------------------------------------------
(* The counter.                                                                 *)

Locking == {"grant", "acquire", "revoke"} \cup Section

(* The workers whose group is in total-shards on their account, ...             *)
Counted(w) ==
  \/ pc[w] \in {"unregister", "checkEmpty"} \cup Serving
  \/ pc[w] \in {"grant", "acquire", "revoke", "read", "write"} /\ op[w] # "add"
  \/ pc[w] = "release" /\ op[w] # "sub"

CountedGroups == {GroupOf[w] : w \in {v \in Worker : Counted(v)}}

(* ... those whose service key is in etcd, ...                                  *)
Listed(w) ==
  \/ pc[w] \in {"check", "unregister"} \cup Serving
  \/ pc[w] \in Locking /\ op[w] # "sub"

(* ... and those that register or close.                                        *)
Busy(w) == pc[w] \notin {"down"} \cup Serving /\ op[w] # "count"

Alone(w) == \A v \in Worker \ {w} : GroupOf[v] = GroupOf[w] => pc[v] = "down"

KeysAreListed  == keys = {w \in Worker : Listed(w)}
BeatingIsKnown == \A w \in beating : Listed(w) \/ Closing(w)
OpIsKnown      == \A w \in Worker : /\ pc[w] \notin Locking => op[w] = "add"
                                    /\ pc[w] = "write" => op[w] # "count"
OneBusy        == \A v, w \in Worker : Busy(v) /\ Busy(w) /\ GroupOf[v] = GroupOf[w] => v = w
FirstOrLast    == \A w \in Worker : pc[w] \in Locking /\ op[w] # "count" => Alone(w)
LeaseIsHeld    == \A w \in Worker : pc[w] \in Section => w \in leases
CounterIsRight == IsFiniteSet(CountedGroups) /\ shards = Cardinality(CountedGroups)

Counts == /\ KeysAreListed /\ BeatingIsKnown /\ OpIsKnown /\ OneBusy
          /\ FirstOrLast /\ LeaseIsHeld /\ CounterIsRight

CountInv == upsets = {} => Counts

------------------------------------------------------------------------------
(* One process moves: what holds of the others stays so.                        *)
Moves(w) == /\ pc' = [pc EXCEPT ![w] = pc'[w]]
            /\ op' = [op EXCEPT ![w] = op'[w]]

LEMMA OthersStay ==
  ASSUME TypeOK, NEW w \in Worker, Moves(w), NEW v \in Worker \ {w}
  PROVE  /\ pc'[v] = pc[v] /\ op'[v] = op[v]
         /\ Counted(v)' <=> Counted(v)
         /\ Listed(v)' <=> Listed(v)
         /\ Busy(v)' <=> Busy(v)
         /\ Closing(v)' <=> Closing(v)
<1>1. pc'[v] = pc[v] /\ op'[v] = op[v]
  BY DEF Moves, TypeOK
<1> QED BY <1>1 DEF Counted, Listed, Busy, Closing

(* All but the counter, by what the step does to the one that moves.            *)
LEMMA MoveStep ==
  ASSUME TypeOK, Counts, NEW w \in Worker, Moves(w),
         Busy(w)' /\ ~Busy(w) => ~Overlaps(w),
         pc[w] = "down" /\ pc'[w] # "down" => ~Overlaps(w),
         keys' = IF Listed(w)' THEN keys \cup {w} ELSE keys \ {w},
         beating' \subseteq beating \cup {w},
         w \in beating' => Listed(w)' \/ Closing(w)',
         pc'[w] \notin Locking => op'[w] = "add",
         pc'[w] = "write" => op'[w] # "count",
         pc'[w] \in Locking /\ op'[w] # "count" => Alone(w),
         leases \ {w} \subseteq leases',
         pc'[w] \in Section => w \in leases',
         CounterIsRight'
  PROVE  Counts'
<1>1. KeysAreListed'
  BY OthersStay DEF Counts, KeysAreListed
<1>2. BeatingIsKnown'
  BY OthersStay DEF Counts, BeatingIsKnown, TypeOK
<1>3. OpIsKnown'
  BY OthersStay DEF Counts, OpIsKnown
<1>4. OneBusy'
  <2>1. ASSUME NEW v \in Worker \ {w}, Busy(v)', Busy(w)', GroupOf[v] = GroupOf[w] PROVE FALSE
    <3>1. Busy(v)
      BY <2>1, OthersStay
    <3>2. CASE Busy(w)
      BY <2>1, <3>1, <3>2 DEF Counts, OneBusy
    <3>3. CASE ~Overlaps(w)
      BY <2>1, <3>1, <3>3 DEF Overlaps, Busy
    <3> QED BY <2>1, <3>2, <3>3
  <2>2. ASSUME NEW u \in Worker \ {w}, NEW v \in Worker \ {w}, Busy(u)', Busy(v)',
               GroupOf[u] = GroupOf[v]
        PROVE  u = v
    BY <2>2, OthersStay DEF Counts, OneBusy
  <2> QED BY <2>1, <2>2 DEF OneBusy
<1>5. FirstOrLast'
  <2> SUFFICES ASSUME NEW u \in Worker, pc'[u] \in Locking, op'[u] # "count",
                      NEW v \in Worker \ {u}, GroupOf[v] = GroupOf[u]
               PROVE  pc'[v] = "down"
    BY DEF FirstOrLast, Alone, Locking, Section
  <2>1. CASE u = w
    BY <2>1, OthersStay DEF Alone
  <2>2. CASE u # w
    <3>1. pc[u] \in Locking /\ op[u] # "count" /\ pc[v] = "down"
      BY <2>2, OthersStay DEF Counts, FirstOrLast, Alone
    <3>2. CASE v = w
      BY <2>2, <3>1, <3>2 DEF Overlaps, Locking, Section, Serving
    <3> QED BY <3>1, <3>2, OthersStay
  <2> QED BY <2>1, <2>2
<1>6. LeaseIsHeld'
  BY OthersStay DEF Counts, LeaseIsHeld, Section
<1> QED BY <1>1, <1>2, <1>3, <1>4, <1>5, <1>6 DEF Counts

(* Nobody moves.                                                                *)
LEMMA StillStep ==
  ASSUME TypeOK, Counts, UNCHANGED <<pc, op, shards, keys, beating>>,
         \A w \in Worker : pc[w] \in Section /\ w \in leases => w \in leases'
  PROVE  Counts'
<1>1. \A w \in Worker : /\ Counted(w)' <=> Counted(w)
                        /\ Listed(w)' <=> Listed(w)
                        /\ Busy(w)' <=> Busy(w)
                        /\ Closing(w)' <=> Closing(w)
  BY DEF Counted, Listed, Busy, Closing
<1>2. CountedGroups' = CountedGroups
  BY <1>1 DEF CountedGroups
<1>3. KeysAreListed' /\ CounterIsRight'
  BY <1>1, <1>2 DEF Counts, KeysAreListed, CounterIsRight
<1>4. BeatingIsKnown' /\ OneBusy'
  BY <1>1 DEF Counts, BeatingIsKnown, OneBusy, TypeOK
<1>5. OpIsKnown' /\ FirstOrLast'
  BY DEF Counts, OpIsKnown, FirstOrLast, Alone, Locking, Section
<1>6. LeaseIsHeld'
  BY DEF Counts, LeaseIsHeld, Section
<1> QED BY <1>3, <1>4, <1>5, <1>6 DEF Counts

------------------------------------------------------------------------------
(* The counter stays right if the one that moves is counted as before, ...      *)
LEMMA SameCount ==
  ASSUME TypeOK, Counts, NEW w \in Worker, Moves(w), Counted(w)' <=> Counted(w), UNCHANGED shards
  PROVE  CounterIsRight'
<1>1. \A v \in Worker : Counted(v)' <=> Counted(v)
  BY OthersStay
<1>2. CountedGroups' = CountedGroups
  BY <1>1 DEF CountedGroups
<1> QED BY <1>2 DEF Counts, CounterIsRight

(* ... or if another worker of its group is counted.                            *)
LEMMA GroupCount ==
  ASSUME TypeOK, Counts, NEW w \in Worker, Moves(w), UNCHANGED shards,
         NEW v \in Worker \ {w}, GroupOf[v] = GroupOf[w], Counted(v)
  PROVE  CounterIsRight'
<1>1. \A u \in Worker \ {w} : Counted(u)' <=> Counted(u)
  BY OthersStay
<1>2. CountedGroups' = CountedGroups
  BY <1>1 DEF CountedGroups
<1> QED BY <1>2 DEF Counts, CounterIsRight

(* While a worker registers or closes, the others of its group whose keys are   *)
(* in etcd are counted.                                                         *)
LEMMA ListedIsCounted ==
  ASSUME TypeOK, Counts, NEW w \in Worker, Busy(w), NEW v \in KeysOfGroup(w), v # w
  PROVE  v \in Worker /\ GroupOf[v] = GroupOf[w] /\ Counted(v)
<1>1. v \in Worker /\ GroupOf[v] = GroupOf[w] /\ Listed(v)
  BY DEF KeysOfGroup, Counts, KeysAreListed
<1>2. ~Busy(v)
  BY <1>1 DEF Counts, OneBusy
<1>3. pc[v] \notin Locking => op[v] = "add"
  BY <1>1 DEF Counts, OpIsKnown
<1> QED BY <1>1, <1>2, <1>3 DEF Busy, Listed, Counted, Locking, Section, Serving

(* Where no other key is, the others of the group are down.                     *)
LEMMA UnlistedIsDown ==
  ASSUME TypeOK, Counts, NEW w \in Worker, Busy(w), KeysOfGroup(w) \subseteq {w}
  PROVE  Alone(w)
<1> SUFFICES ASSUME NEW v \in Worker \ {w}, GroupOf[v] = GroupOf[w] PROVE pc[v] = "down"
  BY DEF Alone
<1>1. ~Listed(v)
  BY DEF KeysOfGroup, Counts, KeysAreListed
<1>2. ~Busy(v)
  BY DEF Counts, OneBusy
<1>3. pc[v] \notin Locking => op[v] = "add"
  BY DEF Counts, OpIsKnown
<1> QED BY <1>1, <1>2, <1>3 DEF Busy, Listed, Serving

LEMMA GotoMoves ==
  ASSUME TypeOK, NEW w \in Worker, NEW l, Goto(w, l)
  PROVE  pc'[w] = l /\ pc' = [pc EXCEPT ![w] = l] /\ (UNCHANGED op => Moves(w))
BY DEF Goto, Moves, TypeOK

------------------------------------------------------------------------------
(* The steps of a process outside the lock.                                     *)
LEMMA StartStep ==
  ASSUME TypeOK, Counts, NEW w \in Worker, Start(w), upsets' = {}
  PROVE  Counts'
<1>1. /\ pc'[w] = "register" /\ Moves(w) /\ pc[w] = "down" /\ op'[w] = op[w] /\ op[w] = "add"
      /\ UNCHANGED <<keys, shards, leases, beating>>
  BY GotoMoves DEF Start, Goto, etcd, Counts, OpIsKnown, Locking, Section
<1>2. ~Overlaps(w)
  BY DEF Start, Upsetting
<1>3. w \notin keys /\ w \notin beating
  BY <1>1 DEF Counts, KeysAreListed, BeatingIsKnown, Listed, Closing, Locking, Section, Serving
<1>4. ~Listed(w)' /\ ~Counted(w)' /\ ~Counted(w)
  BY <1>1 DEF Listed, Counted, Locking, Section, Serving
<1>5. CounterIsRight'
  BY <1>1, <1>4, SameCount
<1> QED BY <1>1, <1>2, <1>3, <1>4, <1>5, MoveStep DEF Locking, Section

LEMMA RegisterStep ==
  ASSUME TypeOK, Counts, NEW w \in Worker, Register(w)
  PROVE  Counts'
<1>1. /\ pc'[w] = "check" /\ Moves(w) /\ pc[w] = "register" /\ op'[w] = op[w] /\ op[w] = "add"
      /\ UNCHANGED <<shards, leases, beating>> /\ keys' = keys \cup {w}
  BY GotoMoves DEF Register, Goto, Counts, OpIsKnown, Locking, Section
<1>2. w \notin beating
  BY <1>1 DEF Counts, BeatingIsKnown, Listed, Closing, Locking, Section, Serving
<1>3. Listed(w)' /\ ~Counted(w)' /\ ~Counted(w) /\ Busy(w)
  BY <1>1 DEF Listed, Counted, Busy, Locking, Section, Serving
<1>4. CounterIsRight'
  BY <1>1, <1>3, SameCount
<1> QED BY <1>1, <1>2, <1>3, <1>4, MoveStep DEF Locking, Section

(* What is the same in addIndexGroup, subIndexGroup and CountIndexGroup.        *)
LEMMA EnterFacts ==
  ASSUME TypeOK, NEW w \in Worker, NEW o, Enter(w, o)
  PROVE  /\ pc'[w] = "grant" /\ op'[w] = o /\ Moves(w) /\ UNCHANGED beating
BY DEF Enter, Goto, Moves, TypeOK

LEMMA CheckStep ==
  ASSUME TypeOK, Counts, NEW w \in Worker, Check(w)
  PROVE  Counts'
<1>1. /\ pc[w] = "check" /\ op[w] = "add" /\ w \in keys /\ UNCHANGED <<keys, shards>>
      /\ Busy(w) /\ Listed(w) /\ ~Counted(w)
  BY DEF Check, etcd, Counts, OpIsKnown, KeysAreListed, Busy, Listed, Counted, Locking, Section, Serving
<1>2. w \in KeysOfGroup(w) /\ IsFiniteSet(KeysOfGroup(w))
  <2>1. KeysOfGroup(w) \in SUBSET Worker
    BY DEF KeysOfGroup, TypeOK
  <2> QED BY <1>1, <2>1, FS_Subset, ServiceHubAssumption DEF ServiceHubAssumption, KeysOfGroup
<1>3. CASE Cardinality(KeysOfGroup(w)) = 1
  <2>1. KeysOfGroup(w) \subseteq {w}
    <3>1. \A S : IsFiniteSet(S) => (Cardinality(S) = 1 <=> \E x : S = {x})
      BY FS_Singleton
    <3>2. PICK x : KeysOfGroup(w) = {x}
      BY <1>2, <1>3, <3>1
    <3> QED BY <1>2, <3>2
  <2>2. Alone(w)
    BY <1>1, <2>1, UnlistedIsDown
  <2>3. pc'[w] = "grant" /\ op'[w] = "add" /\ Moves(w) /\ UNCHANGED <<leases, beating>>
    BY <1>3, EnterFacts DEF Check, etcd
  <2>4. Listed(w)' /\ ~Counted(w)'
    BY <2>3 DEF Listed, Counted, Locking, Section, Serving
  <2>5. CounterIsRight'
    BY <1>1, <2>3, <2>4, SameCount
  <2> QED BY <1>1, <2>2, <2>3, <2>4, <2>5, MoveStep DEF Locking, Section
<1>4. CASE Cardinality(KeysOfGroup(w)) # 1
  <2>1. PICK v \in KeysOfGroup(w) : v # w
    <3>1. KeysOfGroup(w) # {w}
      BY <1>4, FS_Singleton
    <3> QED BY <1>2, <3>1
  <2>2. v \in Worker /\ GroupOf[v] = GroupOf[w] /\ Counted(v)
    BY <1>1, <2>1, ListedIsCounted
  <2>3. /\ pc'[w] = "registered" /\ op'[w] = "add" /\ Moves(w)
        /\ UNCHANGED leases /\ beating' = beating \cup {w}
    BY <1>1, <1>4, GotoMoves DEF Check, Goto, etcd
  <2>4. Listed(w)' /\ ~Busy(w)'
    BY <2>3 DEF Listed, Busy, Serving
  <2>5. CounterIsRight'
    BY <1>1, <2>1, <2>2, <2>3, GroupCount
  <2> QED BY <1>1, <2>3, <2>4, <2>5, MoveStep DEF Locking, Section
<1> QED BY <1>3, <1>4

LEMMA ServeStep ==
  ASSUME TypeOK, Counts, NEW w \in Worker, Serve(w)
  PROVE  Counts'
<1>1. /\ pc'[w] = "serving" /\ Moves(w) /\ pc[w] = "registered" /\ op'[w] = op[w] /\ op[w] = "add"
      /\ UNCHANGED <<keys, shards, leases, beating>>
  BY GotoMoves DEF Serve, Goto, etcd, Counts, OpIsKnown, Locking, Section
<1>2. w \in keys
  BY <1>1 DEF Counts, KeysAreListed, Listed, Serving
<1>3. Listed(w)' /\ Counted(w)' /\ Counted(w) /\ ~Busy(w)'
  BY <1>1 DEF Listed, Counted, Busy, Serving
<1>4. CounterIsRight'
  BY <1>1, <1>3, SameCount
<1> QED BY <1>1, <1>2, <1>3, <1>4, MoveStep DEF Locking, Section

LEMMA RebuildStep ==
  ASSUME TypeOK, Counts, NEW w \in Worker, Rebuild(w)
  PROVE  Counts'
<1>1. /\ pc'[w] = "grant" /\ Moves(w) /\ pc[w] = "registered" /\ op'[w] = "count"
      /\ UNCHANGED <<keys, shards, leases, beating>>
  BY EnterFacts DEF Rebuild, etcd
<1>2. w \in keys
  BY <1>1 DEF Counts, KeysAreListed, Listed, Serving
<1>3. Listed(w)' /\ Counted(w)' /\ Counted(w) /\ ~Busy(w)'
  BY <1>1 DEF Listed, Counted, Busy, Serving, Locking
<1>4. CounterIsRight'
  BY <1>1, <1>3, SameCount
<1> QED BY <1>1, <1>2, <1>3, <1>4, MoveStep DEF Locking, Section

LEMMA CloseStep ==
  ASSUME TypeOK, Counts, NEW w \in Worker, Close(w), upsets' = {}
  PROVE  Counts'
<1>1. /\ pc'[w] = "unregister" /\ Moves(w) /\ pc[w] \in Serving /\ op'[w] = op[w] /\ op[w] = "add"
      /\ UNCHANGED <<keys, shards, leases, beating>> /\ ~Overlaps(w)
  BY GotoMoves DEF Close, Upsetting, Goto, etcd, Counts, OpIsKnown, Locking, Section, Serving
<1>2. w \in keys
  BY <1>1 DEF Counts, KeysAreListed, Listed
<1>3. Listed(w)' /\ Counted(w)' /\ Counted(w)
  BY <1>1 DEF Listed, Counted
<1>4. CounterIsRight'
  BY <1>1, <1>3, SameCount
<1> QED BY <1>1, <1>2, <1>3, <1>4, MoveStep DEF Locking, Section

LEMMA UnRegisterStep ==
  ASSUME TypeOK, Counts, NEW w \in Worker, UnRegister(w)
  PROVE  Counts'
<1>1. /\ pc'[w] = "checkEmpty" /\ Moves(w) /\ pc[w] = "unregister" /\ op'[w] = op[w] /\ op[w] = "add"
      /\ UNCHANGED <<shards, leases, beating>> /\ keys' = keys \ {w}
  BY GotoMoves DEF UnRegister, Goto, Counts, OpIsKnown, Locking, Section
<1>2. ~Listed(w)' /\ Closing(w)' /\ Counted(w)' /\ Counted(w) /\ Busy(w)
  BY <1>1 DEF Listed, Closing, Counted, Busy, Locking, Section, Serving
<1>3. CounterIsRight'
  BY <1>1, <1>2, SameCount
<1> QED BY <1>1, <1>2, <1>3, MoveStep DEF Locking, Section

LEMMA CheckEmptyStep ==
  ASSUME TypeOK, Counts, NEW w \in Worker, CheckEmpty(w)
  PROVE  Counts'
<1>1. /\ pc[w] = "checkEmpty" /\ op[w] = "add" /\ w \notin keys /\ UNCHANGED <<keys, shards>>
      /\ Busy(w) /\ Counted(w)
  BY DEF CheckEmpty, etcd, Counts, OpIsKnown, KeysAreListed, Busy, Listed, Counted, Locking, Section, Serving
<1>2. CASE KeysOfGroup(w) = {}
  <2>1. Alone(w)
    BY <1>1, <1>2, UnlistedIsDown
  <2>2. pc'[w] = "grant" /\ op'[w] = "sub" /\ Moves(w) /\ UNCHANGED <<leases, beating>>
    BY <1>2, EnterFacts DEF CheckEmpty, etcd
  <2>3. ~Listed(w)' /\ Closing(w)' /\ Counted(w)'
    BY <2>2 DEF Listed, Closing, Counted, Locking, Section, Serving
  <2>4. CounterIsRight'
    BY <1>1, <2>2, <2>3, SameCount
  <2> QED BY <1>1, <2>1, <2>2, <2>3, <2>4, MoveStep DEF Locking, Section
<1>3. CASE KeysOfGroup(w) # {}
  <2>1. PICK v \in KeysOfGroup(w) : v # w
    BY <1>1, <1>3 DEF KeysOfGroup
  <2>2. v \in Worker /\ GroupOf[v] = GroupOf[w] /\ Counted(v)
    BY <1>1, <2>1, ListedIsCounted
  <2>3. /\ pc'[w] = "down" /\ op'[w] = "add" /\ Moves(w)
        /\ UNCHANGED leases /\ beating' = beating \ {w}
    BY <1>1, <1>3, GotoMoves DEF CheckEmpty, Goto, etcd
  <2>4. ~Listed(w)' /\ ~Busy(w)'
    BY <2>3 DEF Listed, Busy, Locking, Section, Serving
  <2>5. CounterIsRight'
    BY <1>1, <2>1, <2>2, <2>3, GroupCount
  <2> QED BY <1>1, <2>3, <2>4, <2>5, MoveStep DEF Locking, Section
<1> QED BY <1>2, <1>3

------------------------------------------------------------------------------
(* The steps under the lock.  A process there keeps its key and its heartbeat.  *)
LEMMA LockedKeys ==
  ASSUME TypeOK, Counts, NEW w \in Worker, pc[w] \in Locking, pc'[w] \in Locking, Moves(w),
         UNCHANGED <<op, keys, beating>>
  PROVE  /\ op'[w] = op[w]
         /\ Listed(w)' <=> Listed(w)
         /\ Busy(w)' => Busy(w)
         /\ keys' = IF Listed(w)' THEN keys \cup {w} ELSE keys \ {w}
         /\ w \in beating' => Listed(w)' \/ Closing(w)'
         /\ op'[w] # "count" => Alone(w)
<1>1. Listed(w)' <=> Listed(w)
  BY DEF Listed, Locking, Section, Serving
<1>2. Busy(w)' => Busy(w)
  BY DEF Busy, Locking, Section, Serving
<1>3. w \in keys <=> Listed(w)
  BY DEF Counts, KeysAreListed
<1>4. w \in beating => Listed(w) \/ Closing(w)
  BY DEF Counts, BeatingIsKnown
<1>5. Closing(w) => Closing(w)'
  BY DEF Closing, Locking, Section
<1>6. op[w] # "count" => Alone(w)
  BY DEF Counts, FirstOrLast
<1> QED BY <1>1, <1>2, <1>3, <1>4, <1>5, <1>6

(* The lease is granted, or is to be revoked.                                   *)
LEMMA GrantStep ==
  ASSUME TypeOK, Counts, NEW w \in Worker, Grant(w)
  PROVE  Counts'
<1>1. /\ pc'[w] = "acquire" /\ Moves(w) /\ pc[w] = "grant" /\ leases' = leases \cup {w}
      /\ UNCHANGED <<op, keys, shards, beating>>
  BY GotoMoves DEF Grant, Goto
<1>2. CounterIsRight'
  BY <1>1, SameCount DEF Counted, Serving
<1> QED BY <1>1, <1>2, LockedKeys, MoveStep DEF Locking, Section

LEMMA GiveUpStep ==
  ASSUME TypeOK, Counts, NEW w \in Worker, GiveUp(w)
  PROVE  Counts'
<1>1. /\ pc'[w] = "revoke" /\ Moves(w) /\ pc[w] = "acquire"
      /\ UNCHANGED <<op, keys, shards, leases, beating>>
  BY GotoMoves DEF GiveUp, Goto, etcd
<1>2. CounterIsRight'
  BY <1>1, SameCount DEF Counted, Serving
<1> QED BY <1>1, <1>2, LockedKeys, MoveStep DEF Locking, Section

LEMMA AcquireStep ==
  ASSUME TypeOK, Counts, NEW w \in Worker, Acquire(w)
  PROVE  Counts'
<1>1. /\ pc'[w] = "read" /\ Moves(w) /\ pc[w] = "acquire" /\ w \in leases
      /\ UNCHANGED <<op, keys, shards, leases, beating>>
  BY GotoMoves DEF Acquire, Goto
<1>2. CounterIsRight'
  BY <1>1, SameCount DEF Counted, Serving
<1> QED BY <1>1, <1>2, LockedKeys, MoveStep DEF Locking, Section

LEMMA ReadStep ==
  ASSUME TypeOK, Counts, NEW w \in Worker, Read(w)
  PROVE  Counts'
<1>1. /\ pc'[w] = (IF op[w] = "count" THEN "release" ELSE "write") /\ Moves(w) /\ pc[w] = "read"
      /\ UNCHANGED <<op, keys, shards, leases, beating>>
  BY GotoMoves DEF Read, Goto, etcd
<1>2. w \in leases
  BY <1>1 DEF Counts, LeaseIsHeld, Section
<1>3. CounterIsRight'
  BY <1>1, SameCount DEF Counted, Serving
<1> QED BY <1>1, <1>2, <1>3, LockedKeys, MoveStep DEF Locking, Section

(* The write counts the group of the process on, ...                            *)
LEMMA WriteStep ==
  ASSUME IInv, Counts, NEW w \in Worker, Write(w), "lock expiry" \notin upsets
  PROVE  Counts'
<1>t. TypeOK /\ count[w] = shards /\ pc[w] = "write"
  BY DEF IInv, CountIsFresh, Write
<1>1. /\ pc'[w] = "release" /\ Moves(w)
      /\ UNCHANGED <<op, keys, leases, beating>> /\ shards' = Updated(w)
  BY <1>t, GotoMoves DEF Write, Goto
<1>2. w \in leases /\ op[w] \in {"add", "sub"}
  BY <1>t DEF Counts, LeaseIsHeld, OpIsKnown, Section, TypeOK
<1>3. Alone(w)
  BY <1>t, <1>2 DEF Counts, FirstOrLast, Locking, Section
<1>4. \A v \in Worker \ {w} : /\ Counted(v)' <=> Counted(v)
                              /\ Counted(v) => GroupOf[v] # GroupOf[w]
  <2> TAKE v \in Worker \ {w}
  <2>1. Counted(v)' <=> Counted(v)
    BY <1>t, <1>1, OthersStay
  <2>2. pc[v] = "down" => ~Counted(v)
    BY DEF Counted, Serving
  <2> QED BY <1>3, <2>1, <2>2 DEF Alone
<1>5. IsFiniteSet(CountedGroups) /\ shards = Cardinality(CountedGroups)
  BY DEF Counts, CounterIsRight
<1>6. CounterIsRight'
  <2>1. CASE op[w] = "add"
    <3>1. ~Counted(w) /\ Counted(w)'
      BY <1>t, <1>1, <2>1 DEF Counted, Serving
    <3>2. CountedGroups' = CountedGroups \cup {GroupOf[w]} /\ GroupOf[w] \notin CountedGroups
      BY <1>4, <3>1 DEF CountedGroups
    <3>3. shards' = shards + 1
      BY <1>t, <1>1, <2>1 DEF Updated
    <3> QED BY <1>5, <3>2, <3>3, FS_AddElement DEF CounterIsRight
  <2>2. CASE op[w] = "sub"
    <3>1. Counted(w) /\ ~Counted(w)'
      BY <1>t, <1>1, <2>2 DEF Counted, Serving
    <3>2. CountedGroups' = CountedGroups \ {GroupOf[w]} /\ GroupOf[w] \in CountedGroups
      BY <1>4, <3>1 DEF CountedGroups
    <3>3. shards' = shards - 1
      BY <1>t, <1>1, <2>2 DEF Updated
    <3> QED BY <1>5, <3>2, <3>3, FS_RemoveElement DEF CounterIsRight
  <2> QED BY <1>2, <2>1, <2>2
<1> QED BY <1>t, <1>1, <1>2, <1>6, LockedKeys, MoveStep DEF Locking, Section

(* ... and the release lets it serve, or ends it.                               *)
LEMMA ReleaseStep ==
  ASSUME TypeOK, Counts, NEW w \in Worker, Release(w)
  PROVE  Counts'
<1>1. pc[w] = "release" /\ w \in leases
  BY DEF Release, Counts, LeaseIsHeld, Section
<1>2. /\ pc'[w] = IF op[w] = "sub" THEN "down" ELSE IF op[w] = "add" THEN "registered" ELSE "serving"
      /\ Moves(w) /\ op'[w] = "add"
      /\ UNCHANGED <<keys, shards>> /\ leases' = leases \ {w}
      /\ beating' \subseteq beating \cup {w} /\ (op[w] = "sub" => beating' = beating \ {w})
  BY <1>1 DEF Release, Goto, Moves, TypeOK
<1>3. /\ Counted(w)' <=> Counted(w)
      /\ Listed(w)' <=> Listed(w)
      /\ Listed(w) <=> op[w] # "sub"
      /\ ~Busy(w)'
  BY <1>1, <1>2 DEF Counted, Listed, Busy, Locking, Section, Serving
<1>4. w \in keys <=> Listed(w)
  BY DEF Counts, KeysAreListed
<1>5. CounterIsRight'
  BY <1>2, <1>3, SameCount
<1> QED BY <1>1, <1>2, <1>3, <1>4, <1>5, MoveStep DEF Locking, Section

------------------------------------------------------------------------------
(* The steps in which nobody moves.                                             *)
LEMMA LeaseStep ==
  ASSUME TypeOK, Counts, upsets' = {}, NEW w \in Worker,
         Heartbeat(w) \/ AcquireUnanswered(w) \/ LockExpires(w) \/ OrphanExpires \/ KeyExpires(w)
  PROVE  Counts'
<1>1. CASE Heartbeat(w)
  <2>1. Listed(w)
    BY <1>1 DEF Heartbeat, Counts, BeatingIsKnown
  <2>2. keys' = keys
    BY <1>1, <2>1 DEF Heartbeat, Counts, KeysAreListed
  <2> QED BY <1>1, <2>2, StillStep DEF Heartbeat
<1>2. CASE AcquireUnanswered(w) \/ OrphanExpires
  BY <1>2, StillStep DEF AcquireUnanswered, OrphanExpires
<1>3. CASE LockExpires(w)
  <2>1. pc[w] \notin Section /\ leases' = leases \ {w} /\ UNCHANGED <<pc, op, shards, keys, beating>>
    BY <1>3 DEF LockExpires
  <2> QED BY <2>1, StillStep
<1>4. CASE KeyExpires(w)
  <2>1. w \in keys /\ pc[w] \in {"down", "register"}
    BY <1>4 DEF KeyExpires
  <2> QED BY <2>1 DEF Counts, KeysAreListed, Listed, Locking, Section, Serving
<1> QED BY <1>1, <1>2, <1>3, <1>4

(* A step that upsets nothing is one of these.                                  *)
LEMMA CountStep == IInv /\ CountInv /\ [Next]_vars => CountInv'
<1> SUFFICES ASSUME IInv, CountInv, [Next]_vars, upsets' = {} PROVE Counts'
  BY DEF CountInv
<1>1. upsets = {}
  <2>1. ASSUME NEW w \in Worker, Run(w) PROVE upsets \subseteq upsets'
    BY <2>1 DEF Run, Register, Check, Serve, UnRegister, CheckEmpty, Acquire, GiveUp, Read,
       ReadNothing, Write, Release, Down
  <2>2. ASSUME NEW w \in Worker, Start(w) \/ Grant(w) \/ Revoke(w) \/ Rebuild(w) \/ Heartbeat(w) \/ Close(w)
                 \/ AcquireUnanswered(w) \/ Fail(w) \/ Crash(w) \/ LockExpires(w) \/ KeyExpires(w)
        PROVE  upsets \subseteq upsets'
    BY <2>2 DEF Start, Grant, Revoke, Upsetting, Rebuild, Heartbeat, Close, AcquireUnanswered, Fail, Crash, Down,
       LockExpires, KeyExpires
  <2> QED BY <2>1, <2>2 DEF Next, OrphanExpires, vars
<1>2. TypeOK /\ Counts /\ "lock expiry" \notin upsets
  BY <1>1 DEF IInv, CountInv
<1>3. ASSUME NEW w \in Worker, Run(w) PROVE Counts'
  <2>1. ~ReadNothing(w)
    BY DEF ReadNothing, Down
  <2> QED BY <1>2, <1>3, <2>1, RegisterStep, CheckStep, ServeStep, UnRegisterStep, CheckEmptyStep,
             AcquireStep, GiveUpStep, ReadStep, WriteStep, ReleaseStep DEF Run
<1>4. ASSUME NEW w \in Worker, Start(w) \/ Grant(w) \/ Revoke(w) \/ Rebuild(w) \/ Heartbeat(w) \/ Close(w)
               \/ AcquireUnanswered(w) \/ Fail(w) \/ Crash(w) \/ LockExpires(w) \/ KeyExpires(w)
      PROVE  Counts'
  <2>1. ~Revoke(w) /\ ~Fail(w) /\ ~Crash(w)
    BY DEF Revoke, Fail, Crash, Down
  <2> QED BY <1>2, <1>4, <2>1, StartStep, GrantStep, RebuildStep, CloseStep, LeaseStep
<1>5. CASE OrphanExpires \/ UNCHANGED vars
  BY <1>2, <1>5, StillStep DEF OrphanExpires, vars, etcd
<1> QED BY <1>3, <1>4, <1>5 DEF Next

LEMMA CountInit == Init => CountInv
<1> SUFFICES ASSUME Init PROVE Counts
  BY DEF CountInv
<1>1. \A w \in Worker : ~Counted(w) /\ ~Listed(w) /\ ~Busy(w)
  BY DEF Init, Counted, Listed, Busy, Locking, Section, Serving
<1>2. CountedGroups = {}
  BY <1>1 DEF CountedGroups
<1>3. CounterIsRight
  BY <1>2, FS_EmptySet DEF CounterIsRight, Init
<1> QED BY <1>1, <1>3 DEF Init, Counts, KeysAreListed, BeatingIsKnown, OpIsKnown, OneBusy,
           FirstOrLast, LeaseIsHeld, Locking, Section

(* When no worker is between registering and closing, total-shards, which tells  *)
(* the Sentinel how many groups to ask (addIndexGroup, subIndexGroup), is the    *)
(* number of groups with a worker, unless one of the named upsets has happened.  *)
THEOREM CounterCountsGroups == Spec => []ShardsCountGroups
<1>1. CountInv => ShardsCountGroups
  <2> SUFFICES ASSUME Counts, Quiet PROVE CountIsRight
    BY DEF CountInv, ShardsCountGroups
  <2>1. \A w \in Worker : Counted(w) <=> pc[w] \in Serving
    BY DEF Quiet, Counted, Serving
  <2>2. CountedGroups = {GroupOf[w] : w \in {v \in Worker : pc[v] \in Serving}}
    BY <2>1 DEF CountedGroups
  <2> QED BY <2>2 DEF Counts, CounterIsRight, CountIsRight
<1> QED BY <1>1, CountInit, CountStep, Invariance, PTL DEF Spec
==============================================================================
