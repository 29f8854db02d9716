--------------------------- MODULE SnowflakeProofs ---------------------------
(* Snowflake hands out unique ids until the clock is set back or, for an odd    *)
(* worker id, a millisecond's numbers are used up: for every worker id, every   *)
(* numberMax and every interleaving of calls, ticks and restarts.               *)
EXTENDS Snowflake, TLAPS

(* The number outgrows its bits by one bit at most.                             *)
NumberBound ==
  /\ backs <= MaxBacks
  /\ number <= NumberMax + 1 + backs
  /\ number > NumberMax /\ holder = NoCaller /\ timestamp >= now
       => number <= NumberMax + backs

WaitIsOverflow ==
  /\ holder # NoCaller => number > NumberMax
  /\ number > NumberMax => overflowed

ClockBound == backs = 0 => timestamp <= now

(* While the premise holds: an id with the worker's own field is of an earlier  *)
(* time, or has a number already used; an id with the other field is not later  *)
(* than the clock, nor, while someone spins, than the millisecond used up.      *)
Past(id) ==
  \/ id[2] = worker /\ (id[1] < now \/ (id[1] = now /\ timestamp = now /\ id[3] <= number))
  \/ /\ worker % 2 = 0 /\ id[2] = worker + 1
     /\ id[1] <= now
     /\ holder # NoCaller => id[1] <= timestamp
IssuedIsPast == ~Broken => \A i \in DOMAIN issued : Past(issued[i])

IInv == TypeOK /\ NumberBound /\ WaitIsOverflow /\ ClockBound /\ IssuedIsPast

------------------------------------------------------------------------------
USE SnowflakeAssumption DEF SnowflakeAssumption

(* An id fits its fields.                                                       *)
LEMMA IdTypes ==
  ASSUME TypeOK, NEW n \in 0 .. 2 * NumberMax + 1
  PROVE  Id(now, n) \in IdType
<1>1. worker \in WorkerField /\ worker + 1 \in WorkerField
  BY DEF TypeOK, WorkerField
<1>2. n - (NumberMax + 1) \in 0 .. NumberMax \/ n <= NumberMax
  OBVIOUS
<1> QED BY <1>1, <1>2 DEF TypeOK, Id, IdType

(* Appending to the ids handed out.                                             *)
LEMMA AppendFacts ==
  ASSUME NEW s \in Seq(IdType), NEW id \in IdType
  PROVE  /\ Append(s, id) \in Seq(IdType)
         /\ \A i \in DOMAIN Append(s, id) :
              (i \in DOMAIN s /\ Append(s, id)[i] = s[i]) \/ Append(s, id)[i] = id
  OBVIOUS

(* The initial state satisfies the inductive invariant.                         *)
LEMMA InitInv == Init => IInv
<1> SUFFICES ASSUME Init PROVE IInv
  OBVIOUS
<1>1. <<>> \in Seq(IdType) /\ DOMAIN <<>> = {}
  OBVIOUS
<1>2. TypeOK
  <2>1. now \in 1 .. MaxTime /\ timestamp \in 0 .. MaxTime /\ number \in 0 .. 2 * NumberMax + 1
    BY DEF Init
  <2> QED BY <1>1, <2>1 DEF Init, TypeOK
<1>3. NumberBound /\ WaitIsOverflow /\ ClockBound
  BY DEF Init, NumberBound, WaitIsOverflow, ClockBound
<1>4. IssuedIsPast
  BY <1>1 DEF Init, IssuedIsPast
<1> QED BY <1>2, <1>3, <1>4 DEF IInv

(* Every step keeps the types.                                                  *)
LEMMA TypeStep == IInv /\ [Next]_vars => TypeOK'
<1> SUFFICES ASSUME IInv, [Next]_vars PROVE TypeOK'
  OBVIOUS
<1> USE DEF IInv, TypeOK
<1>1. CASE GetIdNewTime
  <2>1. Id(now, 0) \in IdType
    BY IdTypes
  <2> QED BY <1>1, <2>1, AppendFacts DEF GetIdNewTime
<1>2. CASE GetIdSameTime
  <2>1. Id(now, number + 1) \in IdType
    BY <1>2, IdTypes DEF GetIdSameTime
  <2>2. number' \in 0 .. 2 * NumberMax + 1
    BY <1>2 DEF GetIdSameTime
  <2> QED BY <1>2, <2>1, <2>2, AppendFacts DEF GetIdSameTime
<1>3. ASSUME NEW c \in Caller, GetIdWait(c) PROVE TypeOK'
  <2>1. number' \in 0 .. 2 * NumberMax + 1
    BY <1>3 DEF GetIdWait, NumberBound
  <2> QED BY <1>3, <2>1 DEF GetIdWait
<1>4. ASSUME NEW c \in Caller, FinishWait(c) PROVE TypeOK'
  <2>1. Id(now, number) \in IdType
    BY IdTypes
  <2> QED BY <1>4, <2>1, AppendFacts DEF FinishWait
<1>5. CASE Tick
  BY <1>5 DEF Tick
<1>6. CASE StepBack
  BY <1>6 DEF StepBack
<1>7. CASE Restart
  BY <1>7 DEF Restart
<1>8. CASE UNCHANGED vars
  BY <1>8 DEF vars
<1> QED BY <1>1, <1>2, <1>3, <1>4, <1>5, <1>6, <1>7, <1>8 DEF Next

(* The number outgrows its bits only in the overflow, and only once per step    *)
(* back of the clock.                                                           *)
LEMMA BoundStep ==
  IInv /\ [Next]_vars => NumberBound' /\ WaitIsOverflow' /\ ClockBound'
<1> SUFFICES ASSUME IInv, [Next]_vars PROVE NumberBound' /\ WaitIsOverflow' /\ ClockBound'
  OBVIOUS
<1> USE DEF IInv, TypeOK, NumberBound, WaitIsOverflow, ClockBound
<1>1. CASE GetIdNewTime
  BY <1>1 DEF GetIdNewTime
<1>2. CASE GetIdSameTime
  BY <1>2 DEF GetIdSameTime
<1>3. ASSUME NEW c \in Caller, GetIdWait(c) PROVE NumberBound' /\ WaitIsOverflow' /\ ClockBound'
  BY <1>3 DEF GetIdWait
<1>4. ASSUME NEW c \in Caller, FinishWait(c) PROVE NumberBound' /\ WaitIsOverflow' /\ ClockBound'
  BY <1>4 DEF FinishWait
<1>5. CASE Tick
  BY <1>5 DEF Tick
<1>6. CASE StepBack
  BY <1>6 DEF StepBack
<1>7. CASE Restart
  BY <1>7 DEF Restart
<1>8. CASE UNCHANGED vars
  BY <1>8 DEF vars
<1> QED BY <1>1, <1>2, <1>3, <1>4, <1>5, <1>6, <1>7, <1>8 DEF Next

(* The id a step hands out, if any, differs from all before it, and the ids     *)
(* handed out before stay in the past.                                          *)
LEMMA PastStep ==
  ASSUME IInv, [Next]_vars, ~Broken'
  PROVE  /\ ~Broken
         /\ \A id \in IdType : Past(id) => Past(id)'
         /\ \/ issued' = issued
            \/ \E id \in IdType : /\ issued' = Append(issued, id)
                                  /\ ~Past(id) /\ Past(id)'
<1> DEFINE Goal ==
      /\ ~Broken
      /\ \A id \in IdType : Past(id) => Past(id)'
      /\ \/ issued' = issued
         \/ \E id \in IdType : issued' = Append(issued, id) /\ ~Past(id) /\ Past(id)'
<1>a. /\ TypeOK /\ NumberBound /\ WaitIsOverflow /\ ClockBound
      /\ worker \in Nat
  BY DEF IInv, TypeOK
<1>b. \A id \in IdType : id[1] \in Nat /\ id[2] \in Nat /\ id[3] \in Nat
  <2>1. \A w \in WorkerIds : w \in Nat /\ w + 1 \in Nat
    OBVIOUS
  <2>2. WorkerField \subseteq Nat
    BY <2>1 DEF WorkerField
  <2>3. \A id \in IdType : id[1] \in 1 .. MaxTime /\ id[2] \in WorkerField /\ id[3] \in 0 .. NumberMax
    BY DEF IdType
  <2>4. \A n \in 1 .. MaxTime : n \in Nat
    OBVIOUS
  <2>5. \A n \in 0 .. NumberMax : n \in Nat
    OBVIOUS
  <2> HIDE SnowflakeAssumption
  <2> QED BY <2>2, <2>3, <2>4, <2>5
<1>c. now \in Nat /\ timestamp \in Nat /\ number \in Nat
  BY <1>a DEF TypeOK
<1> USE DEF Broken, Past, TypeOK
<1>1. CASE GetIdNewTime
  <2>1. PICK id \in IdType : id = Id(now, 0)
    BY <1>a, IdTypes
  <2>2. id[1] = now /\ id[2] = worker /\ id[3] = 0
    BY <2>1 DEF Id
  <2>3. \A d \in IdType : Past(d) => Past(d)'
    BY <1>1, <1>a, <1>b DEF GetIdNewTime
  <2>4. ~Past(id) /\ Past(id)'
    BY <1>1, <1>a, <2>2 DEF GetIdNewTime
  <2>5. issued' = Append(issued, id) /\ ~Broken
    BY <1>1, <2>1 DEF GetIdNewTime
  <2> QED BY <2>3, <2>4, <2>5
<1>2. CASE GetIdSameTime
  <2>1. PICK id \in IdType : id = Id(now, number + 1)
    BY <1>2, <1>a, IdTypes DEF GetIdSameTime
  <2>2. id[1] = now /\ id[2] = worker /\ id[3] = number + 1
    BY <1>2, <2>1 DEF Id, GetIdSameTime
  <2>3. \A d \in IdType : Past(d) => Past(d)'
    BY <1>2, <1>a, <1>b DEF GetIdSameTime
  <2>4. ~Past(id) /\ Past(id)'
    BY <1>2, <1>a, <2>2 DEF GetIdSameTime
  <2>5. issued' = Append(issued, id) /\ ~Broken
    BY <1>2, <2>1 DEF GetIdSameTime
  <2> QED BY <2>3, <2>4, <2>5
<1>3. ASSUME NEW c \in Caller, GetIdWait(c) PROVE Goal
  <2>1. \A d \in IdType : Past(d) => Past(d)'
    BY <1>3, <1>a, <1>b DEF GetIdWait
  <2> QED BY <1>3, <2>1 DEF GetIdWait
<1>4. ASSUME NEW c \in Caller, FinishWait(c) PROVE Goal
  <2>1. PICK id \in IdType : id = Id(now, number)
    BY <1>a, IdTypes
  <2>2. holder # NoCaller /\ number > NumberMax /\ ~Broken /\ overflowed /\ worker % 2 = 0
    <3>1. worker % 2 \in {0, 1}
      BY <1>a
    <3> QED BY <1>4, <1>a, <3>1 DEF FinishWait, WaitIsOverflow
  <2>3. id[1] = now /\ id[2] = worker + 1
    BY <1>a, <2>1, <2>2 DEF Id
  <2>4. \A d \in IdType : Past(d) => Past(d)'
    BY <1>4, <1>a, <1>b DEF FinishWait
  <2>5. ~Past(id) /\ Past(id)'
    BY <1>4, <1>a, <2>2, <2>3 DEF FinishWait
  <2>6. issued' = Append(issued, id)
    BY <1>4, <2>1 DEF FinishWait
  <2> QED BY <2>2, <2>4, <2>5, <2>6
<1>5. CASE Tick
  <2>1. \A d \in IdType : Past(d) => Past(d)'
    <3> SUFFICES ASSUME NEW d \in IdType, Past(d) PROVE Past(d)'
      OBVIOUS
    <3>1. d[1] <= now /\ now' = now + 1 /\ worker' = worker
      BY <1>5, <1>a, <1>b, <1>c DEF Tick
    <3>2. d[1] < now' /\ d[1] <= now'
      BY <3>1, <1>b, <1>c
    <3>3. worker' % 2 = worker % 2 /\ (holder' # NoCaller => holder # NoCaller /\ timestamp' = timestamp)
      BY <1>5 DEF Tick
    <3> QED BY <3>1, <3>2, <3>3
  <2> QED BY <1>5, <2>1 DEF Tick
<1>6. CASE StepBack
  BY <1>6, <1>a DEF StepBack
<1>7. CASE Restart
  <2>1. \A d \in IdType : Past(d) => Past(d)'
    <3> SUFFICES ASSUME NEW d \in IdType, Past(d) PROVE Past(d)'
      OBVIOUS
    <3>1. d[1] <= now /\ now' = now + 1 /\ worker' = worker
      BY <1>7, <1>a, <1>b, <1>c DEF Restart
    <3>2. d[1] < now' /\ d[1] <= now'
      BY <3>1, <1>b, <1>c
    <3>3. worker' % 2 = worker % 2 /\ (holder' # NoCaller => holder # NoCaller /\ timestamp' = timestamp)
      BY <1>7 DEF Restart
    <3> QED BY <3>1, <3>2, <3>3
  <2> QED BY <1>7, <2>1 DEF Restart
<1>8. CASE UNCHANGED vars
  BY <1>8 DEF vars
<1> QED BY <1>1, <1>2, <1>3, <1>4, <1>5, <1>6, <1>7, <1>8 DEF Next

(* Ids handed out stay in the past, and the new one joins them.                 *)
LEMMA IssuedStep == IInv /\ [Next]_vars => IssuedIsPast'
<1> SUFFICES ASSUME IInv, [Next]_vars, ~Broken', NEW i \in DOMAIN issued'
             PROVE  Past(issued[i])'
  BY DEF IssuedIsPast
<1>1. issued \in Seq(IdType) /\ \A j \in DOMAIN issued : issued[j] \in IdType
  BY DEF IInv, TypeOK
<1>2. \A j \in DOMAIN issued : Past(issued[j])
  BY PastStep DEF IInv, IssuedIsPast
<1>3. PICK d \in IdType : d = issued'[i] /\ Past(d)'
  <2>1. CASE issued' = issued
    BY <1>1, <1>2, <2>1, PastStep
  <2>2. ASSUME NEW id \in IdType, issued' = Append(issued, id), Past(id)'
        PROVE  \E d \in IdType : d = issued'[i] /\ Past(d)'
    BY <1>1, <1>2, <2>2, PastStep, AppendFacts
  <2> QED BY <2>1, <2>2, PastStep
<1> QED BY <1>3 DEF Past

(* The inductive invariant is preserved.                                        *)
LEMMA InvStep == IInv /\ [Next]_vars => IInv'
  BY TypeStep, BoundStep, IssuedStep DEF IInv

------------------------------------------------------------------------------
(* The fields of an id keep their widths.                                       *)
THEOREM TypeCorrect == Spec => []TypeOK
<1>1. IInv => TypeOK
  BY DEF IInv
<1> QED BY <1>1, InitInv, InvStep, PTL DEF Spec

(* The generator keeps the promise of UniqueIds until its premise is lost.      *)
THEOREM Refinement == Spec => IssuesUniqueIds
<1>1. Init => Unique!Init
  BY DEF Init, Unique!Init, Broken
<1>2. IInv /\ [Next]_vars => [Unique!Next]_<<issued, Broken>>
  <2> SUFFICES ASSUME IInv, [Next]_vars PROVE [Unique!Next]_<<issued, Broken>>
    OBVIOUS
  <2>1. CASE ~Broken'
    <3>1. ~Broken
      BY <2>1, PastStep
    <3>2. CASE issued' = issued
      BY <2>1, <3>1, <3>2 DEF Broken
    <3>3. ASSUME NEW id \in IdType, issued' = Append(issued, id), ~Past(id)
          PROVE  Unique!Issue
      <4>1. id \notin Unique!Given
        BY <3>1, <3>3 DEF IInv, IssuedIsPast, Unique!Given
      <4>2. Broken' = Broken
        BY <2>1, <3>1 DEF Broken
      <4> QED BY <3>3, <4>1, <4>2 DEF Unique!Issue
    <3> QED BY <2>1, <3>2, <3>3, PastStep DEF Unique!Next
  <2>2. CASE Broken'
    <3>1. CASE issued' = issued
      BY <2>2, <3>1 DEF Unique!Next, Unique!Lose
    <3>2. CASE issued' # issued
      <4>1. PICK id \in IdType : issued' = Append(issued, id) /\ Broken' = Broken
        BY <3>2, IdTypes DEF Next, vars, GetIdNewTime, GetIdSameTime, GetIdWait, FinishWait,
           Tick, StepBack, Restart, IInv, TypeOK, Broken
      <4> QED BY <2>2, <4>1 DEF Unique!Next, Unique!Issue
    <3> QED BY <3>1, <3>2
  <2> QED BY <2>1, <2>2
<1> QED BY <1>1, <1>2, InitInv, InvStep, PTL DEF Spec, IssuesUniqueIds, Unique!Spec
==============================================================================
