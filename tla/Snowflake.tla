------------------------------ MODULE Snowflake ------------------------------
(* The snowflake generator of integer ids (util/snowflake.go).  An id is the    *)
(* bits (now - epoch) << 22 | workerId << 12 | number; the fields are kept      *)
(* apart here as <<time, worker, number>>, which orders and tells ids apart as  *)
(* the integer does while each field fits its bits.  The one field that does    *)
(* not always fit is number, see Id.  Time counts in milliseconds.              *)
EXTENDS Naturals, Sequences

CONSTANTS Caller,         (* goroutines that call GetId                           *)
          NoCaller,       (* nobody holds the mutex                               *)
          WorkerIds,      (* the worker ids considered (a hash of the host's IP)  *)
          NumberMax,      (* the largest number that fits its bits: numberMax     *)
          MaxTime,        (* bound: the last millisecond of the clock             *)
          MaxBacks        (* bound: how often the wall clock is set back          *)

ASSUME SnowflakeAssumption ==
  /\ NoCaller \notin Caller
  /\ WorkerIds \subseteq Nat
  /\ NumberMax \in Nat \ {0}
  /\ MaxTime \in Nat \ {0}
  /\ MaxBacks \in Nat /\ MaxBacks <= NumberMax

VARIABLES now,            (* the wall clock                                       *)
          worker,         (* Worker.workerId                                      *)
          timestamp,      (* Worker.timestamp                                     *)
          number,         (* Worker.number                                        *)
          holder,         (* who holds Worker.mu, spinning until the next time    *)
          issued,         (* history: the ids handed out, in order                *)
          backs,          (* history: how often the clock was set back            *)
          overflowed      (* history: a number has not fitted its bits            *)

vars == <<now, worker, timestamp, number, holder, issued, backs, overflowed>>

WorkerField == WorkerIds \cup {w + 1 : w \in WorkerIds}
IdType      == (1 .. MaxTime) \X WorkerField \X (0 .. NumberMax)

TypeOK ==
  /\ now \in 1 .. MaxTime /\ worker \in WorkerIds
  /\ timestamp \in 0 .. MaxTime /\ number \in 0 .. 2 * NumberMax + 1
  /\ holder \in Caller \cup {NoCaller}
  /\ issued \in Seq(IdType)
  /\ backs \in Nat /\ overflowed \in BOOLEAN

(* The id of a time and a number.  A number past numberMax is one more bit: it  *)
(* is or-ed into the lowest bit of the worker id, and its own field reads the   *)
(* rest.  (The bound on MaxBacks keeps the number below the next bit.)          *)
Id(t, n) ==
  IF n <= NumberMax THEN <<t, worker, n>>
  ELSE <<t, IF worker % 2 = 0 THEN worker + 1 ELSE worker, n - (NumberMax + 1)>>

------------------------------------------------------------------------------
Init ==
  /\ now = 1
  /\ worker \in WorkerIds
  /\ timestamp = 0 /\ number = 0
  /\ holder = NoCaller
  /\ issued = <<>>
  /\ backs = 0 /\ overflowed = FALSE

(* The definitions whose names begin with Faulty are not part of the            *)
(* specification: each is the action that follows it with a plausible bug.      *)

(* Faulty: the number is not reset.                                             *)
FaultyGetIdNewTime ==
  /\ holder = NoCaller /\ now < MaxTime
  /\ timestamp # now
  /\ timestamp' = now
  /\ issued' = Append(issued, Id(now, number))
  /\ UNCHANGED <<now, worker, number, holder, backs, overflowed>>

(* GetId in a millisecond with no id yet.                                       *)
GetIdNewTime ==
  /\ holder = NoCaller /\ now < MaxTime
  /\ timestamp # now
  /\ number' = 0
  /\ timestamp' = now
  /\ issued' = Append(issued, Id(now, 0))
  /\ UNCHANGED <<now, worker, holder, backs, overflowed>>

(* Faulty: the number is read before it is incremented.                         *)
FaultyGetIdSameTime ==
  /\ holder = NoCaller /\ now < MaxTime
  /\ timestamp = now
  /\ number + 1 <= NumberMax
  /\ number' = number + 1
  /\ issued' = Append(issued, Id(now, number))
  /\ UNCHANGED <<now, worker, timestamp, holder, backs, overflowed>>

(* GetId again in the same millisecond, while the numbers last.                 *)
GetIdSameTime ==
  /\ holder = NoCaller /\ now < MaxTime
  /\ timestamp = now
  /\ number + 1 <= NumberMax
  /\ number' = number + 1
  /\ issued' = Append(issued, Id(now, number + 1))
  /\ UNCHANGED <<now, worker, timestamp, holder, backs, overflowed>>

(* GetId when they are used up: it spins, the mutex held, ...                   *)
GetIdWait(c) ==
  /\ holder = NoCaller /\ now < MaxTime
  /\ timestamp = now
  /\ number + 1 > NumberMax
  /\ number' = number + 1
  /\ holder' = c
  /\ overflowed' = TRUE
  /\ UNCHANGED <<now, worker, timestamp, issued, backs>>

(* Faulty: the loop does not read the clock again, it compares the time it had. *)
FaultyFinishWait(c) ==
  /\ holder = c
  /\ timestamp > timestamp
  /\ issued' = Append(issued, Id(now, number))
  /\ holder' = NoCaller
  /\ UNCHANGED <<now, worker, timestamp, number, backs, overflowed>>

(* ... until the clock is past the timestamp.  Neither number nor timestamp is  *)
(* set for the new millisecond.                                                 *)
FinishWait(c) ==
  /\ holder = c
  /\ now > timestamp
  /\ issued' = Append(issued, Id(now, number))
  /\ holder' = NoCaller
  /\ UNCHANGED <<now, worker, timestamp, number, backs, overflowed>>

Tick ==
  /\ now < MaxTime
  /\ now' = now + 1
  /\ UNCHANGED <<worker, timestamp, number, holder, issued, backs, overflowed>>

(* time.Now().UnixNano() reads the wall clock, which may be set back.           *)
StepBack ==
  /\ backs < MaxBacks /\ now > 1
  /\ now' \in 1 .. now - 1
  /\ backs' = backs + 1
  /\ UNCHANGED <<worker, timestamp, number, holder, issued, overflowed>>

(* The process ends and NewWorker starts over; that takes over a millisecond.   *)
Restart ==
  /\ now < MaxTime
  /\ now' = now + 1
  /\ timestamp' = 0 /\ number' = 0
  /\ holder' = NoCaller
  /\ UNCHANGED <<worker, issued, backs, overflowed>>

Next ==
  \/ GetIdNewTime \/ GetIdSameTime
  \/ \E c \in Caller : GetIdWait(c) \/ FinishWait(c)
  \/ Tick \/ StepBack \/ Restart

Spec == Init /\ [][Next]_vars

(* The clock goes on, and a spinning goroutine is scheduled.                    *)
FairSpec == Spec /\ WF_vars(Tick) /\ \A c \in Caller : WF_vars(FinishWait(c))

------------------------------------------------------------------------------
(* Ids repeat only after the clock was set back, or when the worker id is odd   *)
(* and some millisecond used up its numbers: or-ing the extra bit into an odd   *)
(* worker id changes nothing, and the id is that of the next millisecond's      *)
(* number 0, which the next call hands out again.                               *)
Broken == backs > 0 \/ (overflowed /\ worker % 2 = 1)

Unique == INSTANCE UniqueIds WITH UniqueId <- IdType, broken <- Broken

IssuesUniqueIds == Unique!Spec

(* GetId always returns: the spin for the next millisecond ends, though it      *)
(* holds the mutex every other caller needs.                                    *)
WaitEnds == \A c \in Caller : holder = c ~> holder # c

(* Each id is larger than the one before, hence new.                            *)
Less(i, j) ==
  \/ i[1] < j[1]
  \/ i[1] = j[1] /\ i[2] < j[2]
  \/ i[1] = j[1] /\ i[2] = j[2] /\ i[3] < j[3]
IdsIncrease == \A i \in 1 .. Len(issued) - 1 : Less(issued[i], issued[i + 1])
==============================================================================
