----------------------------- MODULE ServiceHub ------------------------------
(* How index workers register at etcd and count the index groups:               *)
(* IndexServiceWorker.Register and Close (service/index_service.go), the        *)
(* ServiceHub calls they make (service/service_hub.go) and the lock around the  *)
(* counter (etcd/etcd_distributed_lock.go).  Each action is one etcd request    *)
(* with the code up to the next one.                                            *)
EXTENDS Naturals, FiniteSets

CONSTANTS Worker,        (* the index worker processes                            *)
          Group,         (* the index groups                                      *)
          GroupOf,       (* the group each worker is configured for               *)
          None,          (* no holder of the lock                                 *)
          Orphan,        (* the lock's holder died, its lease has not run out     *)
          MaxStarts      (* bound: how many times workers are started             *)

ASSUME ServiceHubAssumption ==
  /\ GroupOf \in [Worker -> Group] /\ IsFiniteSet(Worker)
  /\ None \notin Worker /\ Orphan \notin Worker /\ None # Orphan
  /\ MaxStarts \in Nat

VARIABLES keys,          (* etcd: the workers whose service key exists            *)
          shards,        (* etcd: total-shards, 0 when the key does not exist     *)
          lock,          (* etcd: whose lease the group-lock key is attached to   *)
          leases,        (* etcd: workers whose lease for the lock is alive       *)
          pc,            (* where each process is                                 *)
          beating,       (* the processes whose heartbeat goroutine runs          *)
          op,            (* which of addIndexGroup ("add"), subIndexGroup ("sub") *)
                         (* and CountIndexGroup ("count") the process is in       *)
          count,         (* its local count                                       *)
          starts,        (* history: workers started                              *)
          upsets         (* history: what has happened that the counting cannot   *)
                         (* cope with                                             *)

etcd == <<keys, shards, lock, leases>>
vars == <<etcd, pc, beating, op, count, starts, upsets>>

(* Between acquiring the lock and releasing it.                                 *)
Section == {"read", "write", "release"}
Serving == {"registered", "serving"}
Upset   == {"lock expiry", "overlap", "fault"}

TypeOK ==
  /\ keys \subseteq Worker
  /\ shards \in Nat
  /\ lock \in Worker \cup {None, Orphan}
  /\ leases \subseteq Worker
  /\ pc \in [Worker -> {"down", "register", "check", "unregister", "checkEmpty",
                        "grant", "acquire", "revoke"} \cup Serving \cup Section]
  /\ beating \subseteq Worker
  /\ op \in [Worker -> {"add", "sub", "count"}]
  /\ count \in [Worker -> Nat]
  /\ starts \in 0 .. MaxStarts
  /\ upsets \subseteq Upset

(* The keys that the prefix of a worker's group selects.  (With the prefix not  *)
(* ended by "/" this is right for up to ten groups: group-1 selects group-10.)  *)
KeysOfGroup(w) == {v \in keys : GroupOf[v] = GroupOf[w]}

(* Another worker of the group is registering or closing.                       *)
Overlaps(w) == \E v \in Worker \ {w} : GroupOf[v] = GroupOf[w] /\ pc[v] \notin {"down"} \cup Serving
Upsetting(w) == IF Overlaps(w) THEN upsets \cup {"overlap"} ELSE upsets

(* Register ends by starting the heartbeat; the end of the process stops it.    *)
Goto(w, label) ==
  /\ pc' = [pc EXCEPT ![w] = label]
  /\ beating' = CASE label = "registered" -> beating \cup {w}
                  [] label = "down" -> beating \ {w}
                  [] OTHER -> beating

------------------------------------------------------------------------------
Init ==
  /\ keys = {} /\ shards = 0 /\ lock = None /\ leases = {}
  /\ pc = [w \in Worker |-> "down"] /\ beating = {}
  /\ op = [w \in Worker |-> "add"]
  /\ count = [w \in Worker |-> 0]
  /\ starts = 0 /\ upsets = {}

Start(w) ==
  /\ pc[w] = "down" /\ starts < MaxStarts
  /\ starts' = starts + 1
  /\ upsets' = Upsetting(w)
  /\ Goto(w, "register")
  /\ UNCHANGED <<etcd, op, count>>

(* Hub.Register: the service key is put with a fresh lease.                     *)
Register(w) ==
  /\ pc[w] = "register"
  /\ keys' = keys \cup {w}
  /\ Goto(w, "check")
  /\ UNCHANGED <<shards, lock, leases, op, count, starts, upsets>>

(* The process calls addIndexGroup, subIndexGroup or CountIndexGroup, which     *)
(* first asks for a lease its lock will hang on.                                *)
Enter(w, o) == Goto(w, "grant") /\ op' = [op EXCEPT ![w] = o]

(* The first worker of a group adds the group to the count.                     *)
Check(w) ==
  /\ pc[w] = "check"
  /\ IF Cardinality(KeysOfGroup(w)) = 1
       THEN Enter(w, "add")
       ELSE Goto(w, "registered") /\ UNCHANGED op
  /\ UNCHANGED <<etcd, count, starts, upsets>>

(* The worker loads its index and serves, or rebuilds it and first asks for the *)
(* number of groups.                                                            *)
Serve(w) ==
  /\ pc[w] = "registered"
  /\ Goto(w, "serving")
  /\ UNCHANGED <<etcd, op, count, starts, upsets>>

Rebuild(w) ==
  /\ pc[w] = "registered"
  /\ Enter(w, "count")
  /\ UNCHANGED <<etcd, count, starts, upsets>>

(* A heartbeat registers anew with a new lease.  Nothing stops the goroutine    *)
(* before Hub.Close, so it may put the key back that UnRegister deleted.        *)
Closing(w) == pc[w] = "checkEmpty" \/ op[w] = "sub"

Heartbeat(w) ==
  /\ w \in beating
  /\ keys' = keys \cup {w}
  /\ upsets' = IF Closing(w) THEN upsets \cup {"fault"} ELSE upsets
  /\ UNCHANGED <<shards, lock, leases, pc, beating, op, count, starts>>

(* Close: the worker unregisters; the last of its group takes it off the count. *)
Close(w) ==
  /\ pc[w] \in Serving
  /\ upsets' = Upsetting(w)
  /\ Goto(w, "unregister")
  /\ UNCHANGED <<etcd, op, count, starts>>

UnRegister(w) ==
  /\ pc[w] = "unregister"
  /\ keys' = keys \ {w}
  /\ Goto(w, "checkEmpty")
  /\ UNCHANGED <<shards, lock, leases, op, count, starts, upsets>>

(* A variant with a bug: the last but one worker already takes the group off.   *)
FaultyCheckEmpty(w) ==
  /\ pc[w] = "checkEmpty"
  /\ IF Cardinality(KeysOfGroup(w)) <= 1
       THEN Enter(w, "sub")
       ELSE Goto(w, "down") /\ UNCHANGED op
  /\ UNCHANGED <<etcd, count, starts, upsets>>

CheckEmpty(w) ==
  /\ pc[w] = "checkEmpty"
  /\ IF KeysOfGroup(w) = {}
       THEN Enter(w, "sub")
       ELSE Goto(w, "down") /\ UNCHANGED op
  /\ UNCHANGED <<etcd, count, starts, upsets>>

------------------------------------------------------------------------------
(* AcquireDistributedLock: etcd grants the lease.  The call has no deadline; if  *)
(* it fails, the process panics as in Crash.                                    *)
Grant(w) ==
  /\ pc[w] = "grant"
  /\ leases' = leases \cup {w}
  /\ Goto(w, "acquire")
  /\ UNCHANGED <<keys, shards, lock, op, count, starts, upsets>>

(* A variant with a bug: the put does not depend on the key not existing.       *)
FaultyAcquire(w) ==
  /\ pc[w] = "acquire"
  /\ w \in leases
  /\ lock' = w
  /\ Goto(w, "read")
  /\ UNCHANGED <<keys, shards, leases, op, count, starts, upsets>>

(* A transaction creates the key if it does not exist.  The put fails when the  *)
(* lease has run out while retrying.                                            *)
Acquire(w) ==
  /\ pc[w] = "acquire"
  /\ lock = None /\ w \in leases
  /\ lock' = w
  /\ Goto(w, "read")
  /\ UNCHANGED <<keys, shards, leases, op, count, starts, upsets>>

(* The same, but the answer is lost and the process goes on retrying.           *)
AcquireUnanswered(w) ==
  /\ pc[w] = "acquire"
  /\ lock = None /\ w \in leases
  /\ lock' = w
  /\ UNCHANGED <<keys, shards, leases, pc, beating, op, count, starts, upsets>>

(* The end of a process.                                                        *)
Down(w) ==
  /\ Goto(w, "down")
  /\ op' = [op EXCEPT ![w] = "add"]
  /\ count' = [count EXCEPT ![w] = 0]
  /\ upsets' = upsets \cup {"fault"}

(* A variant with a bug: the process retries without bound.                     *)
FaultyGiveUp(w) == FALSE

(* No retry has succeeded, because the lock was taken, the lease had run out or *)
(* the requests failed: the process asks etcd to revoke the lease, ...          *)
GiveUp(w) ==
  /\ pc[w] = "acquire"
  /\ Goto(w, "revoke")
  /\ UNCHANGED <<etcd, op, count, starts, upsets>>

(* ... again without a deadline, and when that ends, addIndexGroup,             *)
(* subIndexGroup and CountIndexGroup panic.  (If it fails: Crash.)              *)
Revoke(w) ==
  /\ pc[w] = "revoke"
  /\ Down(w)
  /\ lock' = IF lock = w THEN None ELSE lock
  /\ leases' = leases \ {w}
  /\ UNCHANGED <<keys, shards, starts>>

(* A variant with a bug: subIndexGroup counts down from a missing key.          *)
FaultyRead(w) ==
  /\ pc[w] = "read"
  /\ count' = [count EXCEPT ![w] = shards]
  /\ Goto(w, IF op[w] = "count" THEN "release" ELSE "write")
  /\ UNCHANGED <<etcd, op, starts, upsets>>

Read(w) ==
  /\ pc[w] = "read"
  /\ op[w] = "sub" => shards > 0
  /\ count' = [count EXCEPT ![w] = shards]
  /\ Goto(w, IF op[w] = "count" THEN "release" ELSE "write")
  /\ UNCHANGED <<etcd, op, starts, upsets>>

(* subIndexGroup indexes the empty res.Kvs: the deferred Release runs, then the *)
(* panic ends the process.                                                      *)
ReadNothing(w) ==
  /\ pc[w] = "read" /\ op[w] = "sub" /\ shards = 0
  /\ Down(w)
  /\ lock' = None
  /\ leases' = leases \ {w}
  /\ UNCHANGED <<keys, shards, starts>>

(* The put of count + 1, or of count - 1 or the delete when nothing is left.    *)
Updated(w) == IF op[w] = "add" THEN count[w] + 1 ELSE count[w] - 1

Write(w) ==
  /\ pc[w] = "write"
  /\ shards' = Updated(w)
  /\ Goto(w, "release")
  /\ UNCHANGED <<keys, lock, leases, op, count, starts, upsets>>

(* lock.Release deletes the key, whoever created it, and revokes the lease;     *)
(* when the lease has run out, that fails and Fatalf ends the process.          *)
Release(w) ==
  /\ pc[w] = "release"
  /\ lock' = None
  /\ leases' = leases \ {w}
  /\ Goto(w, IF w \notin leases \/ op[w] = "sub" THEN "down"
             ELSE IF op[w] = "add" THEN "registered" ELSE "serving")
  /\ op' = [op EXCEPT ![w] = "add"]
  /\ count' = [count EXCEPT ![w] = 0]
  /\ UNCHANGED <<keys, shards, starts, upsets>>

------------------------------------------------------------------------------
(* A request fails or is not answered in time, with or without its effect.  A   *)
(* failed Register makes the main program call Close; a failed Get before the   *)
(* lock is logged; a failed Get or Put under it gives the lock back; a failed   *)
(* UnRegister skips the rest of Close.                                          *)
Fail(w) ==
  /\ \/ /\ pc[w] = "register" /\ Goto(w, "unregister")
        /\ keys' \in {keys, keys \cup {w}} /\ UNCHANGED shards
     \/ /\ pc[w] = "check" /\ Goto(w, "registered")
        /\ UNCHANGED <<keys, shards>>
     \/ /\ pc[w] = "unregister" /\ Goto(w, "down")
        /\ keys' \in {keys, keys \ {w}} /\ UNCHANGED shards
     \/ /\ pc[w] = "checkEmpty" /\ Goto(w, "down")
        /\ UNCHANGED <<keys, shards>>
     \/ /\ pc[w] = "read" /\ Goto(w, "release")
        /\ UNCHANGED <<keys, shards>>
     \/ /\ pc[w] = "write" /\ Goto(w, "release")
        /\ shards' \in {shards, Updated(w)} /\ UNCHANGED keys
  /\ upsets' = upsets \cup {"fault"}
  /\ UNCHANGED <<lock, leases, op, count, starts>>

(* The process ends in the middle.  Nobody renews its lease for the lock, but   *)
(* the lease lives on for a while.                                              *)
Crash(w) ==
  /\ pc[w] # "down"
  /\ Down(w)
  /\ lock' = IF lock = w THEN Orphan ELSE lock
  /\ leases' = leases \ {w}
  /\ UNCHANGED <<keys, shards, starts>>

(* The two seconds of the lock's lease run out; etcd deletes the key with it.   *)
LockExpires(w) ==
  /\ w \in leases
  /\ leases' = leases \ {w}
  /\ lock' = IF lock = w THEN None ELSE lock
  /\ upsets' = IF pc[w] \in Section THEN upsets \cup {"lock expiry"} ELSE upsets
  /\ UNCHANGED <<keys, shards, pc, beating, op, count, starts>>

(* A variant with a bug: the lock is put without a lease.                       *)
FaultyOrphanExpires == FALSE

OrphanExpires ==
  /\ lock = Orphan
  /\ lock' = None
  /\ UNCHANGED <<keys, shards, leases, pc, beating, op, count, starts, upsets>>

(* A service key's lease runs out: its worker is gone, or late with heartbeats. *)
KeyExpires(w) ==
  /\ w \in keys
  /\ keys' = keys \ {w}
  /\ upsets' = IF pc[w] \in {"down", "register"} THEN upsets ELSE upsets \cup {"fault"}
  /\ UNCHANGED <<shards, lock, leases, pc, beating, op, count, starts>>

Run(w) ==
  \/ Register(w) \/ Check(w) \/ Serve(w) \/ UnRegister(w) \/ CheckEmpty(w)
  \/ Acquire(w) \/ GiveUp(w) \/ Read(w) \/ ReadNothing(w) \/ Write(w) \/ Release(w)

Next ==
  \/ \E w \in Worker :
       \/ Start(w) \/ Run(w) \/ Grant(w) \/ Revoke(w) \/ Rebuild(w) \/ Heartbeat(w)
       \/ Close(w) \/ AcquireUnanswered(w) \/ Fail(w) \/ Crash(w)
       \/ LockExpires(w) \/ KeyExpires(w)
  \/ OrphanExpires

Spec == Init /\ [][Next]_vars

(* Processes go on: the requests in Run have a deadline, those in Grant and      *)
(* Revoke have none.  The leases for the lock, which nobody renews, run out.    *)
FairSpec ==
  /\ Spec
  /\ \A w \in Worker : WF_vars(Run(w)) /\ WF_vars(LockExpires(w))
  /\ WF_vars(OrphanExpires)

------------------------------------------------------------------------------
(* Two processes are between acquiring and releasing the lock only after a      *)
(* lease ran out under its holder: crashes, orphaned locks, lost answers and    *)
(* failed requests do not break the mutual exclusion of addIndexGroup,          *)
(* subIndexGroup and CountIndexGroup.                                           *)
MutualExclusion ==
  "lock expiry" \notin upsets =>
    \A v, w \in Worker : pc[v] \in Section /\ pc[w] \in Section => v = w

(* No update of total-shards is lost: each write moves it by exactly one, as    *)
(* long as no lease runs out under its holder.                                  *)
NoLostUpdate ==
  [][\A w \in Worker : Write(w) /\ "lock expiry" \notin upsets =>
       shards' = IF op[w] = "add" THEN shards + 1 ELSE shards - 1]_vars

(* When every process serves or is down, total-shards is the number of groups   *)
(* with a worker, unless a worker crashed, a lease ran out early, a heartbeat   *)
(* put a key back during Close, two workers of one group registered or closed   *)
(* at the same time, or a request failed.                                       *)
Quiet == \A w \in Worker : pc[w] \in {"down"} \cup Serving
CountIsRight == shards = Cardinality({GroupOf[w] : w \in {v \in Worker : pc[v] \in Serving}})
ShardsCountGroups == Quiet /\ upsets = {} => CountIsRight

(* The same when workers of one group may also register at the same time: the   *)
(* comment on the check of len(res.Kvs) says that the count is 1 exactly when a *)
(* new group joins.                                                             *)
ShardsCountGroupsConcurrently == Quiet /\ upsets \subseteq {"overlap"} => CountIsRight

(* The lock is never held for ever: its holder releases it, gives up, or its    *)
(* lease runs out, also when the holder died.                                   *)
LockIsFreed == lock # None ~> lock = None

(* A worker that starts ends up registered or down, unless etcd leaves it        *)
(* waiting for ever for the answer to a Grant or a Revoke: neither a dead holder *)
(* of the lock nor a lost answer keeps it waiting.                              *)
AwaitsLease(w) == pc[w] \in {"grant", "revoke"}

RegistrationEnds ==
  \A w \in Worker :
    (pc[w] = "register" ~> pc[w] \in {"down"} \cup Serving) \/ <>[]AwaitsLease(w)
==============================================================================
