# ElectricSearch: specifications, model checking and proofs

TLA+ modules of the search engine in `src/`, the TLC runs that check them on
small instances, and theorems about them that TLAPS proves for every value of
their constants.  Paths below are relative to `src/`.

    tlc -workers 2 -config ServiceHub.cfg MCServiceHub      a run
    tlapm ServiceHubProofs.tla                              a proof

`PROJECT.json` lists the runs, the code lines behind each definition, the
hazards, and for every property a definition whose faulty variant (an operator
named `Faulty...` next to it, used nowhere in the specification) makes TLC
report that property.

## 1. The system

An *index worker* is a gRPC server that keeps one shard of the documents.
Workers are configured into *groups*; the workers of one group hold the same
shard.  A *web server* takes queries and writes through the *Sentinel*, which
finds the workers in etcd.

    web server ── Sentinel ──(gRPC)──> IndexServiceWorker ── Indexer ─┬─ forward index (badger or bolt, durable)
                    │                          │                      ├─ reverse index (skip lists, in memory)
               ServiceHubProxy            ServiceHub                  └─ snowflake ids
                    └────────── etcd ──────────┘
              service keys with leases, total-shards, group-lock

| component | state | operations | hard behaviour | correct when | module |
|---|---|---|---|---|---|
| **Indexer** `service/indexer.go` | forward index (file), reverse index (memory) | AddDoc, DeleteDoc, LoadFromIndexFile, Search, Count, Close | gRPC handlers run concurrently and share no lock; the process ends between two steps; the two indexes are written one after the other | the two indexes agree; an acknowledged document is stored | `Indexer` |
| **Id generator** `util/snowflake.go` | timestamp, number, worker id; a mutex | GetId | numbers used up within a millisecond; clock set back; restart | ids never repeat; the spin under the mutex ends | `Snowflake`, `UniqueIds` |
| **Registry and group counter** `service/service_hub.go`, `service/index_service.go`, `etcd/etcd_distributed_lock.go` | etcd: service keys, `total-shards`, `group-lock`, leases; in each process the heartbeat | Register, UnRegister, heartbeat, addIndexGroup, subIndexGroup, CountIndexGroup, Acquire, Release | lost answers, crashes, leases that run out early, counts read before the lock is taken | the lock excludes; no update of the counter is lost; the counter is the number of groups; nobody waits for ever, unless for etcd | `ServiceHub` |
| **Reverse index search** `internal/reverse_index`, `types/term_query.go` | skip lists under striped locks | Search, IntersectionOfSkipList, UnionOfSkipList, FilterByBits; And and Or of the client | a skip list is walked without its lock while handlers change it; cursors over several lists; documents are read after the lists | the result of a query is what set operations on the postings give | `Intersection`, `Search` |
| **ServiceHubProxy** `service/hub_proxy.go` | endpoint cache, watched groups, rate limiter | GetServiceEndpoints, GetServiceEndpoint, the watch's goroutine | check-then-store; a watch whose prefix matches no key; one getter reads the cache, the other does not | a cached list differs from etcd by later changes only | `HubProxy` |
| **Load balancer** `service/load_balance.go` | a counter | Take | the counter is incremented atomically and read again without | what it hands out is a worker of the group | `HubProxy` |
| **Sentinel** `service/distribute.go` | connection pool; per call: channels, wait groups, a context | AddDoc, DeleteDoc, Search, Count, Close | producers, channels and consumers per query; replicas that fail one by one; connections replaced under one another; `total-shards` changing between calls | a query ends, unless etcd never confirms a watch, with each document once; replicas of a group agree; no RPC loses its connection | `Sentinel` |
| **gRPC messages** `service/index.pb.go`, `types/*.pb.go`, `demo/infrastructure/video.pb.go` | | Marshal, Size, Unmarshal, skip of nine messages; the service's handlers | lengths and varints cut off; fields of a later version; sizes computed apart from the bytes | what is sent is what is received | `Wire`, `Query` |
| **Forward index stores** `internal/kvdb` | a library's files | Get, Set, Delete, BatchGet, iterate, Close | a snapshot dropped after a failed read | one transaction per call | inside `Indexer` and `Search` |
| **Concurrent hash map** `util/concurrent_hash_map.go` | segments with a lock each | Get, Set | | | not modelled: one lock per access, and the reverse index adds the keyword's own |
| **Demo search pipeline** `demo/internal` | | Recall, filters, HTTP handlers | goroutines sending on one channel | the recallers search for what the user asked | the recallers' queries in `Search`; the rest not modelled, see section 7 |
| **Start-up, configuration, logging** | | | | | not modelled: no state after start-up |

How they interact: a worker's `main` creates the Indexer and calls
`Register`, which writes the service key, possibly counts its group into
`total-shards`, and starts the heartbeat; only then does it load or rebuild the
index and serve.  At SIGTERM `Close` unregisters, possibly counts the group off,
and closes the stores.  The Sentinel reads `total-shards` to choose the group of
a document (a hash of its id modulo the count) and to know how many groups to
ask; so a wrong count loses whole groups from every search.

## 2. Modules

Each component has a module with its state as variables and one action per
atomic step, an `MC...` module and `.cfg` files with small instances, and most
have a `...Proofs` module.

    UniqueIds <-refines- Snowflake        HubProxy <-extends, refines- Sentinel
    ServiceHub   Intersection             Indexer <-extends, refines- Search <-extends, refines- Query -extends-> Wire

### Indexer

One worker.  `Handler` are the goroutines of gRPC calls, `Main` the goroutine
that rebuilds.  The atomic steps are one transaction of the store, one skip-list
operation under its keyword's lock, and one GetId:

| action | code |
|---|---|
| `HandleAddDoc`, `HandleDeleteDoc` | the call arrives; a blank id returns 0 at once |
| `Get`, `Unpost`, `ForwardDelete` | DeleteDoc, which AddDoc runs first: read the stored document, remove its postings keyword by keyword, delete the key |
| `GetId`, `ForwardSet`, `Post`, `Acknowledge` | the rest of AddDoc: new integer id, store, post keyword by keyword, answer 1 |
| `Load` / `StartRebuild`, `BuildRow`, `FinishRebuild` | start without or with `rebuild-index` |
| `Close`, `Exit` | the store is closed while the server still runs; the process ends, anywhere |

`forward` survives `Exit`, `postings` does not.  AddDoc keys the store by the
trimmed id but stores and posts the id as written; `TrimSpace` is a parameter so
that this difference is in the model.  A closed store answers errors, which the
code drops or takes for "not found", and so does the model.

Abstractions: ids from GetId are taken to be fresh (that is what `UniqueIds`
says and `Snowflake` examines); a document is its id, integer id and keywords;
an error of an open store is not modelled; `Close` happens to a process that
serves, while SIGTERM (`index_worker.go:48`) may also close the store of one that
still loads or rebuilds its index; a row of a rebuild may or may not
belong to this group; documents and postings are a function and a set.

### Snowflake and UniqueIds

An id is the triple <<time, worker, number>>, whose bit fields the code packs
into 64 bits.  The one field that can outgrow its bits is the number: after the
wait for the next millisecond the code resets neither number nor timestamp, and
`Id` models what the extra bit does to the worker id.  `Tick`, `StepBack`
and `Restart` are the environment.  `UniqueIds` is the abstract promise: every
id is new, until a premise is lost; `Snowflake` implements it with the premise
"the clock was never set back, and no odd worker id ever used up a millisecond".

### ServiceHub

All workers against one etcd.  Each action is one etcd request with the code up
to the next one: `Register`, `Check` (the count of the group's keys),
`Grant`, `Acquire`/`AcquireUnanswered`/`GiveUp`, `Revoke`, `Read`/`ReadNothing`,
`Write`, `Release`, `UnRegister`, `CheckEmpty`, `Serve`/`Rebuild`, `Heartbeat`.
`addIndexGroup`, `subIndexGroup` and `CountIndexGroup` share the labels from
`grant` on, and `op` tells them apart.  AcquireDistributedLock asks for the
lock's lease (`Grant`), retries a bounded number of times, and then gives the
lease back (`GiveUp`, `Revoke`) before its caller panics.  `Grant` and `Revoke`
are the two requests without a deadline, so each is a step of its own that may
never come.  `Fail` is a request that
fails with or without its effect; `Crash`, `LockExpires`, `OrphanExpires` and
`KeyExpires` are the leases' part.  A lock whose holder died belongs to
`Orphan`.

`upsets` is a history variable.  The counter is right only in the absence of
certain events, and `upsets` records those that happened: a lease of two
seconds that ran out under a holder whose deadline is three ("lock expiry"),
two workers of one group registering or closing at the same time ("overlap"),
and "fault": a crash (only Close counts down), a failed request, a service key
that expired under its living worker, a heartbeat that put a key back during
Close.  Each property names the upsets it excuses, and excuses no other.

Abstractions: a failed Get is the same whatever the error; a group's prefix is
taken to select that group (with more than ten groups `group-1` also selects
`group-10`); a SIGTERM that arrives while Register still runs is not modelled.

### Intersection

One call of IntersectionOfSkipList, one action per turn of its loop.  A skip
list is the set of its keys; `Front` and `Next` are the least key and the least
key beyond.  `Match` is the turn in which all cursors are at the maximum,
`CatchUp` the turn in which the others follow it, and `Advance` returns at the
first list that ends.

### HubProxy

The web server's view of the workers: the endpoint cache in front of
ServiceHub's reads of etcd, and RoundRobin.Take.  The first caller of a group
registers a watch (`StartWatch`) and waits until etcd confirms it (`Watch`),
without a deadline; the others do not wait (`Load`).  Then comes the lookup in the
cache (`Lookup`), `Fetch` (one Get), `Store` (a list that is not empty goes
into the cache), `FetchOne` (GetServiceEndpoint, the embedded hub's own method,
reads etcd past the cache), `Add` and `ReadAcc` (the counter is added to
atomically and then read without).  `Join` and `Leave` are etcd.

The watch has no effect but this wait: it is for keys that begin with
`/electric-search` and the index name, and every service key has a slash between
the two, so its goroutine never gets an event.  The limiter has no effect at all:
a request over the limit is logged and served.

The history variables `changed` (workers that came or left) and `failed` (a read
of etcd failed) say what the properties excuse.

### Sentinel

Extends `HubProxy`.  A caller is a goroutine inside Search, Count, AddDoc or
DeleteDoc; a `Goroutine` is what it starts, one per group for a query and one per
worker for a write.

| action | code |
|---|---|
| `BeginQuery`, `BeginWrite` | the call, with the read of `total-shards` (0 when that fails: a query returns nothing, a write panics on the modulo) |
| `Find`, `AwaitWatch`, `FindOne` | the getters of `HubProxy`, step by step; the wait for a watch is a step of its own, because no deadline ends it |
| `SkipGroup`, `AskGroup` | a query's loop over the groups; a group that is skipped is counted off the wait group |
| `NoReplica`, `AskReplicas` | a write's list of workers |
| `Check`, `CloseStale`, `Dial` | GetGrpcConn: look in the pool, close what is not ready, connect anew |
| `Connect`, `ServeQuery`, `ServeWrite`, `Fail`, `Break` | the RPC and its outcomes; a failed query ends the web server (Fatalf), a failed write is logged |
| `Send`, `Receive`, `CloseChannels`, `ReturnQuery` | producers, consumers, the closer (when producerWg.Wait returns), the end of wg.Wait |
| `ReturnWrite` | the end of AddDoc or DeleteDoc, when wg.Wait returns |
| `Expire`, `Crash`, `Resize`, `Register` | the context's five seconds; a worker dies; other groups come and go; service keys come and go |

A worker is the set of documents it holds, and documents are names: what a
worker does with one is `Indexer`'s matter.  `upsets` records a fault, an expired
query, two goroutines at one endpoint that is not connected ("shared"), two
writes of one document at the same time ("overlap") and a read of
`total-shards` that gave 0 or failed ("nogroup").  `ReplicasAgree` excuses "fault",
"overlap", "shared" and workers that came or left (`Steady`), since after each of
them a replica may have missed a write that the code only logs.  `HasCause` lists
what the end of the web server is put down to: "fault", "expired", "shared",
"nogroup", workers that came or left and failed reads of etcd, but not "overlap".
`AnswerIsExact` excuses all of them.

`pending` is the counter of a call's WaitGroup: the number of groups or workers
at first, one less for each group that is skipped and each goroutine that ends
(`Done`).  The closer of a query and the end of a write look at this
counter and at nothing else; that the goroutines have then ended is
`ClosedAfterProducers`.

The history variables `known` and `quiet` record what the last
write of each document was, and what was so during the whole of a query.

Abstractions: a goroutine whose RPC is done holds no connection; the state of a
gRPC connection is idle, ready or closed; the answers of a worker come in any
order.

### Search

Extends `Indexer`: one search at a time inside the worker, beside the writers.
The recursion of `search` over the query is a stack of calls, `stack`, each with
its query and the lists it has got so far:

| action | code |
|---|---|
| `CallSearch` | the handler is called with the request |
| `Descend` | search is called, for the whole query or the next part of the caller's; for a keyword it looks up the skip list and its first element |
| `Visit` | one turn of the walk, which takes no lock: the element passes the bit filter or not; one that was removed meanwhile has no next |
| `ReturnPart`, `ReturnAll` | search returns its list, or the intersection or union of those of its parts, to its caller, or to Search |
| `BatchGet` | the documents are read from one snapshot, up to a read that fails, after which there is a new snapshot |
| `Respond`, `Finish` | the answer; the client is done with it |
| `CallAddDoc`, `CallDeleteDoc`, `Lifecycle` | the writers and the process, with the steps of `Indexer` |

What a client means is an expression; `Build` translates it with NewTermQuery,
And and Or as the client does, and `Means` says which documents should be in the
answer.  The queries of the demo's two recallers are among them.  The functions
over expressions and queries (`Blank`, `Means`, `NonEmpty`) are recursive
functions, not recursive operators, so that theorems can speak of them.  Expressions
and queries are finite trees of any size; `ExprAssumption` says so by their
induction principle.

The history variables `touched` (ids a call worked on during the search) and
`cut` (a walk that ended early because its element was removed) and the variable
`failed` say what the property excuses.

Abstractions: lists are combined as sets of their elements (`Intersection` is
the loop itself); a document's bits are those its id has; documents have no
keyword with an empty word, which AddDoc would post under the empty key
(`types/doc.go`) and `SearchAssumption` excludes.

### Query and Wire

`Query` extends `Search` with the messages: `SendSearch`, `SendDocument` and
`SendDocId` are the client's call, encoded, and the handler's, with what it decodes;
`SendAnswer` and `WriteStep` send the documents and the counts; `CallCount` is
Count.  `ImplementsSearch` says that with all that the worker does what `Search`
does on the requests the clients have in mind, its fairness included.  `Query`'s
run checks the properties of both modules.

`Wire` is the generated code.  Those functions repeat one pattern for each field
of each message; the module has the fields as tables and the pattern once:
`Marshal`, `Size`, and `Unmarshal` with the readers of varints, tags, lengths,
packed lists, groups and unknown fields, over sequences of bytes.

Abstractions: a negative length is a number too large for any buffer; a handler
is given what `Unmarshal` makes of the request, and its state ends with its
answer.

## 3. Runs

| run | shows | bounds |
|---|---|---|
| `Indexer_serial` | `StoredIsFound`, `PostedIsStored`, `AcknowledgedIsStored` when callers do not overlap calls on one id | two handlers, two ids and a blank one, two keyword lists sharing a keyword, one row to rebuild, five integer ids |
| `Indexer_overlap` | `StoredIsPosted` when they do, with ids that differ by blanks and keyword lists that repeat a keyword | two handlers, four integer ids |
| `Indexer_overlap_stale` | a violation of `PostedIsStored`, see Findings | as above |
| `Snowflake` | `IssuesUniqueIds` (refinement), `WaitEnds` | two callers, worker ids of both parities, two numbers per millisecond, four milliseconds, one step back |
| `Snowflake_overflow` | a violation of `IdsIncrease` | the odd worker id, no step back |
| `ServiceHub` | `MutualExclusion`, `NoLostUpdate`, `ShardsCountGroups` | two workers of one group and one of another, three starts |
| `ServiceHub_live` | `LockIsFreed`, and `RegistrationEnds` while etcd answers Grant and Revoke | the same workers, two starts |
| `ServiceHub_concurrent` | a violation of `ShardsCountGroupsConcurrently` | as `ServiceHub` |
| `Intersection` | `ResultIsCommon`, `Returns` | all choices of up to three lists over four keys, nil lists included |
| `Sentinel` | `CacheIsCurrent`, `PickIsOfGroup`, `ClosedAfterProducers`, `AnswerIsExact`, `ReplicasAgree`, `ConnectionsKept`, `ExitHasCause`, `QueriesEnd`, `UsesHubProxy` (refinement) | two callers with two calls, three workers in two groups, one of two replicas, channels of one place, one upset, no group or two counted |
| `Sentinel_empty_group` | a violation of `EmptyGroupsAreSkipped` | the same |
| `Query` | `SearchIsExact`, `WireIsExact`, `CutIsRefused`, `LaterIsUnderstood`, `SearchEnds`, `ImplementsSearch` (refinement) | one writer, two ids and a blank one, two keywords, three integer ids, five searches with and without flags, one failed read, starts that load the index |

Why the bounds are enough.  Two handlers are what an interleaving of AddDocs
needs, and the third integer id of one key lets a document be replaced twice;
the invariants speak of one key at a time.  Two numbers per millisecond reach
the overflow in two calls; the millisecond after it and one more give the
repeated id; both parities decide what the extra bit does.  Two workers of one
group and one of another give a group's second worker, a second group, and
three contenders for the lock; three starts let a worker come back after a crash
while the others run.  With three lists, one cursor can be behind, one at the
maximum, and one in between.  In `Sentinel`, two goroutines meet at a
connection and two callers in the cache; a channel of one place makes producers
wait, where the code's 300 would take 301 documents; the group with two replicas
is where a write can be done by half, and the group with one worker becomes
empty; one upset is one change, failed read, fault or crash anywhere, and the
theorems lift the bound where an order of several could matter.  In `Query`,
three integer ids let a document be overwritten while the search stands on its
old element and again ahead of it; the five searches are a term, a disjunction
over a conjunction, the recallers' two and one that asks for nothing, with flags
in the first, a middle and the last digit.  A document's numbers take several
bytes, one of them is negative, and lengths are cut at every byte.  The theorems
below remove the bounds for most of the properties.

Deadlock is checked for `Indexer`, whose process can always start again.  It is
switched off where behaviours end: at `MaxTime` in `Snowflake`, after
`MaxStarts` in `ServiceHub` when all workers are down, when the function of
`Intersection` has returned, when `MaxCalls` calls of `Sentinel` have returned or
its process has ended, and when the integer ids of `Query` are used up.

`ServiceHub` uses the symmetry of the two workers configured alike; the liveness
runs use none.

Fairness.  `ServiceHub`'s FairSpec: each process takes its next step if it can
(goroutines are scheduled, and a request has a deadline of three seconds, after
which the code goes on), with the exception of `Grant` and `Revoke`, which
`etcd/etcd_distributed_lock.go:25` and `:51` call with `context.Background()` and
of which nothing is assumed; `RegistrationEnds` therefore says that a worker
ends up registered or down unless it waits for one of these two answers for
ever.  Giving up is always a step of a process that waits for the
lock, because the code retries a bounded number of times; and leases that
nobody renews run out.  Nothing is assumed of heartbeats, starts, closes, or of
requests succeeding.  `Snowflake`'s: the clock goes on (it may still be set
back `MaxBacks` times) and a spinning goroutine is scheduled.  `Intersection`'s:
the function runs on.  `Sentinel`'s: the caller of a query with its closer,
consumers and producers goes on if it can, and its context runs out.  The wait
for a watch (`AwaitWatch`) is not among these steps: `service/hub_proxy.go:56` calls
Watch with `context.Background()`, outside the query's five seconds, and
`QueriesEnd` says that every query ends unless it stands there.  Nothing is
assumed of the workers, so an RPC may stay unanswered, which is why the
context is needed; and nothing of writes, which have no deadline and can
wait for ever.  `Search`'s and `Query`'s: the goroutine of the search is
scheduled, and its client takes the answer.  That its walk ends rests on the
bound on integer ids, which stands for writers that pause: a writer that went on for ever ahead of the cursor could keep it walking.

## 4. Proofs

Every theorem holds for all values of the constants that satisfy the `ASSUME`
of the module.

- **IndexerProofs**: `TypeCorrect`, `StoredIsPostedAlways`, `StoredIsFoundAlways`
  (ids without blanks), `PostedIsStoredAlways` and `AcknowledgedIsStoredAlways`
  (callers that do not overlap calls on one id).  The properties speak of keys
  nobody works on, so the inductive invariants say what holds at each label of
  a call: how far a removal or a posting loop has come, and that every integer
  id belongs to one AddDoc.  `StoredIsPosted` rests on the order of the steps:
  postings go before the stored document and come after it, so a document that
  is stored is posted or has a thread that still will post it.  `PostedIsStored`
  needs that the call at work on a key is the only one.
- **SnowflakeProofs**: `TypeCorrect` and `Refinement`, that Snowflake implements
  UniqueIds.  The invariant relates the ids handed out to the clock: all are
  below the next one that can come, except while the premise is lost, and a
  goroutine spins only after an overflow.
- **ServiceHubProofs**: `TypeCorrect`, `MutualExclusionHolds`, `NoUpdateIsLost`.
  The invariant: a process between acquiring and releasing owns the lock, and
  the count it has read is the counter's value, until a lease runs out under its
  holder; a process about to count down has read a positive number.
  And `CounterCountsGroups`, that `total-shards` is the
  number of groups with a worker as long as nothing went wrong, for every finite
  set of workers in any number of groups.  The property speaks of states in which
  all processes serve, so the invariant `Counts` says what each label means for
  the service keys and the counter: a group is counted from the write of the
  registering worker to the write of the closing one, at most one worker of a
  group registers or closes, and the one that adds or subtracts its group has no
  other worker beside it.  Each write then moves the cardinality of
  the set of counted groups by one, as it moves the counter.
- **IntersectionProofs**: `TypeCorrect` and `ResultIsCommonAlways`.  The loop
  invariant: the result holds common keys only, and each common key that is not
  in it is under or beyond every cursor.
- **HubProxyProofs**: `CacheFollowsEtcd`, that what a caller reads or takes from
  the cache is what etcd has under the group's prefix but for workers that came or left since,
  and `PicksAreOfGroup`, that RoundRobin hands out a member of it.  `HubInv` follows the list from
  the read (`ListIsCurrent`) into the cache (`GroupIsCached`, no empty list is
  stored) and to the index into it (`IndexedIsNonempty`, `PickIsCurrent`); the
  counter may be anything at all in between.
- **SentinelProofs**: `SentinelUsesHubProxy` (a caller of Sentinel takes
  HubProxy's steps or none; `SentinelFindsWorkers` draws the conclusion),
  `SentinelClosesLate`, `SentinelKeepsConnections` and `SentinelExitHasCause`,
  for any number of callers, goroutines, workers, replicas, connections and
  upsets.  The invariant `Inv` adds to `HubInv` the place of a query's loop
  (`LoopIsInGroup`), the count of its WaitGroup (`WaitGroups`: `pending` is the number
  of groups and goroutines still waited for, so at zero none is left,
  `NobodyIsWaitedFor`), what a pool entry and a goroutine's connection are at each
  label (`PoolIsCurrent`: until "shared" is recorded, the goroutine that replaces
  a connection is alone at its endpoint), and for each way to end the web server
  what has made it possible (`Causes`).
- **SentinelAnswers**: what the calls of Sentinel do with documents, on top of
  SentinelProofs and in three layers.
  `SentinelTypes` is all of `TypeOK`.  Its invariant `Slots` says which goroutines
  a caller has at each label and what they hold: none outside a call, for a query
  those of the groups its loop has passed, for a write one per worker once the
  loop is over; an answer only after the RPC, in the form its method gives it;
  and a write has counted no more changes than replicas have answered.
  `SentinelReplicasAgree` rests on `Agreement`, which holds until `Steady` is lost,
  whatever queries, failed reads and calls without a group do meanwhile: a document
  is on workers of its group only and one call at a time writes it; the replicas agree until that call starts its goroutines, of which
  there is one for each replica, and those that are done have left their replica
  as it should be; `known` and `quiet` say what is so in etcd and in the workers.
  `SentinelAnswersExactly` rests on `Gathering`, which follows the answer of each
  group: a document that is there throughout is nowhere before its group has
  answered, then in the producer's rest or in the channel, each without
  repetition and disjoint, or received once; a document that is not there is in
  none of these; a group's number is on its way or added, and the total is the
  number of documents of the groups counted so far.  At the return the producers
  have ended with nothing left to send, since the context has not expired, and
  the channels are empty, so all of it has been received.
  Its hypothesis `NamesApart`, that no group's name begins with that of another,
  holds for up to ten groups (`TenGroupsApart`), and it is needed: a worker of
  `group-10` has a key that begins with `group-1`, so it may be asked in the
  place of a worker of group 1, and again for its own group.

- **SearchProofs**: what a search answers, for every query, every set of ids and
  keywords, any number of writers and any number of searches one after the other.
  - `QueriesMeanWhatIsAsked`: the query built with NewTermQuery, And and Or
    matches exactly the documents its client means, parts that ask for nothing
    included.  `Matching` says what a query matches.  Both sides are recursive, and
    the library's induction theorems are out of the provers' reach, so the proof
    makes its own: a function on sets that keeps their order has a fixed point
    (`FixedPoint`), which gives `Means`, `Blank` and `Matching` the values their
    recursion says (`BlankUnfolds`, `MeansUnfolds`, `MatchingUnfolds`), and the
    set of expressions for which the theorem holds contains each expression
    whose parts it contains, so it is all of them (`ExprAssumption`).
  - `SearchTypeCorrect` rests on `WalkInv`: each call on the stack is for the
    next part of its caller's query, it has got no more lists than its query has
    parts, only the innermost may walk, and its cursor is on an element of its
    keyword; whatever the writers do.
  - `SearchImplementsIndexer`: beside searches the Indexer takes its own steps,
    so IndexerProofs holds there, too.
  - `SearchAnswersExactly` rests on `ExactInv`, which speaks of one document
    that no call works on during the search, and says of every place of the
    search what it knows of that document: each list on the stack has an element
    of it exactly when the document matches the query the list was made for
    (`ListIsRight`); a walk has met it, or is still before it (`WalkIsRight`); after
    the walks it is among the keys or the documents (`AnswerIsRight`).  Elements of
    other documents may be stale, but never carry its integer id
    (`Faithful`), which is why intersection and union, which compare integer
    ids, are right about it (`IntersectionIsRight`, `UnionIsRight`).  That the
    document's own postings stay in the lists, and are where a walk will pass, is
    `IndexIsRight`, which IndexerProofs gives.
    Its hypotheses: callers do not overlap calls on one id, and ids carry no blanks
    around them.  Without the first, stale postings are found
    (`Indexer_overlap_stale`); without the second, the keys a search reads are not
    those the documents are stored under.

Model-checked only:
- `LockIsFreed`, `RegistrationEnds`, `WaitEnds`, `Returns`, `QueriesEnd` and
  `SearchEnds`: liveness is outside the prover's reach;
- `WireIsExact`, `CutIsRefused`, `LaterIsUnderstood` and `ImplementsSearch`: what a
  decoder makes of the bytes of any message is an induction over data, and `Wire`
  has recursive operators for messages within messages, which the prover
  does not take.  Where `ImplementsSearch` holds, the theorems of SearchProofs
  speak of `Query` as well.

## 5. Findings

- `Indexer_overlap_stale`: two overlapping AddDocs of one id both find nothing
  to delete, both store and both post.  The document stored first is
  overwritten, its postings stay: the id is found under keywords the document
  does not have, until the process ends.  `service/indexer.go:64` and
  `service/index_service.go:155` promise that the old document is deleted or
  overwritten.
- `Snowflake_overflow`: `service/indexer.go:72` promises unique increasing ids.
  With an odd worker id, the call that used up a millisecond's 4096 numbers
  returns the id that the first call of the next millisecond returns again.
- `ServiceHub_concurrent`: `service/index_service.go:138` says that a new group
  joins exactly when the number of its workers is 1.  Two workers of a new group
  that start together both put their keys before either counts, both see 2, and
  the group is never counted.
- `Sentinel_empty_group`: `service/distribute.go:151` says that a query skips
  empty groups.  The watch of `service/hub_proxy.go:55` has a prefix that no
  service key begins with, so a list once cached is never refreshed, against
  `service/hub_proxy.go:27`.  After the last worker of a group has left, the
  cached list still says there is one, the group is asked, GetServiceEndpoint
  finds nobody in etcd and returns the empty string, and the RPC that fails ends
  the web server (Fatalf).

## 6. Order of the modules

The modules were written from the shard outwards: what one worker keeps
(`Indexer`, `Snowflake`, `Intersection`), how workers are counted
(`ServiceHub`), how they are found (`HubProxy`), how they are asked (`Sentinel`,
which extends it), and last the request itself, on the wire and inside the worker
(`Search`, which extends `Indexer`, and `Wire` and `Query`, which puts
the messages around it).  Each was checked first and
proved about after, invariants of the proofs being tried with TLC on the small
instance before.

The extension that would be worth most is `Sentinel` with the workers of
`Search` in the place of its sets of documents, which is too large an instance
for TLC now.

## 7. Not modelled

- **SIGTERM during Register** (`service/service_hub.go`, `index_worker.go`): Close
  would run beside Register in one process, two goroutines inside the hub.
  `ServiceHub` gives a process one thread.
- **Sentinel.Close** (`service/distribute.go`): called by `main` on the way to
  os.Exit only.
- **The watch's events and the rate limiter** (`service/hub_proxy.go`): without
  effect on what a caller gets, as the header of `HubProxy` explains.  The call that
  starts the watch, which a caller waits for, is modelled.
- **Close while the index is loaded or rebuilt** (`index_worker.go:48`): `Indexer`
  closes a process that serves, and ends one anywhere.
- **RandomSelect** (`service/load_balance.go`): keeps no state, and is not used.
- **Groups whose names begin alike** (`service/service_hub.go:97`): a prefix read
  of group-1 also finds group-10.  `HubProxy` reads with the prefix as in the
  code and its theorems hold for any number of groups, as do those of `Sentinel`
  but for `SentinelAnswersExactly`; `ServiceHub` counts the workers of a group by
  its name, which is the same for at most ten groups.
- **Bolt, and operations of the stores nobody calls** (Has, BatchSet,
  BatchDelete): the workers of the repository run on badger, with the calls that
  `Indexer`, `Search` and `Query` have.  What the libraries do inside is external.
- **Concurrent hash map** (`util/concurrent_hash_map.go`): one lock around each
  map access; the reverse index adds the lock of the keyword.
- **Recall's channel, filters and HTTP handlers** (`demo/internal`): the collector
  drains the channel from the start and ends after the recallers; the rest is
  sequential and keeps no state.
- **Generated code beside the codec**: getters, descriptors, registration; and
  what a handler does with a missing sub-message, which no client sends.
- **Start-up, configuration and logging**: no state after start-up; the deadlines
  of `context_tool.go` appear as requests that fail.
