------------------------------- MODULE Indexer -------------------------------
(* One index worker's Indexer (service/indexer.go): a durable forward index    *)
(* (a key-value store, key -> document) and an in-memory reverse index (one    *)
(* skip list of integer ids per keyword), written one after the other by       *)
(* concurrent gRPC handlers that share no lock.  Each step below is one call    *)
(* that is atomic in the code: one transaction of the store, one skip-list      *)
(* operation under its keyword's striped lock, or one GetId under its mutex.    *)
EXTENDS Naturals, Sequences, FiniteSets

CONSTANTS Handler,        (* the gRPC handler goroutines of the worker            *)
          Main,           (* the main goroutine, which rebuilds the index         *)
          Id,             (* document ids as the callers write them               *)
          TrimSpace,      (* strings.TrimSpace on Id                              *)
          EmptyId,        (* the id that is empty                                 *)
          Keyword,        (* keys of the reverse index: keyword.ToString()        *)
          KeywordLists,   (* the keyword lists a document may carry               *)
          NoDoc,          (* the answer of the store for a missing key            *)
          Csv,            (* the rows of the CSV file: a sequence of [id, keywords] *)
          BootModes,      (* the values of init.yml's server.rebuild-index over   *)
                          (* the starts considered: a subset of BOOLEAN           *)
          SerialCallers,  (* TRUE: callers never overlap two calls on one key     *)
          MaxId           (* bound: how many integer ids are handed out           *)

(* A row of the CSV file, as AddVideoToIndex turns it into a document.          *)
Row == [id : Id, keywords : KeywordLists]

ASSUME IndexerAssumption ==
  /\ Main \notin Handler
  /\ TrimSpace \in [Id -> Id]
  /\ \A i \in Id : TrimSpace[TrimSpace[i]] = TrimSpace[i]
  /\ EmptyId \in Id /\ TrimSpace[EmptyId] = EmptyId
  /\ KeywordLists \subseteq Seq(Keyword)
  /\ Csv \in Seq(Row)
  /\ BootModes \subseteq BOOLEAN /\ SerialCallers \in BOOLEAN
  /\ MaxId \in Nat

Thread == Handler \cup {Main}

(* types.Document without its payload: nothing below looks at Bytes or at the  *)
(* feature bits.                                                                *)
Document == [id : Id, intId : Nat, keywords : KeywordLists]

ASSUME NoDocAssumption == NoDoc \notin Document

Posting == [key : Keyword, intId : Nat, id : Id]
Call    == [op : {"AddDoc"}, id : Id, keywords : KeywordLists]
           \cup [op : {"DeleteDoc"}, id : Id, keywords : {<<>>}]
Label   == {"idle", "get", "unpost", "getid", "fset", "post"}
NoCall  == [op |-> "none", id |-> EmptyId, keywords |-> <<>>]

VARIABLES process,   (* "down", "building", "serving", or "closed": the store is   *)
                     (* closed by Close but the server still runs its handlers     *)
          loaded,    (* this process started from LoadFromIndexFile                *)
          forward,   (* the forward index: stored document of each key             *)
          postings,  (* the reverse index: the elements of all skip lists          *)
          lastId,    (* the largest integer id handed out                          *)
          row,       (* rows of the CSV file indexed by this rebuild               *)
          pc,        (* where each thread is                                       *)
          call,      (* the call each thread runs                                  *)
          old,       (* DeleteDoc's doc: what its Get decoded                      *)
          k,         (* the index of the keyword loop the thread is in             *)
          newId      (* doc.IntId of the AddDoc the thread runs                    *)

locals == <<pc, call, old, k, newId>>
vars   == <<process, loaded, forward, postings, lastId, row, locals>>

TypeOK ==
  /\ process \in {"down", "building", "serving", "closed"}
  /\ loaded \in BOOLEAN
  /\ forward \in [Id -> Document \cup {NoDoc}]
  /\ postings \subseteq Posting
  /\ lastId \in Nat
  /\ row \in 0 .. Len(Csv)
  /\ pc \in [Thread -> Label]
  /\ call \in [Thread -> Call \cup {NoCall}]
  /\ old \in [Thread -> Document \cup {NoDoc}]
  /\ k \in [Thread -> Nat \ {0}]
  /\ newId \in [Thread -> Nat]

(* The store's key: AddDoc works on the trimmed id, DeleteDoc on the id as the  *)
(* caller wrote it.                                                             *)
KeyOf(c) == IF c.op = "AddDoc" THEN TrimSpace[c.id] ELSE c.id
Key(t)   == KeyOf(call[t])

(* The document AddDoc stores and posts: doc.Id is not replaced by docId, so it *)
(* carries the untrimmed id.                                                    *)
NewDoc(t) == [id |-> call[t].id, intId |-> newId[t], keywords |-> call[t].keywords]

KeywordsOf(d) == IF d = NoDoc THEN <<>> ELSE d.keywords

Running(t) == pc[t] # "idle"
Busy(x)    == \E t \in Thread : Running(t) /\ Key(t) = x
Open       == process \in {"building", "serving"}
Up         == process \in {"serving", "closed"}

(* list.Set(intId, id) and list.Remove(intId) on the skip list of a keyword.    *)
SetPosting(P, key, n, id) ==
  {p \in P : ~(p.key = key /\ p.intId = n)} \cup {[key |-> key, intId |-> n, id |-> id]}
RemovePosting(P, key, n) == {p \in P : ~(p.key = key /\ p.intId = n)}

(* reverseIndex.Add of a whole document.                                        *)
PostingsOf(d) ==
  {[key |-> d.keywords[i], intId |-> d.intId, id |-> d.id] : i \in DOMAIN d.keywords}

------------------------------------------------------------------------------
Init ==
  /\ process = "down"
  /\ loaded = FALSE
  /\ forward = [x \in Id |-> NoDoc]
  /\ postings = {}
  /\ lastId = 0
  /\ row = 0
  /\ pc    = [t \in Thread |-> "idle"]
  /\ call  = [t \in Thread |-> NoCall]
  /\ old   = [t \in Thread |-> NoDoc]
  /\ k     = [t \in Thread |-> 1]
  /\ newId = [t \in Thread |-> 0]

(* The operators whose names begin with Faulty are not part of the              *)
(* specification: each is the definition that follows it with a bug a careless  *)
(* change of the code could bring in, and some property tells them apart.       *)

(* Faulty: the keyword loop counts from zero.                                   *)
FaultyGoto(t, label) == pc' = [pc EXCEPT ![t] = label] /\ k' = [k EXCEPT ![t] = 0]

(* What one thread's step does to its locals; the other threads keep theirs.    *)
Goto(t, label) == pc' = [pc EXCEPT ![t] = label] /\ k' = [k EXCEPT ![t] = 1]
NextKeyword(t) == k' = [k EXCEPT ![t] = @ + 1] /\ UNCHANGED <<pc, call, old, newId>>

(* Faulty: AddDoc does not delete the document that is there.                   *)
FaultyBegin(t, c) ==
  /\ pc[t] = "idle"
  /\ SerialCallers => ~Busy(KeyOf(c))
  /\ call' = [call EXCEPT ![t] = c]
  /\ Goto(t, IF c.op = "AddDoc" THEN "getid" ELSE "get")
  /\ UNCHANGED <<old, newId>>

Begin(t, c) ==
  /\ pc[t] = "idle"
  /\ SerialCallers => ~Busy(KeyOf(c))
  /\ call' = [call EXCEPT ![t] = c]
  /\ Goto(t, "get")
  /\ UNCHANGED <<old, newId>>

Return(t) ==
  /\ Goto(t, "idle")
  /\ call'  = [call EXCEPT ![t] = NoCall]
  /\ old'   = [old EXCEPT ![t] = NoDoc]
  /\ newId' = [newId EXCEPT ![t] = 0]

(* AddDoc is called; a blank id returns 0 at once and changes nothing.          *)
AddDoc(t, id, kws) ==
  /\ TrimSpace[id] # EmptyId
  /\ lastId + Cardinality(Thread) <= MaxId
  /\ Begin(t, [op |-> "AddDoc", id |-> id, keywords |-> kws])

HandleAddDoc(t, id, kws) ==
  /\ Up
  /\ AddDoc(t, id, kws)
  /\ UNCHANGED <<process, loaded, forward, postings, lastId, row>>

HandleDeleteDoc(t, id) ==
  /\ Up
  /\ Begin(t, [op |-> "DeleteDoc", id |-> id, keywords |-> <<>>])
  /\ UNCHANGED <<process, loaded, forward, postings, lastId, row>>

(* DeleteDoc reads the stored document.  A closed store answers an error, which *)
(* DeleteDoc treats like a missing key.                                         *)
Get(t) ==
  /\ pc[t] = "get"
  /\ old' = [old EXCEPT ![t] = IF Open THEN forward[Key(t)] ELSE NoDoc]
  /\ Goto(t, "unpost")
  /\ UNCHANGED <<process, loaded, forward, postings, lastId, row, call, newId>>

(* One turn of DeleteDoc's loop: reverseIndex.Delete, under the keyword's lock. *)
Unpost(t) ==
  /\ pc[t] = "unpost"
  /\ k[t] <= Len(KeywordsOf(old[t]))
  /\ postings' = RemovePosting(postings, old[t].keywords[k[t]], old[t].intId)
  /\ NextKeyword(t)
  /\ UNCHANGED <<process, loaded, forward, lastId, row>>

(* DeleteDoc removes the key, whether or not its Get found it, and returns to   *)
(* the caller, or to AddDoc.                                                    *)
ForwardDelete(t) ==
  /\ pc[t] = "unpost"
  /\ k[t] > Len(KeywordsOf(old[t]))
  /\ forward' = IF Open THEN [forward EXCEPT ![Key(t)] = NoDoc] ELSE forward
  /\ IF call[t].op = "AddDoc"
       THEN Goto(t, "getid") /\ UNCHANGED <<call, old, newId>>
       ELSE Return(t)
  /\ UNCHANGED <<process, loaded, postings, lastId, row>>

(* worker.GetId, as the snowflake algorithm promises it: an id never seen.      *)
GetId(t) ==
  /\ pc[t] = "getid"
  /\ lastId' = lastId + 1
  /\ newId' = [newId EXCEPT ![t] = lastId + 1]
  /\ Goto(t, "fset")
  /\ UNCHANGED <<process, loaded, forward, postings, row, call, old>>

(* Faulty: the document is encoded before it is given its integer id.           *)
FaultyForwardSet(t) ==
  /\ pc[t] = "fset"
  /\ forward' = IF Open THEN [forward EXCEPT ![Key(t)] = [NewDoc(t) EXCEPT !.intId = 0]]
                        ELSE forward
  /\ Goto(t, "post")
  /\ UNCHANGED <<process, loaded, postings, lastId, row, call, old, newId>>

(* AddDoc stores the encoded document; the error of a closed store is dropped.  *)
ForwardSet(t) ==
  /\ pc[t] = "fset"
  /\ forward' = IF Open THEN [forward EXCEPT ![Key(t)] = NewDoc(t)] ELSE forward
  /\ Goto(t, "post")
  /\ UNCHANGED <<process, loaded, postings, lastId, row, call, old, newId>>

(* One turn of reverseIndex.Add's loop, under the keyword's lock.               *)
Post(t) ==
  /\ pc[t] = "post"
  /\ k[t] <= Len(call[t].keywords)
  /\ postings' = SetPosting(postings, call[t].keywords[k[t]], newId[t], call[t].id)
  /\ NextKeyword(t)
  /\ UNCHANGED <<process, loaded, forward, lastId, row>>

(* Faulty: the loop stops one keyword short.                                    *)
FaultyAcknowledge(t) ==
  /\ pc[t] = "post"
  /\ k[t] >= Len(call[t].keywords)
  /\ Return(t)
  /\ UNCHANGED <<process, loaded, forward, postings, lastId, row>>

(* AddDoc returns 1: it acknowledges that the document was added.               *)
Acknowledge(t) ==
  /\ pc[t] = "post"
  /\ k[t] > Len(call[t].keywords)
  /\ Return(t)
  /\ UNCHANGED <<process, loaded, forward, postings, lastId, row>>

------------------------------------------------------------------------------
(* Faulty: the reverse index is not loaded.                                     *)
FaultyLoad ==
  /\ process = "down" /\ FALSE \in BootModes
  /\ process' = "serving"
  /\ loaded' = TRUE
  /\ postings' = {}
  /\ UNCHANGED <<forward, lastId, row, locals>>

(* The process starts over the files it finds.  LoadFromIndexFile runs before   *)
(* server.Serve, so no handler sees it under way.                               *)
Load ==
  /\ process = "down" /\ FALSE \in BootModes
  /\ process' = "serving"
  /\ loaded' = TRUE
  /\ postings' = UNION {PostingsOf(forward[x]) : x \in {y \in Id : forward[y] # NoDoc}}
  /\ UNCHANGED <<forward, lastId, row, locals>>

(* With rebuild-index the forward index is not read: BuildIndexFromCSVFile      *)
(* calls AddDoc for the rows, and only then the server serves.                  *)
StartRebuild ==
  /\ process = "down" /\ TRUE \in BootModes
  /\ process' = "building"
  /\ UNCHANGED <<loaded, forward, postings, lastId, row, locals>>

(* A row is left out when its hash modulo the group count read at this start is *)
(* not this group: any row may be, at any start.                                *)
BuildRow ==
  /\ process = "building" /\ row < Len(Csv) /\ pc[Main] = "idle"
  /\ \/ AddDoc(Main, Csv[row + 1].id, Csv[row + 1].keywords)
     \/ UNCHANGED locals
  /\ row' = row + 1
  /\ UNCHANGED <<process, loaded, forward, postings, lastId>>

FinishRebuild ==
  /\ process = "building" /\ row = Len(Csv) /\ pc[Main] = "idle"
  /\ process' = "serving"
  /\ UNCHANGED <<loaded, forward, postings, lastId, row, locals>>

(* IndexServiceWorker.Close at SIGTERM: the store is closed while the server    *)
(* still accepts calls; os.Exit follows.  Only a process that serves is closed   *)
(* here.  One may also be closed while it loads or rebuilds its index; that is   *)
(* left out.                                                                    *)
Close ==
  /\ process = "serving"
  /\ process' = "closed"
  /\ UNCHANGED <<loaded, forward, postings, lastId, row, locals>>

(* os.Exit or a crash at any point: memory is lost, the store's files are not.  *)
Exit ==
  /\ process # "down"
  /\ process' = "down"
  /\ loaded' = FALSE
  /\ postings' = {}
  /\ row' = 0
  /\ pc'    = [t \in Thread |-> "idle"]
  /\ call'  = [t \in Thread |-> NoCall]
  /\ old'   = [t \in Thread |-> NoDoc]
  /\ k'     = [t \in Thread |-> 1]
  /\ newId' = [t \in Thread |-> 0]
  /\ UNCHANGED <<forward, lastId>>

Step(t) == \/ Get(t) \/ Unpost(t) \/ ForwardDelete(t)
           \/ GetId(t) \/ ForwardSet(t) \/ Post(t) \/ Acknowledge(t)

Next ==
  \/ \E t \in Handler, id \in Id, kws \in KeywordLists : HandleAddDoc(t, id, kws)
  \/ \E t \in Handler, id \in Id : HandleDeleteDoc(t, id)
  \/ \E t \in Thread : Step(t)
  \/ Load \/ StartRebuild \/ BuildRow \/ FinishRebuild \/ Close \/ Exit

Spec == Init /\ [][Next]_vars

------------------------------------------------------------------------------
(* What Search returns for a query of the single keyword key, when nothing      *)
(* changes meanwhile: the documents stored under the ids of the posted values.  *)
Search(key) == {forward[p.id] : p \in {q \in postings : q.key = key}} \ {NoDoc}

(* No stored document drops out of the reverse index.  In a process that       *)
(* loaded it from the forward one, while it serves and no call is working on    *)
(* the key, every keyword of the document stored there has its posting, however *)
(* the handlers' calls on that key overlapped and wherever the process died     *)
(* before.  (AddDoc writes the forward index before the reverse one, DeleteDoc  *)
(* clears them in the other order.)                                             *)
StoredIsPosted ==
  process = "serving" /\ loaded =>
    \A x \in Id :
      forward[x] # NoDoc /\ ~Busy(x) => PostingsOf(forward[x]) \subseteq postings

(* Each document stored while nobody works on its key is among the results of   *)
(* Search for each of its keywords: the posting also leads back to the key      *)
(* under which the document is kept.                                            *)
StoredIsFound ==
  process = "serving" /\ loaded =>
    \A x \in Id :
      forward[x] # NoDoc /\ ~Busy(x) =>
        \A i \in DOMAIN forward[x].keywords : forward[x] \in Search(forward[x].keywords[i])

(* AddDoc and DeleteDoc leave no posting behind: once nobody works on the key,  *)
(* every posting of an id belongs to the document stored under it now, so a     *)
(* document is found once, and only by keywords it has.                         *)
PostedIsStored ==
  process = "serving" =>
    \A p \in postings :
      ~Busy(TrimSpace[p.id]) =>
        /\ forward[TrimSpace[p.id]] # NoDoc
        /\ p \in PostingsOf(forward[TrimSpace[p.id]])

(* When AddDoc answers 1 and the store has not been closed meanwhile, the       *)
(* document it was given is in the forward index.                               *)
AcknowledgedIsStored ==
  [][\A t \in Thread : Acknowledge(t) /\ Open => forward[Key(t)] = NewDoc(t)]_vars
==============================================================================
