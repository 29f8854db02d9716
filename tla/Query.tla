-------------------------------- MODULE Query --------------------------------
(* The index service of one worker (service/index_service.go): the searches of  *)
(* module Search and the writes of module Indexer with the messages of their    *)
(* calls, encoded and decoded as module Wire has it.  Every handler works on    *)
(* what it decodes.                                                             *)
EXTENDS Search, Wire, FiniteSetsExt

CONSTANTS IdBytes,        (* the bytes of an id                                   *)
          VideoOf,        (* what the document of an id carries as its Bytes      *)
          MaxAnswer       (* bound: the documents in an answer                    *)

ASSUME QueryAssumption ==
  /\ Bit \subseteq 0 .. 63
  /\ \A i, j \in Id : IdBytes[i] = IdBytes[j] => i = j
  /\ MaxAnswer \in Nat

VARIABLES wire            (* the messages of the last step (history)              *)

queryVars == <<searchVars, wire>>

------------------------------------------------------------------------------
(* Messages.                                                                     *)

(* A flag of 64 bits, as the digits of the integer and as the set of its bits.  *)
Flag(S) ==
  Stripped([d \in 1 .. 10 |-> SumSet({2 ^ (b % 7) : b \in {c \in S : c \div 7 = d - 1}})])
Bits(v) == {b \in Bit : b \div 7 < Len(v) /\ (v[b \div 7 + 1] \div 2 ^ (b % 7)) % 2 = 1}

(* AddVideoToIndex: the document that carries a video.                          *)
BytesOf   == [id \in Id |-> Marshal("BiliBiliVideo", VideoOf[id])]
FeatureOf == [id \in Id |-> Flag(BitsOf[id])]
DocumentMessage(id, n, kws) ==
  [Id |-> IdBytes[id], IntId |-> Digits(n), BitsFeature |-> FeatureOf[id],
   Keywords |-> [i \in DOMAIN kws |-> KeywordOf[kws[i]]], Bytes |-> BytesOf[id]]

(* The documents of an answer, in the order of their keys in the lists.         *)
Response(found) ==
  LET sorted == SetToSortSeq(found, LAMBDA f, g : f.intId < g.intId)
      Sent(d) == DocumentMessage(d.id, d.intId, d.keywords)
  IN [Documents |-> [i \in DOMAIN sorted |-> Sent(sorted[i].doc)]]

IdOf(bytes) == CHOOSE i \in Id : IdBytes[i] = bytes

RequestMessage(r) ==
  [Query |-> <<r.query>>, OnFlag |-> Flag(r.on), OffFlag |-> Flag(r.off),
   OrFlags |-> [i \in DOMAIN r.or |-> Flag(r.or[i])]]

Message(type, m)  == [type |-> type, message |-> m]
Received(type, m) == Unmarshal(type, Marshal(type, m)).value

(* What the handler decodes of the requests of the clients.                     *)
Decoded ==
  [a \in DOMAIN Asks |->
     With(Received("SearchRequest", RequestMessage(RequestOf(Asks[a]))), LAMBDA r :
       [query |-> r.Query[1], on |-> Bits(r.OnFlag), off |-> Bits(r.OffFlag),
        or |-> [i \in DOMAIN r.OrFlags |-> Bits(r.OrFlags[i])]])]

NewDocument == [id \in Id, kws \in KeywordLists |->
                  Received("Document", DocumentMessage(id, 0, kws))]

------------------------------------------------------------------------------
QueryInit == SearchInit /\ wire = {}

(* The client sends its query.                                                  *)
SendSearch(a) ==
  /\ CallSearch(a, Decoded[a]) /\ UNCHANGED vars
  /\ wire' = {Message("SearchRequest", RequestMessage(RequestOf(Asks[a])))}

(* The handler sends the documents, and the client decodes them.                *)
SendAnswer ==
  /\ Respond /\ UNCHANGED <<vars, touched>>
  /\ wire' = {Message("SearchResponse", Response(docs))}

QueryStep ==
  \/ /\ Descend \/ Visit \/ ReturnPart \/ ReturnAll \/ BatchGet
     /\ wire' = {} /\ UNCHANGED <<vars, touched>>
  \/ SendAnswer
  \/ Finish /\ wire' = {}

SendDocument(t, id, kws) ==
  LET doc == NewDocument[id, kws]
  IN /\ CallAddDoc(t, IdOf(doc.Id), [i \in DOMAIN doc.Keywords |->
                                        CHOOSE x \in PostedAs(doc.Keywords[i]) : TRUE])
     /\ wire' = {Message("BiliBiliVideo", VideoOf[id]),
                 Message("Document", DocumentMessage(id, 0, kws))}

SendDocId(t, id) ==
  LET sent == [DocId |-> IdBytes[id]]
  IN /\ CallDeleteDoc(t, IdOf(Received("DocId", sent).DocId))
     /\ wire' = {Message("DocId", sent)}

AffectedCount(n) == {Message("AffectedCount", [Count |-> Digits(n)])}

(* The steps of a write: it answers with the documents it added or deleted.     *)
WriteStep(t) ==
  /\ \/ (Get(t) \/ Unpost(t) \/ GetId(t) \/ ForwardSet(t) \/ Post(t)) /\ wire' = {}
     \/ ForwardDelete(t)
        /\ wire' = IF call[t].op = "AddDoc" THEN {}
                   ELSE AffectedCount(IF old[t] = NoDoc THEN 0 ELSE 1)
     \/ Acknowledge(t) /\ wire' = AffectedCount(1)
  /\ UNCHANGED <<walkVars, touched>>

(* IterKey counts the keys of one snapshot; a closed store has none.  The       *)
(* client that searches also counts, one call after the other.                  *)
CallCount ==
  /\ Up /\ qpc = "idle"
  /\ wire' = {Message("CountRequest", Unset("CountRequest"))} \cup
             AffectedCount(IF Open THEN Cardinality({x \in Id : forward[x] # NoDoc}) ELSE 0)
  /\ UNCHANGED searchVars

QueryNext ==
  \/ \E a \in DOMAIN Asks : SendSearch(a)
  \/ QueryStep
  \/ \E t \in Handler, id \in Written, kws \in KeywordLists : SendDocument(t, id, kws)
  \/ \E t \in Handler, id \in Written : SendDocId(t, id)
  \/ \E t \in Thread : WriteStep(t)
  \/ CallCount
  \/ Lifecycle /\ wire' = {}

(* The goroutine that answers a search is scheduled, and its client takes the   *)
(* answer, as in Search.                                                        *)
QuerySpec == QueryInit /\ [][QueryNext]_queryVars /\ WF_queryVars(QueryStep)

------------------------------------------------------------------------------
(* Nothing is lost between a client and its handler: with all its encoding and  *)
(* decoding, the service does what Search does on the requests and documents    *)
(* the clients have in mind, and goes on as it does, so that SearchProofs       *)
(* speaks of it too.                                                            *)
ImplementsSearch == SearchSpec

(* Every message a client or the worker may send here.                          *)
Sent    == {DocumentMessage(id, n, kws) : id \in Written, n \in 1 .. MaxId, kws \in KeywordLists}
Answers == UNION {[1 .. n -> Sent] : n \in 0 .. MaxAnswer}
Sendable ==
  {Message("SearchRequest", RequestMessage(RequestOf(Asks[a]))) : a \in DOMAIN Asks}
  \cup {Message("SearchResponse", [Documents |-> s]) : s \in Answers}
  \cup {Message("Document", DocumentMessage(id, 0, kws)) : id \in Written, kws \in KeywordLists}
  \cup {Message("BiliBiliVideo", VideoOf[id]) : id \in Written}
  \cup {Message("DocId", [DocId |-> IdBytes[id]]) : id \in Written}
  \cup {Message("CountRequest", Unset("CountRequest"))}
  \cup UNION {AffectedCount(n) : n \in 0 .. Cardinality(Id)}

Bytes(w) == Marshal(w.type, w.message)

IsExact(w, b) == /\ Unmarshal(w.type, b) = Read(w.message, Len(b) + 1)
                 /\ Size(w.type, w.message) = Len(b)

IsRefused(type, part) ==
  With(Unmarshal(type, part), LAMBDA r : r.ok => Marshal(type, r.value) = part)

(* Field 31 as each wire type writes it, the last one a group within a group.   *)
LaterFields ==
  {<<248, 1, 200, 1>>, <<249, 1, 1, 2, 3, 4, 5, 6, 7, 8>>, <<250, 1, 2, 8, 9>>,
   <<253, 1, 1, 2, 3, 4>>, <<251, 1, 251, 1, 8, 1, 252, 1, 16, 1, 252, 1>>}
IsUnderstood(w, late) == Unmarshal(w.type, late) = Read(w.message, Len(late) + 1)

Exact      == {w \in Sendable : With(Bytes(w), LAMBDA b : IsExact(w, b))}
Refused    == {w \in Sendable : With(Bytes(w), LAMBDA b :
                                 \A n \in 1 .. Len(b) - 1 : IsRefused(w.type, SubSeq(b, 1, n)))}
Understood == {w \in Sendable : With(Bytes(w), LAMBDA b :
                                 \A f \in LaterFields :
                                   IsUnderstood(w, f \o b) /\ IsUnderstood(w, b \o f))}

(* What is sent is what is received, field by field, in as many bytes as Size   *)
(* has announced.                                                               *)
WireIsExact == wire \subseteq Exact

(* A message that was cut off is refused, unless what is left of it is itself   *)
(* a whole message.                                                             *)
CutIsRefused == wire \subseteq Refused

(* A message of a later version of the service, with a field this one does not  *)
(* know before or after the others, is read as if the field were not there.     *)
LaterIsUnderstood == wire \subseteq Understood
==============================================================================
