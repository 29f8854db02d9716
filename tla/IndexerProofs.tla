---------------------------- MODULE IndexerProofs ----------------------------
(* Theorems about Indexer, for every set of threads, ids and keywords, every    *)
(* TrimSpace that is idempotent, and every mix of loading and rebuilding.       *)
EXTENDS Indexer, TLAPS

------------------------------------------------------------------------------
(* Types.                                                                       *)

(* A call's key is an id, its keywords a sequence, and an AddDoc's document is  *)
(* one the forward index may hold.                                              *)
LEMMA CallTypes ==
  ASSUME TypeOK, NEW t \in Thread
  PROVE  /\ Key(t) \in Id
         /\ call[t].id \in Id
         /\ call[t].keywords \in Seq(Keyword)
         /\ call[t].op = "AddDoc" => NewDoc(t) \in Document /\ Key(t) = TrimSpace[call[t].id]
<1>1. call[t] \in Call \cup {NoCall}
  BY DEF TypeOK
<1>2. <<>> \in Seq(Keyword)
  OBVIOUS
<1>3. /\ call[t].id \in Id
      /\ call[t].keywords \in Seq(Keyword)
      /\ call[t].op = "AddDoc" => call[t].keywords \in KeywordLists
  <2>1. CASE call[t] \in [op : {"AddDoc"}, id : Id, keywords : KeywordLists]
    BY <2>1, IndexerAssumption DEF IndexerAssumption
  <2>2. CASE call[t] \in [op : {"DeleteDoc"}, id : Id, keywords : {<<>>}]
    BY <2>2, <1>2
  <2>3. CASE call[t] = NoCall
    BY <2>3, <1>2, IndexerAssumption DEF IndexerAssumption, NoCall
  <2> QED BY <1>1, <2>1, <2>2, <2>3 DEF Call
<1>4. Key(t) \in Id
  BY <1>3, IndexerAssumption DEF IndexerAssumption, Key, KeyOf
<1>5. newId[t] \in Nat
  BY DEF TypeOK
<1> QED BY <1>3, <1>4, <1>5 DEF NewDoc, Document, Key, KeyOf

(* A stored document, or the store's answer for a missing one, has a sequence   *)
(* of keywords.                                                                 *)
LEMMA DocTypes ==
  ASSUME NEW d \in Document \cup {NoDoc}
  PROVE  /\ KeywordsOf(d) \in Seq(Keyword)
         /\ Len(KeywordsOf(d)) \in Nat
         /\ d # NoDoc => d \in Document /\ KeywordsOf(d) = d.keywords
<1>1. <<>> \in Seq(Keyword)
  OBVIOUS
<1>2. KeywordsOf(d) \in Seq(Keyword)
  BY <1>1, IndexerAssumption DEF IndexerAssumption, KeywordsOf, Document
<1> QED BY <1>2 DEF KeywordsOf

(* The postings of a document are postings.                                     *)
LEMMA PostingsOfType ==
  ASSUME NEW d \in Document
  PROVE  PostingsOf(d) \subseteq Posting
<1>1. d.keywords \in Seq(Keyword) /\ d.intId \in Nat /\ d.id \in Id
  BY IndexerAssumption DEF IndexerAssumption, Document
<1> QED BY <1>1 DEF PostingsOf, Posting

(* What the locals are assigned keeps their types.                              *)
LocalsOK ==
  /\ pc \in [Thread -> Label]
  /\ call \in [Thread -> Call \cup {NoCall}]
  /\ old \in [Thread -> Document \cup {NoDoc}]
  /\ k \in [Thread -> Nat \ {0}]
  /\ newId \in [Thread -> Nat]

(* Jumping to a label keeps the types of pc and of the loop index.              *)
LEMMA GotoTypes ==
  ASSUME TypeOK, NEW t \in Thread, NEW l \in Label, Goto(t, l)
  PROVE  pc' \in [Thread -> Label] /\ k' \in [Thread -> Nat \ {0}]
  BY DEF TypeOK, Goto

(* The next turn of a keyword loop keeps the types of the locals.               *)
LEMMA NextKeywordTypes ==
  ASSUME TypeOK, NEW t \in Thread, NextKeyword(t)
  PROVE  LocalsOK'
<1>1. k' \in [Thread -> Nat \ {0}]
  BY DEF TypeOK, NextKeyword
<1> QED BY <1>1 DEF TypeOK, NextKeyword, LocalsOK

(* Returning from a call keeps the types of the locals.                         *)
LEMMA ReturnTypes ==
  ASSUME TypeOK, NEW t \in Thread, Return(t)
  PROVE  LocalsOK'
<1>1. pc' \in [Thread -> Label] /\ k' \in [Thread -> Nat \ {0}]
  BY GotoTypes DEF Return, Label
<1>2. call' \in [Thread -> Call \cup {NoCall}]
  BY DEF TypeOK, Return
<1>3. old' \in [Thread -> Document \cup {NoDoc}]
  BY DEF TypeOK, Return
<1>4. newId' \in [Thread -> Nat]
  BY DEF TypeOK, Return
<1> QED BY <1>1, <1>2, <1>3, <1>4 DEF LocalsOK

(* Beginning a call keeps the types of the locals.                              *)
LEMMA BeginTypes ==
  ASSUME TypeOK, NEW t \in Thread, NEW c \in Call, Begin(t, c)
  PROVE  LocalsOK'
<1>1. pc' \in [Thread -> Label] /\ k' \in [Thread -> Nat \ {0}]
  BY GotoTypes DEF Begin, Label
<1>2. call' \in [Thread -> Call \cup {NoCall}]
  BY DEF TypeOK, Begin
<1> QED BY <1>1, <1>2 DEF LocalsOK, TypeOK, Begin

(* Only an AddDoc gets past DeleteDoc's last statement.                         *)
Adding(t) == pc[t] \in {"getid", "fset", "post"}
AddingIsAddDoc == \A t \in Thread : Adding(t) => call[t].op = "AddDoc"

(* Type correctness.                                                            *)
LEMMA TypeInit == Init => TypeOK /\ AddingIsAddDoc
<1> SUFFICES ASSUME Init PROVE TypeOK /\ AddingIsAddDoc
  OBVIOUS
<1>1. row \in 0 .. Len(Csv)
  BY IndexerAssumption DEF Init, IndexerAssumption
<1>2. pc \in [Thread -> Label] /\ k \in [Thread -> Nat \ {0}]
  BY DEF Init, Label
<1> QED BY <1>1, <1>2 DEF Init, TypeOK, AddingIsAddDoc, Adding

(* Every step keeps the types.                                                  *)
LEMMA TypeStep == TypeOK /\ AddingIsAddDoc /\ [Next]_vars => TypeOK'
<1> SUFFICES ASSUME TypeOK, AddingIsAddDoc, [Next]_vars PROVE TypeOK'
  OBVIOUS
<1> USE DEF TypeOK
<1>1. ASSUME NEW t \in Handler, NEW id \in Id, NEW kws \in KeywordLists, HandleAddDoc(t, id, kws)
      PROVE  TypeOK'
  <2>1. [op |-> "AddDoc", id |-> id, keywords |-> kws] \in Call
    BY DEF Call
  <2>2. LocalsOK'
    BY <1>1, <2>1, BeginTypes DEF HandleAddDoc, AddDoc, Thread
  <2> QED BY <1>1, <2>2 DEF HandleAddDoc, LocalsOK
<1>2. ASSUME NEW t \in Handler, NEW id \in Id, HandleDeleteDoc(t, id)
      PROVE  TypeOK'
  <2>1. [op |-> "DeleteDoc", id |-> id, keywords |-> <<>>] \in Call
    BY DEF Call
  <2>2. LocalsOK'
    BY <1>2, <2>1, BeginTypes DEF HandleDeleteDoc, Thread
  <2> QED BY <1>2, <2>2 DEF HandleDeleteDoc, LocalsOK
<1>3. ASSUME NEW t \in Thread, Get(t) PROVE TypeOK'
  <2>1. pc' \in [Thread -> Label] /\ k' \in [Thread -> Nat \ {0}]
    BY <1>3, GotoTypes DEF Get, Label
  <2>2. old' \in [Thread -> Document \cup {NoDoc}]
    BY <1>3, CallTypes DEF Get
  <2> QED BY <1>3, <2>1, <2>2 DEF Get
<1>4. ASSUME NEW t \in Thread, Unpost(t) PROVE TypeOK'
  <2>1. LocalsOK'
    BY <1>4, NextKeywordTypes DEF Unpost
  <2>2. postings' \subseteq Posting
    BY <1>4 DEF Unpost, RemovePosting
  <2> QED BY <1>4, <2>1, <2>2 DEF Unpost, LocalsOK
<1>5. ASSUME NEW t \in Thread, ForwardDelete(t) PROVE TypeOK'
  <2>1. LocalsOK'
    <3>1. CASE call[t].op = "AddDoc"
      <4>1. pc' \in [Thread -> Label] /\ k' \in [Thread -> Nat \ {0}]
        BY <1>5, <3>1, GotoTypes DEF ForwardDelete, Label
      <4> QED BY <1>5, <3>1, <4>1 DEF ForwardDelete, LocalsOK
    <3>2. CASE call[t].op # "AddDoc"
      BY <1>5, <3>2, ReturnTypes DEF ForwardDelete
    <3> QED BY <3>1, <3>2
  <2>2. forward' \in [Id -> Document \cup {NoDoc}]
    BY <1>5, CallTypes DEF ForwardDelete
  <2> QED BY <1>5, <2>1, <2>2 DEF ForwardDelete, LocalsOK
<1>6. ASSUME NEW t \in Thread, GetId(t) PROVE TypeOK'
  <2>1. pc' \in [Thread -> Label] /\ k' \in [Thread -> Nat \ {0}]
    BY <1>6, GotoTypes DEF GetId, Label
  <2>2. newId' \in [Thread -> Nat] /\ lastId' \in Nat
    BY <1>6 DEF GetId
  <2> QED BY <1>6, <2>1, <2>2 DEF GetId
<1>7. ASSUME NEW t \in Thread, ForwardSet(t) PROVE TypeOK'
  <2>1. pc' \in [Thread -> Label] /\ k' \in [Thread -> Nat \ {0}]
    BY <1>7, GotoTypes DEF ForwardSet, Label
  <2>2. NewDoc(t) \in Document /\ Key(t) \in Id
    BY <1>7, CallTypes DEF ForwardSet, AddingIsAddDoc, Adding
  <2>3. forward' \in [Id -> Document \cup {NoDoc}]
    BY <1>7, <2>2 DEF ForwardSet
  <2> QED BY <1>7, <2>1, <2>3 DEF ForwardSet
<1>8. ASSUME NEW t \in Thread, Post(t) PROVE TypeOK'
  <2>1. LocalsOK'
    BY <1>8, NextKeywordTypes DEF Post
  <2>2. k[t] \in DOMAIN call[t].keywords
    BY <1>8, CallTypes DEF Post
  <2>3. [key |-> call[t].keywords[k[t]], intId |-> newId[t], id |-> call[t].id] \in Posting
    BY <2>2, CallTypes DEF Posting
  <2>4. postings' \subseteq Posting
    BY <1>8, <2>3 DEF Post, SetPosting
  <2> QED BY <1>8, <2>1, <2>4 DEF Post, LocalsOK
<1>9. ASSUME NEW t \in Thread, Acknowledge(t) PROVE TypeOK'
  BY <1>9, ReturnTypes DEF Acknowledge, LocalsOK
<1>10. CASE Load
  <2>1. postings' \subseteq Posting
    BY <1>10, PostingsOfType DEF Load
  <2> QED BY <1>10, <2>1 DEF Load, locals
<1>11. CASE StartRebuild
  BY <1>11 DEF StartRebuild, locals
<1>12. CASE BuildRow
  <2>1. row \in Nat /\ Len(Csv) \in Nat /\ row + 1 \in DOMAIN Csv
    BY <1>12, IndexerAssumption DEF BuildRow, IndexerAssumption
  <2>2. Csv[row + 1] \in Row
    BY <2>1, IndexerAssumption DEF IndexerAssumption
  <2>3. [op |-> "AddDoc", id |-> Csv[row + 1].id, keywords |-> Csv[row + 1].keywords] \in Call
    BY <2>2 DEF Call, Row
  <2>4. LocalsOK'
    <3>1. CASE AddDoc(Main, Csv[row + 1].id, Csv[row + 1].keywords)
      BY <3>1, <2>3, BeginTypes DEF AddDoc, Thread
    <3>2. CASE UNCHANGED locals
      BY <3>2 DEF locals, LocalsOK
    <3> QED BY <1>12, <3>1, <3>2 DEF BuildRow
  <2>5. row' \in 0 .. Len(Csv)
    BY <1>12, <2>1 DEF BuildRow
  <2> QED BY <1>12, <2>4, <2>5 DEF BuildRow, LocalsOK
<1>13. CASE FinishRebuild
  BY <1>13 DEF FinishRebuild, locals
<1>14. CASE Close
  BY <1>14 DEF Close, locals
<1>15. CASE Exit
  <2>1. 0 \in 0 .. Len(Csv)
    BY IndexerAssumption DEF IndexerAssumption
  <2>2. LocalsOK'
    BY <1>15 DEF Exit, LocalsOK, Label
  <2> QED BY <1>15, <2>1, <2>2 DEF Exit, LocalsOK
<1>16. CASE UNCHANGED vars
  BY <1>16 DEF vars, locals
<1> QED
  BY <1>1, <1>2, <1>3, <1>4, <1>5, <1>6, <1>7, <1>8, <1>9, <1>10, <1>11, <1>12,
     <1>13, <1>14, <1>15, <1>16 DEF Next, Step

------------------------------------------------------------------------------
(* The inductive invariant.                                                     *)

(* The documents that are stored, were read by a DeleteDoc, or are on the way   *)
(* in; the integer id tells them apart, and none has one not yet handed out.    *)
InPlay ==
  ({forward[x] : x \in Id} \cup {old[t] : t \in Thread}
     \cup {NewDoc(t) : t \in {u \in Thread : pc[u] \in {"fset", "post"}}}) \ {NoDoc}
OneDocPerIntId == \A d, e \in InPlay : d.intId = e.intId => d = e
IdsGiven       == \A d \in InPlay : d.intId <= lastId

(* A document is stored, and was read, under its trimmed id.                    *)
KeyedByTrim == \A x \in Id : forward[x] # NoDoc => TrimSpace[forward[x].id] = x
OldIsKeyed  ==
  \A t \in Thread : old[t] # NoDoc =>
    pc[t] \notin {"idle", "get"} /\ TrimSpace[old[t].id] = Key(t)

NotYetLoaded == process \in {"down", "building"} => ~loaded
DownIsIdle   == process = "down" => postings = {} /\ \A t \in Thread : pc[t] = "idle"

(* The posting of the i-th keyword of a document.                               *)
PostingAt(d, i) == [key |-> d.keywords[i], intId |-> d.intId, id |-> d.id]

(* A stored document is posted, or the AddDoc that stored it has yet to post    *)
(* this keyword, or a DeleteDoc that read it has yet to delete it.              *)
Covered(x, i) ==
  \/ PostingAt(forward[x], i) \in postings
  \/ \E t \in Thread : pc[t] = "post" /\ NewDoc(t) = forward[x] /\ k[t] <= i
  \/ \E t \in Thread : pc[t] = "unpost" /\ old[t] = forward[x]
StoredIsCovered ==
  process = "serving" /\ loaded =>
    \A x \in Id : forward[x] # NoDoc =>
      \A i \in DOMAIN forward[x].keywords : Covered(x, i)

(* With serial callers a call has its key to itself, and at each point of the   *)
(* call the forward index holds what the call left there.                       *)
OneCallPerKey ==
  \A t, u \in Thread : Running(t) /\ Running(u) /\ Key(t) = Key(u) => t = u
CallKnowsStore ==
  Open => \A t \in Thread :
    /\ pc[t] = "unpost" => forward[Key(t)] = old[t]
    /\ pc[t] \in {"getid", "fset"} => forward[Key(t)] = NoDoc
    /\ pc[t] = "post" => forward[Key(t)] = NewDoc(t)
(* A posting belongs to the stored document, and a DeleteDoc that is removing   *)
(* the document's postings has not come to it yet.                              *)
Belongs(p) ==
  LET x == TrimSpace[p.id]
  IN  /\ forward[x] # NoDoc
      /\ \E i \in DOMAIN forward[x].keywords :
           /\ p = PostingAt(forward[x], i)
           /\ \A t \in Thread : pc[t] = "unpost" /\ Key(t) = x => k[t] <= i
PostingsBelong == Open => \A p \in postings : Belongs(p)

AnyInv    == /\ TypeOK /\ AddingIsAddDoc /\ OneDocPerIntId /\ IdsGiven
             /\ KeyedByTrim /\ OldIsKeyed /\ NotYetLoaded /\ DownIsIdle
CoverInv  == AnyInv /\ StoredIsCovered
SerialInv == AnyInv /\ OneCallPerKey /\ CallKnowsStore /\ PostingsBelong

------------------------------------------------------------------------------
(* Each conjunct is preserved by every step.                                    *)

(* Only an AddDoc goes past the deletion, whatever step is taken.               *)
LEMMA AddingStep == TypeOK /\ AddingIsAddDoc /\ [Next]_vars => AddingIsAddDoc'
<1> SUFFICES ASSUME TypeOK, AddingIsAddDoc, [Next]_vars PROVE AddingIsAddDoc'
  OBVIOUS
<1> USE DEF TypeOK, AddingIsAddDoc, Adding, Goto, Return, NextKeyword, Begin, Thread
<1>1. ASSUME NEW t \in Handler, NEW id \in Id, NEW kws \in KeywordLists, HandleAddDoc(t, id, kws)
      PROVE  AddingIsAddDoc'
  BY <1>1 DEF HandleAddDoc, locals, AddDoc
<1>2. ASSUME NEW t \in Handler, NEW id \in Id, HandleDeleteDoc(t, id)
      PROVE  AddingIsAddDoc'
  BY <1>2 DEF HandleDeleteDoc, locals, AddDoc
<1>3. ASSUME NEW t \in Thread, Get(t) PROVE AddingIsAddDoc'
  BY <1>3 DEF Get, locals, AddDoc
<1>4. ASSUME NEW t \in Thread, Unpost(t) PROVE AddingIsAddDoc'
  BY <1>4 DEF Unpost, locals, AddDoc
<1>5. ASSUME NEW t \in Thread, ForwardDelete(t) PROVE AddingIsAddDoc'
  BY <1>5 DEF ForwardDelete, locals, AddDoc
<1>6. ASSUME NEW t \in Thread, GetId(t) PROVE AddingIsAddDoc'
  BY <1>6 DEF GetId, locals, AddDoc
<1>7. ASSUME NEW t \in Thread, ForwardSet(t) PROVE AddingIsAddDoc'
  BY <1>7 DEF ForwardSet, locals, AddDoc
<1>8. ASSUME NEW t \in Thread, Post(t) PROVE AddingIsAddDoc'
  BY <1>8 DEF Post, locals, AddDoc
<1>9. ASSUME NEW t \in Thread, Acknowledge(t) PROVE AddingIsAddDoc'
  BY <1>9 DEF Acknowledge, locals, AddDoc
<1>10. CASE Load
  BY <1>10 DEF Load, locals, AddDoc
<1>11. CASE StartRebuild
  BY <1>11 DEF StartRebuild, locals, AddDoc
<1>12. CASE BuildRow
  BY <1>12 DEF BuildRow, locals, AddDoc
<1>13. CASE FinishRebuild
  BY <1>13 DEF FinishRebuild, locals, AddDoc
<1>14. CASE Close
  BY <1>14 DEF Close, locals, AddDoc
<1>15. CASE Exit
  BY <1>15 DEF Exit, locals, AddDoc
<1>16. CASE UNCHANGED vars
  BY <1>16 DEF vars, locals, locals, AddDoc
<1> QED
  BY <1>1, <1>2, <1>3, <1>4, <1>5, <1>6, <1>7, <1>8, <1>9,
     <1>10, <1>11, <1>12, <1>13, <1>14, <1>15, <1>16 DEF Next, Step

(* A process that is down runs nothing, and has loaded nothing before it        *)
(* serves.                                                                      *)
LEMMA DownStep ==
  TypeOK /\ NotYetLoaded /\ DownIsIdle /\ [Next]_vars => NotYetLoaded' /\ DownIsIdle'
<1> SUFFICES ASSUME TypeOK, NotYetLoaded, DownIsIdle, [Next]_vars
             PROVE  NotYetLoaded' /\ DownIsIdle'
  OBVIOUS
<1> USE DEF TypeOK, NotYetLoaded, DownIsIdle, Up, Thread
<1>1. ASSUME NEW t \in Handler, NEW id \in Id, NEW kws \in KeywordLists, HandleAddDoc(t, id, kws)
      PROVE  NotYetLoaded' /\ DownIsIdle'
  BY <1>1 DEF HandleAddDoc, locals
<1>2. ASSUME NEW t \in Handler, NEW id \in Id, HandleDeleteDoc(t, id)
      PROVE  NotYetLoaded' /\ DownIsIdle'
  BY <1>2 DEF HandleDeleteDoc, locals
<1>3. ASSUME NEW t \in Thread, Get(t) PROVE NotYetLoaded' /\ DownIsIdle'
  BY <1>3 DEF Get, locals
<1>4. ASSUME NEW t \in Thread, Unpost(t) PROVE NotYetLoaded' /\ DownIsIdle'
  BY <1>4 DEF Unpost, locals
<1>5. ASSUME NEW t \in Thread, ForwardDelete(t) PROVE NotYetLoaded' /\ DownIsIdle'
  BY <1>5 DEF ForwardDelete, locals
<1>6. ASSUME NEW t \in Thread, GetId(t) PROVE NotYetLoaded' /\ DownIsIdle'
  BY <1>6 DEF GetId, locals
<1>7. ASSUME NEW t \in Thread, ForwardSet(t) PROVE NotYetLoaded' /\ DownIsIdle'
  BY <1>7 DEF ForwardSet, locals
<1>8. ASSUME NEW t \in Thread, Post(t) PROVE NotYetLoaded' /\ DownIsIdle'
  BY <1>8 DEF Post, locals
<1>9. ASSUME NEW t \in Thread, Acknowledge(t) PROVE NotYetLoaded' /\ DownIsIdle'
  BY <1>9 DEF Acknowledge, locals
<1>10. CASE Load
  BY <1>10 DEF Load, locals
<1>11. CASE StartRebuild
  BY <1>11 DEF StartRebuild, locals
<1>12. CASE BuildRow
  BY <1>12 DEF BuildRow, locals
<1>13. CASE FinishRebuild
  BY <1>13 DEF FinishRebuild, locals
<1>14. CASE Close
  BY <1>14 DEF Close, locals
<1>15. CASE Exit
  BY <1>15 DEF Exit, locals
<1>16. CASE UNCHANGED vars
  BY <1>16 DEF vars, locals, locals
<1> QED
  BY <1>1, <1>2, <1>3, <1>4, <1>5, <1>6, <1>7, <1>8, <1>9,
     <1>10, <1>11, <1>12, <1>13, <1>14, <1>15, <1>16 DEF Next, Step

(* What a DeleteDoc has read carries the key it was read under.                 *)
LEMMA OldStep ==
  TypeOK /\ AddingIsAddDoc /\ KeyedByTrim /\ OldIsKeyed /\ [Next]_vars => OldIsKeyed'
<1> SUFFICES ASSUME TypeOK, AddingIsAddDoc, KeyedByTrim, OldIsKeyed, [Next]_vars
             PROVE  OldIsKeyed'
  OBVIOUS
<1> USE DEF TypeOK, OldIsKeyed, Goto, Return, NextKeyword, Begin, Thread, Key
<1>1. ASSUME NEW t \in Handler, NEW id \in Id, NEW kws \in KeywordLists, HandleAddDoc(t, id, kws)
      PROVE  OldIsKeyed'
  BY <1>1 DEF HandleAddDoc, locals, AddDoc
<1>2. ASSUME NEW t \in Handler, NEW id \in Id, HandleDeleteDoc(t, id)
      PROVE  OldIsKeyed'
  BY <1>2 DEF HandleDeleteDoc, locals, AddDoc
<1>3. ASSUME NEW t \in Thread, Get(t) PROVE OldIsKeyed'
  BY <1>3, CallTypes DEF Get, KeyedByTrim
<1>4. ASSUME NEW t \in Thread, Unpost(t) PROVE OldIsKeyed'
  BY <1>4 DEF Unpost, locals, AddDoc
<1>5. ASSUME NEW t \in Thread, ForwardDelete(t) PROVE OldIsKeyed'
  BY <1>5 DEF ForwardDelete, locals, AddDoc
<1>6. ASSUME NEW t \in Thread, GetId(t) PROVE OldIsKeyed'
  BY <1>6 DEF GetId, locals, AddDoc
<1>7. ASSUME NEW t \in Thread, ForwardSet(t) PROVE OldIsKeyed'
  BY <1>7 DEF ForwardSet, locals, AddDoc
<1>8. ASSUME NEW t \in Thread, Post(t) PROVE OldIsKeyed'
  BY <1>8 DEF Post, locals, AddDoc
<1>9. ASSUME NEW t \in Thread, Acknowledge(t) PROVE OldIsKeyed'
  BY <1>9 DEF Acknowledge, locals, AddDoc
<1>10. CASE Load
  BY <1>10 DEF Load, locals, AddDoc
<1>11. CASE StartRebuild
  BY <1>11 DEF StartRebuild, locals, AddDoc
<1>12. CASE BuildRow
  BY <1>12 DEF BuildRow, locals, AddDoc
<1>13. CASE FinishRebuild
  BY <1>13 DEF FinishRebuild, locals, AddDoc
<1>14. CASE Close
  BY <1>14 DEF Close, locals, AddDoc
<1>15. CASE Exit
  BY <1>15 DEF Exit, locals, AddDoc
<1>16. CASE UNCHANGED vars
  BY <1>16 DEF vars, locals, locals, AddDoc
<1> QED
  BY <1>1, <1>2, <1>3, <1>4, <1>5, <1>6, <1>7, <1>8, <1>9,
     <1>10, <1>11, <1>12, <1>13, <1>14, <1>15, <1>16 DEF Next, Step

(* A stored document carries an id whose trimmed form is its key.               *)
LEMMA KeyedStep ==
  TypeOK /\ AddingIsAddDoc /\ KeyedByTrim /\ [Next]_vars => KeyedByTrim'
<1> SUFFICES ASSUME TypeOK, AddingIsAddDoc, KeyedByTrim, [Next]_vars
             PROVE  KeyedByTrim'
  OBVIOUS
<1> USE DEF KeyedByTrim
<1>1. ASSUME NEW t \in Handler, NEW id \in Id, NEW kws \in KeywordLists, HandleAddDoc(t, id, kws)
      PROVE  KeyedByTrim'
  BY <1>1 DEF HandleAddDoc, locals
<1>2. ASSUME NEW t \in Handler, NEW id \in Id, HandleDeleteDoc(t, id)
      PROVE  KeyedByTrim'
  BY <1>2 DEF HandleDeleteDoc, locals
<1>3. ASSUME NEW t \in Thread, Get(t) PROVE KeyedByTrim'
  BY <1>3 DEF Get, locals
<1>4. ASSUME NEW t \in Thread, Unpost(t) PROVE KeyedByTrim'
  BY <1>4 DEF Unpost, locals
<1>5. ASSUME NEW t \in Thread, ForwardDelete(t) PROVE KeyedByTrim'
  BY <1>5 DEF ForwardDelete, TypeOK
<1>6. ASSUME NEW t \in Thread, GetId(t) PROVE KeyedByTrim'
  BY <1>6 DEF GetId, locals
<1>7. ASSUME NEW t \in Thread, ForwardSet(t) PROVE KeyedByTrim'
  <2>1. Key(t) \in Id /\ TrimSpace[NewDoc(t).id] = Key(t)
    BY <1>7, CallTypes DEF ForwardSet, AddingIsAddDoc, Adding, NewDoc
  <2> QED BY <1>7, <2>1 DEF ForwardSet, TypeOK
<1>8. ASSUME NEW t \in Thread, Post(t) PROVE KeyedByTrim'
  BY <1>8 DEF Post, locals
<1>9. ASSUME NEW t \in Thread, Acknowledge(t) PROVE KeyedByTrim'
  BY <1>9 DEF Acknowledge, locals
<1>10. CASE Load
  BY <1>10 DEF Load, locals
<1>11. CASE StartRebuild
  BY <1>11 DEF StartRebuild, locals
<1>12. CASE BuildRow
  BY <1>12 DEF BuildRow, locals
<1>13. CASE FinishRebuild
  BY <1>13 DEF FinishRebuild, locals
<1>14. CASE Close
  BY <1>14 DEF Close, locals
<1>15. CASE Exit
  BY <1>15 DEF Exit, locals
<1>16. CASE UNCHANGED vars
  BY <1>16 DEF vars, locals, locals
<1> QED
  BY <1>1, <1>2, <1>3, <1>4, <1>5, <1>6, <1>7, <1>8, <1>9,
     <1>10, <1>11, <1>12, <1>13, <1>14, <1>15, <1>16 DEF Next, Step

(* Only GetId puts a document in play, and its integer id is new.               *)
LEMMA InPlayShrinks ==
  ASSUME AnyInv, [Next]_vars, ~\E t \in Thread : GetId(t)
  PROVE  InPlay' \subseteq InPlay /\ lastId' = lastId
<1> USE DEF AnyInv, TypeOK, InPlay, NewDoc, Goto, Return, NextKeyword, Begin, Thread
<1>1. ASSUME NEW t \in Handler, NEW id \in Id, NEW kws \in KeywordLists, HandleAddDoc(t, id, kws)
      PROVE  InPlay' \subseteq InPlay /\ lastId' = lastId
  BY <1>1 DEF HandleAddDoc, locals, AddDoc
<1>2. ASSUME NEW t \in Handler, NEW id \in Id, HandleDeleteDoc(t, id)
      PROVE  InPlay' \subseteq InPlay /\ lastId' = lastId
  BY <1>2 DEF HandleDeleteDoc, locals, AddDoc
<1>3. ASSUME NEW t \in Thread, Get(t) PROVE InPlay' \subseteq InPlay /\ lastId' = lastId
  <2>1. \A u \in Thread : old'[u] = NoDoc \/ old'[u] = old[u]
                         \/ \E x \in Id : old'[u] = forward[x]
    BY <1>3, CallTypes DEF Get
  <2>2. \A u \in Thread : pc'[u] \in {"fset", "post"} =>
           pc[u] = pc'[u] /\ NewDoc(u)' = NewDoc(u)
    BY <1>3 DEF Get
  <2>3. forward' = forward /\ lastId' = lastId
    BY <1>3 DEF Get
  <2> HIDE DEF AnyInv, TypeOK, Goto, Return, NextKeyword, Begin, Thread
  <2> SUFFICES ASSUME NEW d \in InPlay' PROVE d \in InPlay
    BY <2>3
  <2>4. CASE \E x \in Id : d = forward'[x]
    BY <2>3, <2>4
  <2>5. CASE \E u \in Thread : d = old'[u]
    BY <2>1, <2>5
  <2>6. CASE \E u \in Thread : pc'[u] \in {"fset", "post"} /\ d = NewDoc(u)'
    BY <2>2, <2>6
  <2> QED BY <2>4, <2>5, <2>6
<1>4. ASSUME NEW t \in Thread, Unpost(t) PROVE InPlay' \subseteq InPlay /\ lastId' = lastId
  BY <1>4 DEF Unpost, locals, AddDoc
<1>5. ASSUME NEW t \in Thread, ForwardDelete(t) PROVE InPlay' \subseteq InPlay /\ lastId' = lastId
  <2>1. \A x \in Id : forward'[x] = NoDoc \/ forward'[x] = forward[x]
    BY <1>5 DEF ForwardDelete
  <2>2. \A u \in Thread : old'[u] = NoDoc \/ old'[u] = old[u]
    BY <1>5 DEF ForwardDelete
  <2>3. \A u \in Thread : pc'[u] \in {"fset", "post"} =>
           pc[u] = pc'[u] /\ NewDoc(u)' = NewDoc(u)
    BY <1>5 DEF ForwardDelete
  <2> QED BY <1>5, <2>1, <2>2, <2>3 DEF ForwardDelete
<1>6. ASSUME NEW t \in Thread, GetId(t) PROVE InPlay' \subseteq InPlay /\ lastId' = lastId
  BY <1>6
<1>7. ASSUME NEW t \in Thread, ForwardSet(t) PROVE InPlay' \subseteq InPlay /\ lastId' = lastId
  <2>1. \A x \in Id : forward'[x] \in InPlay \cup {NoDoc}
    BY <1>7 DEF ForwardSet
  <2> QED BY <1>7, <2>1 DEF ForwardSet
<1>8. ASSUME NEW t \in Thread, Post(t) PROVE InPlay' \subseteq InPlay /\ lastId' = lastId
  BY <1>8 DEF Post, locals, AddDoc
<1>9. ASSUME NEW t \in Thread, Acknowledge(t) PROVE InPlay' \subseteq InPlay /\ lastId' = lastId
  BY <1>9 DEF Acknowledge, locals, AddDoc
<1>10. CASE Load
  BY <1>10 DEF Load, locals, AddDoc
<1>11. CASE StartRebuild
  BY <1>11 DEF StartRebuild, locals, AddDoc
<1>12. CASE BuildRow
  BY <1>12 DEF BuildRow, locals, AddDoc
<1>13. CASE FinishRebuild
  BY <1>13 DEF FinishRebuild, locals, AddDoc
<1>14. CASE Close
  BY <1>14 DEF Close, locals, AddDoc
<1>15. CASE Exit
  BY <1>15 DEF Exit, locals, AddDoc
<1>16. CASE UNCHANGED vars
  BY <1>16 DEF vars, locals, locals, AddDoc
<1> QED
  BY <1>1, <1>2, <1>3, <1>4, <1>5, <1>6, <1>7, <1>8, <1>9,
     <1>10, <1>11, <1>12, <1>13, <1>14, <1>15, <1>16 DEF Next, Step

(* What is in play is a document.                                               *)
LEMMA InPlayTypes ==
  ASSUME TypeOK, AddingIsAddDoc
  PROVE  InPlay \subseteq Document
<1>1. \A t \in Thread : pc[t] \in {"fset", "post"} => NewDoc(t) \in Document
  BY CallTypes DEF AddingIsAddDoc, Adding
<1> QED BY <1>1 DEF InPlay, TypeOK

(* Documents in play keep distinct integer ids: only GetId brings in a new one. *)
LEMMA InPlayStep ==
  AnyInv /\ [Next]_vars => OneDocPerIntId' /\ IdsGiven'
<1> SUFFICES ASSUME AnyInv, [Next]_vars PROVE OneDocPerIntId' /\ IdsGiven'
  OBVIOUS
<1>1. CASE ~\E t \in Thread : GetId(t)
  <2>1. InPlay' \subseteq InPlay /\ lastId' = lastId
    BY <1>1, InPlayShrinks
  <2> QED BY <2>1 DEF AnyInv, OneDocPerIntId, IdsGiven
<1>2. ASSUME NEW t \in Thread, GetId(t) PROVE OneDocPerIntId' /\ IdsGiven'
  <2>1. InPlay' \subseteq InPlay \cup {NewDoc(t)'}
    BY <1>2 DEF AnyInv, TypeOK, InPlay, NewDoc, GetId, Goto
  <2>2. NewDoc(t)'.intId = lastId + 1 /\ lastId' = lastId + 1
    BY <1>2 DEF AnyInv, TypeOK, NewDoc, GetId
  <2>3. \A d \in InPlay : d.intId \in Nat /\ d.intId <= lastId
    BY InPlayTypes DEF AnyInv, IdsGiven, Document
  <2>4. lastId \in Nat
    BY DEF AnyInv, TypeOK
  <2> DEFINE n == NewDoc(t)'
  <2>5. \A d \in InPlay : d.intId # n.intId /\ d.intId <= lastId'
    BY <2>2, <2>3, <2>4
  <2>6. n.intId <= lastId'
    BY <2>2, <2>4
  <2>7. \A d \in InPlay' : d \in InPlay \/ d = n
    BY <2>1
  <2> HIDE DEF n
  <2>8. \A d, e \in InPlay' : d.intId = e.intId => d = e
    BY <2>5, <2>7 DEF AnyInv, OneDocPerIntId
  <2>9. \A d \in InPlay' : d.intId <= lastId'
    BY <2>5, <2>6, <2>7
  <2> QED BY <2>8, <2>9 DEF OneDocPerIntId, IdsGiven
<1> QED BY <1>1, <1>2

(* The initial state satisfies what holds for any callers.                      *)
LEMMA AnyInit == Init => AnyInv
<1> SUFFICES ASSUME Init PROVE AnyInv
  OBVIOUS
<1>1. TypeOK /\ AddingIsAddDoc
  BY TypeInit
<1>2. InPlay = {}
  BY DEF Init, InPlay
<1> QED BY <1>1, <1>2 DEF Init, AnyInv, OneDocPerIntId, IdsGiven, KeyedByTrim, OldIsKeyed,
                          NotYetLoaded, DownIsIdle

(* Every step preserves what holds for any callers.                             *)
LEMMA AnyStep == AnyInv /\ [Next]_vars => AnyInv'
  BY TypeStep, AddingStep, DownStep, OldStep, KeyedStep, InPlayStep DEF AnyInv

(* Every variable of the Indexer keeps its type, however calls overlap.         *)
THEOREM TypeCorrect == Spec => []TypeOK
<1>1. Init => AnyInv
  BY AnyInit
<1>2. AnyInv /\ [Next]_vars => AnyInv'
  BY AnyStep
<1>3. AnyInv => TypeOK
  BY DEF AnyInv
<1> QED BY <1>1, <1>2, <1>3, PTL DEF Spec

------------------------------------------------------------------------------
(* Every stored document is posted, however calls overlap.                      *)

(* Every step leaves each stored document covered: each of its keywords has its *)
(* posting, or some call still on its way will put it there or is about to take *)
(* the document out of the store.                                               *)
LEMMA CoverStep == CoverInv /\ [Next]_vars => StoredIsCovered'
<1> SUFFICES ASSUME CoverInv, [Next]_vars,
                    process' = "serving", loaded',
                    NEW x \in Id, forward'[x] # NoDoc,
                    NEW i \in DOMAIN forward'[x].keywords
             PROVE  Covered(x, i)'
  BY DEF StoredIsCovered
<1>a. TypeOK /\ AddingIsAddDoc /\ OneDocPerIntId /\ KeyedByTrim /\ OldIsKeyed /\ NotYetLoaded
  BY DEF CoverInv, AnyInv
<1>b. \A y \in Id : process = "serving" /\ loaded /\ forward[y] # NoDoc =>
        \A j \in DOMAIN forward[y].keywords : Covered(y, j)
  BY DEF CoverInv, StoredIsCovered
<1>d. i \in Nat /\ i >= 1
  <2>1. forward'[x] \in Document
    BY AnyStep DEF CoverInv, AnyInv, TypeOK
  <2>2. forward'[x].keywords \in Seq(Keyword)
    BY <2>1, IndexerAssumption DEF Document, IndexerAssumption
  <2> QED BY <2>2
<1> USE DEF Goto, Return, NextKeyword, Begin, Thread, NewDoc
<1>c. SUFFICES ASSUME process = "serving" => Covered(x, i) \/ forward'[x] # forward[x]
               PROVE  Covered(x, i)'
  <2>1. CASE process = "serving" /\ forward'[x] = forward[x] /\ loaded
    BY <2>1, <1>b, <1>c
  <2>2. CASE forward'[x] # forward[x]
    BY <2>2, <1>c
  <2>3. CASE process # "serving"
    BY <2>3, <1>c
  <2>4. CASE process = "serving" /\ ~loaded
    BY <2>4 DEF Next, Step, vars, locals, HandleAddDoc, HandleDeleteDoc, Get, Unpost, ForwardDelete,
       GetId, ForwardSet, Post, Acknowledge, Load, StartRebuild, BuildRow, FinishRebuild, Close, Exit
  <2> QED BY <2>1, <2>2, <2>3, <2>4
<1>1. ASSUME NEW t \in Handler, NEW id \in Id, NEW kws \in KeywordLists, HandleAddDoc(t, id, kws)
      PROVE  Covered(x, i)'
  BY <1>1, <1>a, <1>c DEF HandleAddDoc, locals, AddDoc, Covered, PostingAt, TypeOK
<1>2. ASSUME NEW t \in Handler, NEW id \in Id, HandleDeleteDoc(t, id)
      PROVE  Covered(x, i)'
  BY <1>2, <1>a, <1>c DEF HandleDeleteDoc, locals, AddDoc, Covered, PostingAt, TypeOK
<1>3. ASSUME NEW t \in Thread, Get(t) PROVE Covered(x, i)'
  BY <1>3, <1>a, <1>c DEF Get, locals, AddDoc, Covered, PostingAt, TypeOK
<1>4. ASSUME NEW t \in Thread, Unpost(t) PROVE Covered(x, i)'
  <2>1. CASE PostingAt(forward[x], i) \in postings /\ PostingAt(forward[x], i) \notin postings'
    <3>1. forward[x].intId = old[t].intId
      BY <1>4, <2>1 DEF Unpost, RemovePosting, PostingAt
    <3>2. forward[x] # NoDoc /\ old[t] # NoDoc
      BY <1>4, <1>a, DocTypes DEF Unpost, TypeOK, KeywordsOf
    <3>3. forward[x] \in InPlay /\ old[t] \in InPlay
      BY <3>2 DEF InPlay
    <3>4. forward[x] = old[t]
      BY <3>1, <3>3, <1>a DEF OneDocPerIntId
    <3> QED BY <1>4, <3>4 DEF Unpost, Covered
  <2>2. CASE PostingAt(forward[x], i) \in postings'
    BY <1>4, <2>2 DEF Unpost, Covered, PostingAt
  <2>3. CASE PostingAt(forward[x], i) \notin postings
    BY <1>4, <2>3, <1>c, <1>a DEF Unpost, Covered, PostingAt, TypeOK
  <2> QED BY <2>1, <2>2, <2>3
<1>5. ASSUME NEW t \in Thread, ForwardDelete(t) PROVE Covered(x, i)'
  <2>1. x # Key(t) /\ forward'[x] = forward[x]
    BY <1>5, <1>a DEF ForwardDelete, Open, TypeOK
  <2>2. old[t] # forward[x]
    BY <1>5, <2>1, <1>a DEF OldIsKeyed, KeyedByTrim
  <2>3. \A u \in Thread : u # t => pc'[u] = pc[u] /\ old'[u] = old[u] /\ k'[u] = k[u]
                                  /\ NewDoc(u)' = NewDoc(u)
    BY <1>5, <1>a DEF ForwardDelete, TypeOK
  <2>4. Covered(x, i) /\ postings' = postings /\ pc[t] = "unpost"
    BY <1>5, <1>c, <2>1 DEF ForwardDelete
  <2>5. CASE PostingAt(forward[x], i) \in postings
    BY <2>1, <2>4, <2>5 DEF Covered, PostingAt
  <2>6. CASE \E u \in Thread : pc[u] = "post" /\ NewDoc(u) = forward[x] /\ k[u] <= i
    BY <2>1, <2>3, <2>4, <2>6 DEF Covered
  <2>7. CASE \E u \in Thread : pc[u] = "unpost" /\ old[u] = forward[x]
    BY <2>1, <2>2, <2>3, <2>7 DEF Covered
  <2> QED BY <2>4, <2>5, <2>6, <2>7 DEF Covered
<1>6. ASSUME NEW t \in Thread, GetId(t) PROVE Covered(x, i)'
  BY <1>6, <1>a, <1>c DEF GetId, locals, AddDoc, Covered, PostingAt, TypeOK
<1>7. ASSUME NEW t \in Thread, ForwardSet(t) PROVE Covered(x, i)'
  <2>1. CASE forward'[x] = forward[x]
    <3>1. Covered(x, i) /\ postings' = postings /\ pc[t] = "fset"
      BY <1>7, <2>1, <1>c DEF ForwardSet
    <3>2. \A u \in Thread : u # t => pc'[u] = pc[u] /\ old'[u] = old[u] /\ k'[u] = k[u]
                                    /\ NewDoc(u)' = NewDoc(u)
      BY <1>7, <1>a DEF ForwardSet, TypeOK
    <3> QED BY <2>1, <3>1, <3>2 DEF Covered, PostingAt
  <2>2. CASE forward'[x] # forward[x]
    <3>1. forward'[x] = NewDoc(t)' /\ pc'[t] = "post" /\ k'[t] = 1
      BY <1>7, <2>2, <1>a DEF ForwardSet, TypeOK
    <3> QED BY <3>1, <1>d DEF Covered
  <2> QED BY <2>1, <2>2
<1>8. ASSUME NEW t \in Thread, Post(t) PROVE Covered(x, i)'
  <2> DEFINE new == [key |-> call[t].keywords[k[t]], intId |-> newId[t], id |-> call[t].id]
  <2>0. forward' = forward /\ process = "serving" /\ Covered(x, i)
    BY <1>8, <1>c DEF Post
  <2>1. forward[x].intId = newId[t] => forward[x] = NewDoc(t)
    <3>1. forward[x] \in InPlay /\ NewDoc(t) \in InPlay
      BY <1>8, <2>0, <1>a, CallTypes, NoDocAssumption DEF Post, InPlay, AddingIsAddDoc, Adding
    <3> QED BY <3>1, <1>a DEF OneDocPerIntId
  <2>2. CASE PostingAt(forward[x], i) \in postings
    <3>1. PostingAt(forward[x], i) \in postings'
      BY <1>8, <2>0, <2>1, <2>2 DEF Post, SetPosting, PostingAt
    <3> QED BY <2>0, <3>1 DEF Covered, PostingAt
  <2>3. ASSUME NEW u \in Thread, pc[u] = "post", NewDoc(u) = forward[x], k[u] <= i
        PROVE  Covered(x, i)'
    <3>1. CASE u # t
      BY <1>8, <2>0, <2>3, <3>1, <1>a DEF Post, Covered, TypeOK
    <3>2. CASE u = t /\ i = k[t]
      <4>1. PostingAt(forward[x], i) \in postings'
        BY <1>8, <2>3, <3>2 DEF Post, SetPosting, PostingAt
      <4> QED BY <2>0, <4>1 DEF Covered, PostingAt
    <3>3. CASE u = t /\ i # k[t]
      <4>1. i \in Nat /\ k[t] \in Nat
        BY <1>d, <1>a DEF TypeOK
      <4>2. k'[t] <= i
        BY <1>8, <2>3, <3>3, <4>1, <1>a DEF Post, TypeOK
      <4> QED BY <1>8, <2>0, <2>3, <3>3, <4>2 DEF Post, Covered
    <3> QED BY <3>1, <3>2, <3>3
  <2>4. CASE \E u \in Thread : pc[u] = "unpost" /\ old[u] = forward[x]
    BY <1>8, <2>0, <2>4 DEF Post, Covered
  <2> QED BY <2>0, <2>2, <2>3, <2>4 DEF Covered
<1>9. ASSUME NEW t \in Thread, Acknowledge(t) PROVE Covered(x, i)'
  <2>1. forward' = forward /\ Covered(x, i)
    BY <1>9, <1>c DEF Acknowledge
  <2>2. ~(NewDoc(t) = forward[x] /\ k[t] <= i)
    BY <1>9, <2>1, <1>a, CallTypes DEF Acknowledge, TypeOK
  <2>3. \A u \in Thread : u # t => pc'[u] = pc[u] /\ old'[u] = old[u] /\ k'[u] = k[u]
                                  /\ NewDoc(u)' = NewDoc(u)
    BY <1>9, <1>a DEF Acknowledge, TypeOK
  <2> QED BY <1>9, <2>1, <2>2, <2>3 DEF Acknowledge, Covered, PostingAt
<1>10. CASE Load
  BY <1>10 DEF Load, Covered, PostingAt, PostingsOf
<1>11. CASE StartRebuild
  BY <1>11, <1>a, <1>c DEF StartRebuild, locals, AddDoc, Covered, PostingAt, TypeOK
<1>12. CASE BuildRow
  BY <1>12, <1>a, <1>c DEF BuildRow, locals, AddDoc, Covered, PostingAt, TypeOK
<1>13. CASE FinishRebuild
  BY <1>13, <1>a DEF FinishRebuild, NotYetLoaded
<1>14. CASE Close
  BY <1>14, <1>a, <1>c DEF Close, locals, AddDoc, Covered, PostingAt, TypeOK
<1>15. CASE Exit
  BY <1>15, <1>a, <1>c DEF Exit, locals, AddDoc, Covered, PostingAt, TypeOK
<1>16. CASE UNCHANGED vars
  BY <1>16, <1>a, <1>c DEF vars, locals, locals, AddDoc, Covered, PostingAt, TypeOK
<1> QED
  BY <1>1, <1>2, <1>3, <1>4, <1>5, <1>6, <1>7, <1>8, <1>9,
     <1>10, <1>11, <1>12, <1>13, <1>14, <1>15, <1>16 DEF Next, Step

(* At first nothing is stored.                                                  *)
LEMMA CoverInit == Init => CoverInv
<1>1. Init => StoredIsCovered
  BY DEF Init, StoredIsCovered
<1> QED BY <1>1, AnyInit DEF CoverInv

(* When no call works on a key, its document is posted.                         *)
LEMMA CoveredIsPosted == CoverInv => StoredIsPosted
<1> SUFFICES ASSUME CoverInv, process = "serving", loaded,
                    NEW x \in Id, forward[x] # NoDoc, ~Busy(x),
                    NEW i \in DOMAIN forward[x].keywords
             PROVE  PostingAt(forward[x], i) \in postings
  BY DEF StoredIsPosted, PostingsOf, PostingAt
<1>1. Covered(x, i)
  BY DEF CoverInv, StoredIsCovered
<1>2. TrimSpace[forward[x].id] = x
  BY DEF CoverInv, AnyInv, KeyedByTrim
<1>3. ASSUME NEW t \in Thread, pc[t] = "post", NewDoc(t) = forward[x] PROVE FALSE
  <2>1. Key(t) = x
    BY <1>2, <1>3, CallTypes DEF CoverInv, AnyInv, AddingIsAddDoc, Adding, NewDoc
  <2> QED BY <1>3, <2>1 DEF Busy, Running
<1>4. ASSUME NEW t \in Thread, pc[t] = "unpost", old[t] = forward[x] PROVE FALSE
  <2>1. Key(t) = x
    BY <1>2, <1>4 DEF CoverInv, AnyInv, OldIsKeyed
  <2> QED BY <1>4, <2>1 DEF Busy, Running
<1> QED BY <1>1, <1>3, <1>4 DEF Covered

(* No stored document drops out of the reverse index, whatever the overlap of   *)
(* AddDocs and DeleteDocs, the crashes and the restarts.                        *)
THEOREM StoredIsPostedAlways == Spec => []StoredIsPosted
<1>1. CoverInv /\ [Next]_vars => CoverInv'
  BY AnyStep, CoverStep DEF CoverInv
<1> QED BY <1>1, CoverInit, CoveredIsPosted, PTL DEF Spec

(* When no id has blanks around it a stored document is found by its keywords.  *)
THEOREM StoredIsFoundAlways ==
  ASSUME \A id \in Id : TrimSpace[id] = id
  PROVE  Spec => []StoredIsFound
<1>1. TypeOK /\ KeyedByTrim /\ StoredIsPosted => StoredIsFound
  <2> SUFFICES ASSUME TypeOK, KeyedByTrim, StoredIsPosted, process = "serving", loaded,
                      NEW x \in Id, forward[x] # NoDoc, ~Busy(x),
                      NEW i \in DOMAIN forward[x].keywords
               PROVE  forward[x] \in Search(forward[x].keywords[i])
    BY DEF StoredIsFound
  <2>1. PostingAt(forward[x], i) \in postings
    BY DEF StoredIsPosted, PostingsOf, PostingAt
  <2>2. forward[x].id = x
    BY DEF KeyedByTrim, TypeOK, Document
  <2> QED BY <2>1, <2>2 DEF Search, PostingAt
<1>2. Init => AnyInv
  BY AnyInit
<1>3. AnyInv /\ [Next]_vars => AnyInv'
  BY AnyStep
<1>4. AnyInv => TypeOK /\ KeyedByTrim
  BY DEF AnyInv
<1> QED BY <1>1, <1>2, <1>3, <1>4, StoredIsPostedAlways, PTL DEF Spec

------------------------------------------------------------------------------
(* With serial callers no posting outlives its document.                        *)

(* Serial callers never have two calls on one key.                              *)
LEMMA OneCallStep ==
  ASSUME SerialCallers
  PROVE  TypeOK /\ OneCallPerKey /\ [Next]_vars => OneCallPerKey'
<1> SUFFICES ASSUME TypeOK, OneCallPerKey, [Next]_vars PROVE OneCallPerKey'
  OBVIOUS
<1>a. \A t \in Thread, c \in Call :
        Begin(t, c) /\ pc' = [pc EXCEPT ![t] = "get"] /\ call' = [call EXCEPT ![t] = c]
          => OneCallPerKey'
  BY DEF TypeOK, OneCallPerKey, Begin, Busy, Running, Key
<1> USE DEF TypeOK, OneCallPerKey, Running, Key, Goto, Return, NextKeyword
<1>1. ASSUME NEW t \in Handler, NEW id \in Id, NEW kws \in KeywordLists, HandleAddDoc(t, id, kws)
      PROVE  OneCallPerKey'
  <2>1. [op |-> "AddDoc", id |-> id, keywords |-> kws] \in Call
    BY DEF Call
  <2> QED BY <1>1, <2>1, <1>a DEF HandleAddDoc, AddDoc, Begin, Thread
<1>2. ASSUME NEW t \in Handler, NEW id \in Id, HandleDeleteDoc(t, id)
      PROVE  OneCallPerKey'
  <2>1. [op |-> "DeleteDoc", id |-> id, keywords |-> <<>>] \in Call
    BY DEF Call
  <2> QED BY <1>2, <2>1, <1>a DEF HandleDeleteDoc, Begin, Thread
<1>3. ASSUME NEW t \in Thread, Get(t) PROVE OneCallPerKey'
  BY <1>3 DEF Get, locals
<1>4. ASSUME NEW t \in Thread, Unpost(t) PROVE OneCallPerKey'
  BY <1>4 DEF Unpost, locals
<1>5. ASSUME NEW t \in Thread, ForwardDelete(t) PROVE OneCallPerKey'
  BY <1>5 DEF ForwardDelete, locals
<1>6. ASSUME NEW t \in Thread, GetId(t) PROVE OneCallPerKey'
  BY <1>6 DEF GetId, locals
<1>7. ASSUME NEW t \in Thread, ForwardSet(t) PROVE OneCallPerKey'
  BY <1>7 DEF ForwardSet, locals
<1>8. ASSUME NEW t \in Thread, Post(t) PROVE OneCallPerKey'
  BY <1>8 DEF Post, locals
<1>9. ASSUME NEW t \in Thread, Acknowledge(t) PROVE OneCallPerKey'
  BY <1>9 DEF Acknowledge, locals
<1>10. CASE Load
  BY <1>10 DEF Load, locals
<1>11. CASE StartRebuild
  BY <1>11 DEF StartRebuild, locals
<1>12. CASE BuildRow
  <2>1. row + 1 \in DOMAIN Csv
    BY <1>12, IndexerAssumption DEF BuildRow, IndexerAssumption
  <2>2. Csv[row + 1] \in Row
    BY <2>1, IndexerAssumption DEF IndexerAssumption
  <2>3. [op |-> "AddDoc", id |-> Csv[row + 1].id, keywords |-> Csv[row + 1].keywords] \in Call
    BY <2>2 DEF Call, Row
  <2>4. CASE AddDoc(Main, Csv[row + 1].id, Csv[row + 1].keywords)
    BY <2>3, <2>4, <1>a DEF AddDoc, Begin, Thread
  <2>5. CASE UNCHANGED locals
    BY <2>5 DEF locals
  <2> QED BY <1>12, <2>4, <2>5 DEF BuildRow
<1>13. CASE FinishRebuild
  BY <1>13 DEF FinishRebuild, locals
<1>14. CASE Close
  BY <1>14 DEF Close, locals
<1>15. CASE Exit
  BY <1>15 DEF Exit
<1>16. CASE UNCHANGED vars
  BY <1>16 DEF vars, locals, locals
<1> QED
  BY <1>1, <1>2, <1>3, <1>4, <1>5, <1>6, <1>7, <1>8, <1>9,
     <1>10, <1>11, <1>12, <1>13, <1>14, <1>15, <1>16 DEF Next, Step

(* With one call on a key at a time, what the call has read or written of the   *)
(* store is still so.                                                           *)
LEMMA KnowsStep ==
  AnyInv /\ OneCallPerKey /\ CallKnowsStore /\ [Next]_vars => CallKnowsStore'
<1> SUFFICES ASSUME AnyInv, OneCallPerKey, CallKnowsStore, [Next]_vars PROVE CallKnowsStore'
  OBVIOUS
<1>a. TypeOK /\ AddingIsAddDoc /\ DownIsIdle
  BY DEF AnyInv
<1> USE DEF CallKnowsStore, Open, NewDoc, Key, Goto, Return, NextKeyword, Begin, Thread
<1>1. ASSUME NEW t \in Handler, NEW id \in Id, NEW kws \in KeywordLists, HandleAddDoc(t, id, kws)
      PROVE  CallKnowsStore'
  BY <1>1, <1>a DEF HandleAddDoc, locals, AddDoc, TypeOK
<1>2. ASSUME NEW t \in Handler, NEW id \in Id, HandleDeleteDoc(t, id)
      PROVE  CallKnowsStore'
  BY <1>2, <1>a DEF HandleDeleteDoc, locals, AddDoc, TypeOK
<1>3. ASSUME NEW t \in Thread, Get(t) PROVE CallKnowsStore'
  BY <1>3, <1>a DEF Get, locals, AddDoc, TypeOK
<1>4. ASSUME NEW t \in Thread, Unpost(t) PROVE CallKnowsStore'
  BY <1>4, <1>a DEF Unpost, locals, AddDoc, TypeOK
<1>5. ASSUME NEW t \in Thread, ForwardDelete(t) PROVE CallKnowsStore'
  <2>0. \A u \in Thread : u # t => pc'[u] = pc[u] /\ old'[u] = old[u]
                                  /\ call'[u] = call[u] /\ newId'[u] = newId[u]
    BY <1>5, <1>a DEF ForwardDelete, TypeOK
  <2>1. \A u \in Thread : u # t /\ pc[u] # "idle" => Key(u) # Key(t)
    BY <1>5 DEF ForwardDelete, OneCallPerKey, Running
  <2>2. \A u \in Thread : u # t /\ pc[u] # "idle" => forward'[Key(u)] = forward[Key(u)]
    BY <1>5, <2>1, <1>a, CallTypes DEF ForwardDelete, TypeOK
  <2>3. process' = process
    BY <1>5 DEF ForwardDelete
  <2>4. pc'[t] \in {"idle", "getid"} /\ (pc'[t] = "getid" => call'[t] = call[t])
    BY <1>5, <1>a DEF ForwardDelete, TypeOK
  <2>5. Open /\ call'[t] = call[t] => forward'[Key(t)'] = NoDoc
    BY <1>5, <1>a, CallTypes DEF ForwardDelete, TypeOK
  <2> QED BY <2>0, <2>2, <2>3, <2>4, <2>5
<1>6. ASSUME NEW t \in Thread, GetId(t) PROVE CallKnowsStore'
  BY <1>6, <1>a DEF GetId, locals, AddDoc, TypeOK
<1>7. ASSUME NEW t \in Thread, ForwardSet(t) PROVE CallKnowsStore'
  <2>0. \A u \in Thread : u # t => pc'[u] = pc[u] /\ old'[u] = old[u]
                                  /\ call'[u] = call[u] /\ newId'[u] = newId[u]
    BY <1>7, <1>a DEF ForwardSet, TypeOK
  <2>1. \A u \in Thread : u # t /\ pc[u] # "idle" => Key(u) # Key(t)
    BY <1>7 DEF ForwardSet, OneCallPerKey, Running
  <2>2. \A u \in Thread : u # t /\ pc[u] # "idle" => forward'[Key(u)] = forward[Key(u)]
    BY <1>7, <2>1, <1>a, CallTypes DEF ForwardSet, TypeOK
  <2>3. process' = process /\ pc'[t] = "post" /\ call' = call /\ newId' = newId
    BY <1>7, <1>a DEF ForwardSet, TypeOK
  <2>4. Open => forward'[Key(t)] = NewDoc(t)
    BY <1>7, <1>a, CallTypes DEF ForwardSet, TypeOK
  <2> QED BY <2>0, <2>2, <2>3, <2>4
<1>8. ASSUME NEW t \in Thread, Post(t) PROVE CallKnowsStore'
  BY <1>8, <1>a DEF Post, locals, AddDoc, TypeOK
<1>9. ASSUME NEW t \in Thread, Acknowledge(t) PROVE CallKnowsStore'
  BY <1>9, <1>a DEF Acknowledge, locals, AddDoc, TypeOK
<1>10. CASE Load
  BY <1>10, <1>a DEF Load, locals, DownIsIdle
<1>11. CASE StartRebuild
  BY <1>11, <1>a DEF StartRebuild, locals, DownIsIdle
<1>12. CASE BuildRow
  BY <1>12, <1>a DEF BuildRow, locals, AddDoc, TypeOK
<1>13. CASE FinishRebuild
  BY <1>13, <1>a DEF FinishRebuild, locals, AddDoc, TypeOK
<1>14. CASE Close
  BY <1>14, <1>a DEF Close, locals, AddDoc, TypeOK
<1>15. CASE Exit
  BY <1>15, <1>a DEF Exit, locals, AddDoc, TypeOK
<1>16. CASE UNCHANGED vars
  BY <1>16, <1>a DEF vars, locals, locals, AddDoc, TypeOK
<1> QED
  BY <1>1, <1>2, <1>3, <1>4, <1>5, <1>6, <1>7, <1>8, <1>9,
     <1>10, <1>11, <1>12, <1>13, <1>14, <1>15, <1>16 DEF Next, Step

(* A posting that stays still belongs when its document stays and no DeleteDoc  *)
(* of its key went on.                                                          *)
LEMMA BelongsFrame ==
  ASSUME TypeOK, TypeOK', NEW p \in postings, Belongs(p),
         forward'[TrimSpace[p.id]] = forward[TrimSpace[p.id]],
         \A u \in Thread : pc'[u] = "unpost" =>
           \/ k'[u] = 1
           \/ Key(u)' # TrimSpace[p.id]
           \/ pc[u] = "unpost" /\ call'[u] = call[u] /\ k'[u] = k[u]
  PROVE  Belongs(p)'
<1> DEFINE x == TrimSpace[p.id]
<1>1. x \in Id
  BY IndexerAssumption DEF TypeOK, Posting, IndexerAssumption
<1>2. PICK i \in DOMAIN forward[x].keywords :
        /\ p = PostingAt(forward[x], i)
        /\ \A t \in Thread : pc[t] = "unpost" /\ Key(t) = x => k[t] <= i
  BY DEF Belongs
<1>3. forward[x] # NoDoc
  BY DEF Belongs
<1>4. i \in Nat /\ i >= 1
  <2>1. forward[x] \in Document
    BY <1>1, <1>3 DEF TypeOK
  <2>2. forward[x].keywords \in Seq(Keyword)
    BY <2>1, IndexerAssumption DEF Document, IndexerAssumption
  <2> QED BY <2>2
<1>5. \A t \in Thread : pc'[t] = "unpost" /\ Key(t)' = x => k'[t] <= i
  BY <1>2, <1>4 DEF Key
<1>6. i \in DOMAIN forward'[x].keywords /\ p = PostingAt(forward'[x], i) /\ forward'[x] # NoDoc
  BY <1>2, <1>3 DEF PostingAt
<1> QED BY <1>5, <1>6 DEF Belongs, PostingAt

(* With one call on a key at a time, every posting belongs to the stored        *)
(* document or to the call that is at work on its key.                          *)
LEMMA BelongStep ==
  SerialInv /\ [Next]_vars => PostingsBelong'
<1> SUFFICES ASSUME SerialInv, [Next]_vars, Open', NEW p \in postings' PROVE Belongs(p)'
  BY DEF PostingsBelong
<1>a. TypeOK /\ TypeOK' /\ AddingIsAddDoc /\ KeyedByTrim /\ OldIsKeyed /\ DownIsIdle
  BY AnyStep DEF SerialInv, AnyInv
<1>b. OneCallPerKey /\ CallKnowsStore /\ CallKnowsStore' /\ PostingsBelong
  BY KnowsStep DEF SerialInv
<1>c. \A q \in postings \cup postings' : q \in Posting /\ TrimSpace[q.id] \in Id
  BY <1>a, IndexerAssumption DEF TypeOK, Posting, IndexerAssumption
<1>d. ASSUME postings' = postings, forward' = forward, Open,
             \A u \in Thread : pc'[u] = "unpost" =>
               k'[u] = 1 \/ (pc[u] = "unpost" /\ call'[u] = call[u] /\ k'[u] = k[u])
      PROVE  Belongs(p)'
  BY <1>a, <1>b, <1>d, BelongsFrame DEF PostingsBelong
<1>1. ASSUME NEW t \in Handler, NEW id \in Id, NEW kws \in KeywordLists, HandleAddDoc(t, id, kws)
      PROVE  Belongs(p)'
  <2>1. postings' = postings /\ forward' = forward /\ Open
    BY <1>1 DEF HandleAddDoc, locals, Open
  <2>2. \A u \in Thread : pc'[u] = "unpost" =>
           k'[u] = 1 \/ (pc[u] = "unpost" /\ call'[u] = call[u] /\ k'[u] = k[u])
    BY <1>1, <1>a DEF HandleAddDoc, locals, AddDoc, Begin, Goto, Return, TypeOK, Thread
  <2> QED BY <2>1, <2>2, <1>d
<1>2. ASSUME NEW t \in Handler, NEW id \in Id, HandleDeleteDoc(t, id)
      PROVE  Belongs(p)'
  <2>1. postings' = postings /\ forward' = forward /\ Open
    BY <1>2 DEF HandleDeleteDoc, locals, Open
  <2>2. \A u \in Thread : pc'[u] = "unpost" =>
           k'[u] = 1 \/ (pc[u] = "unpost" /\ call'[u] = call[u] /\ k'[u] = k[u])
    BY <1>2, <1>a DEF HandleDeleteDoc, locals, AddDoc, Begin, Goto, Return, TypeOK, Thread
  <2> QED BY <2>1, <2>2, <1>d
<1>3. ASSUME NEW t \in Thread, Get(t) PROVE Belongs(p)'
  <2>1. postings' = postings /\ forward' = forward /\ Open
    BY <1>3 DEF Get, locals, Open
  <2>2. \A u \in Thread : pc'[u] = "unpost" =>
           k'[u] = 1 \/ (pc[u] = "unpost" /\ call'[u] = call[u] /\ k'[u] = k[u])
    BY <1>3, <1>a DEF Get, locals, AddDoc, Begin, Goto, Return, TypeOK, Thread
  <2> QED BY <2>1, <2>2, <1>d
<1>4. ASSUME NEW t \in Thread, Unpost(t) PROVE Belongs(p)'
  <2>1. p \in postings /\ Belongs(p) /\ forward' = forward /\ Open
    BY <1>4, <1>b DEF Unpost, RemovePosting, PostingsBelong, Open
  <2> DEFINE x == TrimSpace[p.id]
  <2>2. CASE Key(t) # x
    <3>1. \A u \in Thread : u # t => pc'[u] = pc[u] /\ call'[u] = call[u] /\ k'[u] = k[u]
      BY <1>4, <1>a DEF Unpost, NextKeyword, TypeOK
    <3>2. Key(t)' # x
      BY <1>4, <2>2 DEF Unpost, NextKeyword, Key
    <3> QED BY <2>1, <3>1, <3>2, <1>a, BelongsFrame
  <2>3. CASE Key(t) = x
    <3>1. PICK i \in DOMAIN forward[x].keywords :
            /\ p = PostingAt(forward[x], i)
            /\ \A u \in Thread : pc[u] = "unpost" /\ Key(u) = x => k[u] <= i
      BY <2>1 DEF Belongs
    <3>2. old[t] = forward[x] /\ forward[x] # NoDoc /\ k[t] <= i
      BY <1>4, <2>1, <2>3, <3>1, <1>b DEF Unpost, CallKnowsStore, Belongs
    <3>3. i # k[t]
      BY <1>4, <3>1, <3>2 DEF Unpost, RemovePosting, PostingAt
    <3>4. i \in Nat /\ k[t] \in Nat
      <4>1. forward[x] \in Document
        BY <1>a, <1>c, <2>1, <3>2 DEF TypeOK
      <4>2. forward[x].keywords \in Seq(Keyword)
        BY <4>1, IndexerAssumption DEF Document, IndexerAssumption
      <4>3. \A kws \in Seq(Keyword) : \A j \in DOMAIN kws : j \in Nat
        OBVIOUS
      <4>4. i \in Nat
        BY <4>2, <4>3
      <4> QED BY <4>4, <1>a DEF TypeOK
    <3>5. k'[t] <= i
      BY <1>4, <3>2, <3>3, <3>4, <1>a DEF Unpost, NextKeyword, TypeOK
    <3>6. \A u \in Thread : pc'[u] = "unpost" /\ Key(u)' = x => u = t
      BY <1>4, <2>3, <1>b DEF Unpost, NextKeyword, OneCallPerKey, Running, Key
    <3> QED BY <2>1, <3>1, <3>2, <3>5, <3>6 DEF Belongs, PostingAt
  <2> QED BY <2>2, <2>3
<1>5. ASSUME NEW t \in Thread, ForwardDelete(t) PROVE Belongs(p)'
  <2>1. p \in postings /\ Belongs(p) /\ Open
    BY <1>5, <1>b DEF ForwardDelete, PostingsBelong, Open
  <2> DEFINE x == TrimSpace[p.id]
  <2>2. x # Key(t)
    <3>1. SUFFICES ASSUME x = Key(t) PROVE FALSE
      OBVIOUS
    <3>2. PICK i \in DOMAIN forward[x].keywords : k[t] <= i
      BY <1>5, <2>1, <3>1 DEF Belongs, ForwardDelete
    <3>3. old[t] = forward[x] /\ forward[x] # NoDoc
      BY <1>5, <2>1, <3>1, <1>b DEF ForwardDelete, CallKnowsStore, Belongs
    <3>4. forward[x].keywords \in Seq(Keyword)
      <4>1. forward[x] \in Document
        BY <1>a, <1>c, <2>1, <3>3 DEF TypeOK
      <4> QED BY <4>1, IndexerAssumption DEF Document, IndexerAssumption
    <3>5. k[t] > Len(forward[x].keywords)
      BY <1>5, <3>3 DEF ForwardDelete, KeywordsOf
    <3> QED BY <3>2, <3>4, <3>5, <1>a DEF TypeOK
  <2>3. forward'[x] = forward[x]
    BY <1>5, <2>2, <1>a, <1>c, <2>1 DEF ForwardDelete, TypeOK
  <2>4. \A u \in Thread : pc'[u] = "unpost" =>
           pc[u] = "unpost" /\ call'[u] = call[u] /\ k'[u] = k[u]
    BY <1>5, <1>a DEF ForwardDelete, Goto, Return, TypeOK
  <2> QED BY <2>1, <2>3, <2>4, <1>a, BelongsFrame
<1>6. ASSUME NEW t \in Thread, GetId(t) PROVE Belongs(p)'
  <2>1. postings' = postings /\ forward' = forward /\ Open
    BY <1>6 DEF GetId, locals, Open
  <2>2. \A u \in Thread : pc'[u] = "unpost" =>
           k'[u] = 1 \/ (pc[u] = "unpost" /\ call'[u] = call[u] /\ k'[u] = k[u])
    BY <1>6, <1>a DEF GetId, locals, AddDoc, Begin, Goto, Return, TypeOK, Thread
  <2> QED BY <2>1, <2>2, <1>d
<1>7. ASSUME NEW t \in Thread, ForwardSet(t) PROVE Belongs(p)'
  <2>1. p \in postings /\ Belongs(p) /\ Open
    BY <1>7, <1>b DEF ForwardSet, PostingsBelong, Open
  <2> DEFINE x == TrimSpace[p.id]
  <2>2. x # Key(t)
    BY <1>7, <2>1, <1>b DEF ForwardSet, CallKnowsStore, Belongs
  <2>3. forward'[x] = forward[x]
    BY <1>7, <2>2, <1>a, <1>c, <2>1 DEF ForwardSet, TypeOK
  <2>4. \A u \in Thread : pc'[u] = "unpost" =>
           pc[u] = "unpost" /\ call'[u] = call[u] /\ k'[u] = k[u]
    BY <1>7, <1>a DEF ForwardSet, Goto, TypeOK
  <2> QED BY <2>1, <2>3, <2>4, <1>a, BelongsFrame
<1>8. ASSUME NEW t \in Thread, Post(t) PROVE Belongs(p)'
  <2>0. forward' = forward /\ Open
    BY <1>8 DEF Post, Open
  <2>1. CASE p \in postings
    <3>1. \A u \in Thread : pc'[u] = "unpost" =>
             pc[u] = "unpost" /\ call'[u] = call[u] /\ k'[u] = k[u]
      BY <1>8, <1>a DEF Post, NextKeyword, TypeOK
    <3> QED BY <2>0, <2>1, <3>1, <1>a, <1>b, BelongsFrame DEF PostingsBelong
  <2>2. CASE p \notin postings
    <3> DEFINE x == TrimSpace[call[t].id]
    <3>1. p = [key |-> call[t].keywords[k[t]], intId |-> newId[t], id |-> call[t].id]
      BY <1>8, <2>2 DEF Post, SetPosting
    <3>2. x = Key(t) /\ forward[x] = NewDoc(t) /\ NewDoc(t) # NoDoc
      BY <1>8, <2>0, <1>a, <1>b, CallTypes, NoDocAssumption
      DEF Post, AddingIsAddDoc, Adding, CallKnowsStore
    <3>3. k[t] \in DOMAIN forward[x].keywords /\ p = PostingAt(forward[x], k[t])
      BY <1>8, <3>1, <3>2, <1>a, CallTypes DEF Post, PostingAt, NewDoc, TypeOK
    <3>4. \A u \in Thread : pc'[u] = "unpost" => Key(u)' # x
      BY <1>8, <3>2, <1>b DEF Post, NextKeyword, OneCallPerKey, Running, Key
    <3> QED BY <2>0, <3>1, <3>2, <3>3, <3>4 DEF Belongs, PostingAt
  <2> QED BY <2>1, <2>2
<1>9. ASSUME NEW t \in Thread, Acknowledge(t) PROVE Belongs(p)'
  <2>1. postings' = postings /\ forward' = forward /\ Open
    BY <1>9 DEF Acknowledge, locals, Open
  <2>2. \A u \in Thread : pc'[u] = "unpost" =>
           k'[u] = 1 \/ (pc[u] = "unpost" /\ call'[u] = call[u] /\ k'[u] = k[u])
    BY <1>9, <1>a DEF Acknowledge, locals, AddDoc, Begin, Goto, Return, TypeOK, Thread
  <2> QED BY <2>1, <2>2, <1>d
<1>10. CASE Load
  <2>1. PICK x \in Id : forward[x] # NoDoc /\ p \in PostingsOf(forward[x])
    BY <1>10 DEF Load
  <2>2. PICK i \in DOMAIN forward[x].keywords : p = PostingAt(forward[x], i)
    BY <2>1 DEF PostingsOf, PostingAt
  <2>3. TrimSpace[p.id] = x
    BY <2>1, <2>2, <1>a DEF KeyedByTrim, PostingAt
  <2>4. \A u \in Thread : pc'[u] = "idle"
    BY <1>10, <1>a DEF Load, locals, DownIsIdle
  <2>5. forward' = forward
    BY <1>10 DEF Load
  <2> QED BY <2>1, <2>2, <2>3, <2>4, <2>5 DEF Belongs, PostingAt
<1>11. CASE StartRebuild
  BY <1>11, <1>a DEF StartRebuild, DownIsIdle
<1>12. CASE BuildRow
  <2>1. postings' = postings /\ forward' = forward /\ Open
    BY <1>12 DEF BuildRow, locals, Open
  <2>2. \A u \in Thread : pc'[u] = "unpost" =>
           k'[u] = 1 \/ (pc[u] = "unpost" /\ call'[u] = call[u] /\ k'[u] = k[u])
    BY <1>12, <1>a DEF BuildRow, locals, AddDoc, Begin, Goto, Return, TypeOK, Thread
  <2> QED BY <2>1, <2>2, <1>d
<1>13. CASE FinishRebuild
  <2>1. postings' = postings /\ forward' = forward /\ Open
    BY <1>13 DEF FinishRebuild, locals, Open
  <2>2. \A u \in Thread : pc'[u] = "unpost" =>
           k'[u] = 1 \/ (pc[u] = "unpost" /\ call'[u] = call[u] /\ k'[u] = k[u])
    BY <1>13, <1>a DEF FinishRebuild, locals, AddDoc, Begin, Goto, Return, TypeOK, Thread
  <2> QED BY <2>1, <2>2, <1>d
<1>14. CASE Close
  BY <1>14 DEF Close, Open
<1>15. CASE Exit
  BY <1>15 DEF Exit, Open
<1>16. CASE UNCHANGED vars
  <2>1. postings' = postings /\ forward' = forward /\ Open
    BY <1>16 DEF vars, locals, locals, Open
  <2>2. \A u \in Thread : pc'[u] = "unpost" =>
           k'[u] = 1 \/ (pc[u] = "unpost" /\ call'[u] = call[u] /\ k'[u] = k[u])
    BY <1>16, <1>a DEF vars, locals, locals, AddDoc, Begin, Goto, Return, TypeOK, Thread
  <2> QED BY <2>1, <2>2, <1>d
<1> QED
  BY <1>1, <1>2, <1>3, <1>4, <1>5, <1>6, <1>7, <1>8, <1>9,
     <1>10, <1>11, <1>12, <1>13, <1>14, <1>15, <1>16 DEF Next, Step

(* The invariant for serial callers is inductive.                               *)
LEMMA SerialInductive ==
  ASSUME SerialCallers
  PROVE  (Init => SerialInv) /\ (SerialInv /\ [Next]_vars => SerialInv')
<1>1. Init => SerialInv
  <2>1. Init => OneCallPerKey /\ CallKnowsStore /\ PostingsBelong
    BY DEF Init, OneCallPerKey, CallKnowsStore, PostingsBelong, Running, Open
  <2> QED BY <2>1, AnyInit DEF SerialInv
<1>2. SerialInv /\ [Next]_vars => SerialInv'
  <2>1. SerialInv /\ [Next]_vars => OneCallPerKey'
    BY OneCallStep DEF SerialInv, AnyInv
  <2> QED BY <2>1, AnyStep, KnowsStep, BelongStep DEF SerialInv
<1> QED BY <1>1, <1>2

(* When callers do not overlap calls on one id, AddDoc and DeleteDoc leave no   *)
(* posting behind, whatever the crashes, the restarts and the rebuilds.         *)
THEOREM PostedIsStoredAlways ==
  ASSUME SerialCallers
  PROVE  Spec => []PostedIsStored
<1>1. Init => SerialInv
  BY SerialInductive
<1>2. SerialInv /\ [Next]_vars => SerialInv'
  BY SerialInductive
<1>3. SerialInv => PostedIsStored
  BY DEF SerialInv, PostingsBelong, Belongs, PostedIsStored, Open, PostingsOf, PostingAt
<1> QED BY <1>1, <1>2, <1>3, PTL DEF Spec

(* What an AddDoc answers 1 for is stored, as long as the store is open.        *)
THEOREM AcknowledgedIsStoredAlways ==
  ASSUME SerialCallers
  PROVE  Spec => AcknowledgedIsStored
<1>1. Init => SerialInv
  BY SerialInductive
<1>2. SerialInv /\ [Next]_vars => SerialInv'
  BY SerialInductive
<1>3. SerialInv /\ [Next]_vars
        => [\A t \in Thread : Acknowledge(t) /\ Open => forward[Key(t)] = NewDoc(t)]_vars
  BY DEF SerialInv, CallKnowsStore, Acknowledge
<1> QED BY <1>1, <1>2, <1>3, PTL DEF Spec, AcknowledgedIsStored
==============================================================================
