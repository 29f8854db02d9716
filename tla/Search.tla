------------------------------- MODULE Search -------------------------------
(* A search inside one worker (internal/reverse_index, types/term_query.go and  *)
(* Indexer.Search), running beside the writers of module Indexer.  It takes no  *)
(* lock: it walks one skip list after the other while the writers change them,  *)
(* combines what it found on the way back from the recursion over the query,    *)
(* and reads the documents from the store last.                                 *)
EXTENDS Indexer, SequencesExt

CONSTANTS Bit,            (* bits of the 64 of a flag                             *)
          BitsOf,         (* the feature bits of the document of an id            *)
          Term,           (* the keywords, field and word, queries may have       *)
          KeywordOf,      (* the keyword, field and word, behind a key            *)
          TermQuery,      (* the queries of the clients, and all their parts      *)
          Expr,           (* what clients may mean, with all parts of it          *)
          Build,          (* the query a client builds for what it means          *)
          Asks,           (* the searches clients make: a sequence                *)
          Written,        (* the ids clients write to                             *)
          NoPosting,      (* no element: the cursor is at the end of a list       *)
          ReadErrors      (* TRUE: one read of the store may fail in a search     *)

------------------------------------------------------------------------------
(* Queries: a keyword, or parts that must all, or should at least once, match.  *)
EmptyQuery       == [Keyword |-> <<>>, Must |-> <<>>, Should |-> <<>>]
NewTermQuery(kw) == [EmptyQuery EXCEPT !.Keyword = <<kw>>]
Empty(tq)        == tq = EmptyQuery

(* The queries that are not empty, in their order.                              *)
NonEmpty(querys) ==
  LET array[n \in 0 .. Len(querys)] ==
        IF n = 0 THEN <<>>
        ELSE IF Empty(querys[n]) THEN array[n - 1]
        ELSE Append(array[n - 1], querys[n])
  IN array[Len(querys)]

(* The operators whose names begin with Faulty are not part of the              *)
(* specification, as in Indexer.  Faulty: the receiver is left out.             *)
FaultyAnd(tq, querys) ==
  IF querys = <<>> THEN tq ELSE [EmptyQuery EXCEPT !.Must = NonEmpty(querys)]

And(tq, querys) ==
  IF querys = <<>> THEN tq ELSE [EmptyQuery EXCEPT !.Must = NonEmpty(<<tq>> \o querys)]

Or(tq, querys) ==
  IF querys = <<>> THEN tq ELSE [EmptyQuery EXCEPT !.Should = NonEmpty(<<tq>> \o querys)]

(* What a client means: nothing in particular, a term, or the conjunction or    *)
(* disjunction of others.                                                       *)
None      == [op |-> "none", key |-> <<>>, args |-> <<>>]
TermOf(kw) == [op |-> "term", key |-> kw, args |-> <<>>]
AllOf(es) == [op |-> "and", key |-> <<>>, args |-> es]
AnyOf(es) == [op |-> "or", key |-> <<>>, args |-> es]

(* Nothing is asked for: such a part of a query counts for nothing.             *)
Blank[e \in Expr] == e.op # "term" /\ \A i \in DOMAIN e.args : Blank[e.args[i]]

(* The sets of keywords a document may have to be what e means.                 *)
Means[e \in Expr] ==
  LET parts == {i \in DOMAIN e.args : ~Blank[e.args[i]]}
  IN {kws \in SUBSET Term :
        \/ e.op = "term" /\ e.key \in kws
        \/ e.op = "and" /\ parts # {} /\ \A i \in parts : kws \in Means[e.args[i]]
        \/ e.op = "or" /\ \E i \in parts : kws \in Means[e.args[i]]}

(* How a client builds the query of e from those built of its parts.            *)
BuildFrom(e, built) ==
  LET others == [i \in 1 .. Len(e.args) - 1 |-> built[e.args[i + 1]]]
  IN CASE e.op = "none" -> EmptyQuery
       [] e.op = "term" -> NewTermQuery(e.key)
       [] e.op = "and"  -> And(built[e.args[1]], others)
       [] e.op = "or"   -> Or(built[e.args[1]], others)

(* The query of KeywordRecaller: every keyword, and the author if one is given. *)
KeywordRecaller(words, author) ==
  FoldLeft(LAMBDA e, kw : AllOf(<<e, TermOf(kw)>>), None, words \o author)

(* The query of KeywordAuthorRecaller: what And returns for the keywords is     *)
(* dropped, so only the user counts.                                            *)
KeywordAuthorRecaller(words, user) ==
  FoldLeft(LAMBDA e, kw : AllOf(<<e, TermOf(kw)>>), None, user)

(* What is asked for and what is built are finite trees.                        *)
ASSUME ExprAssumption ==
  /\ \A e \in Expr : /\ e.op \in {"none", "term", "and", "or"}
                     /\ e.args \in Seq(Expr)
                     /\ e.args = <<>> <=> e.op \in {"none", "term"}
                     /\ e.op = "term" => e.key \in Term
  /\ \A S \in SUBSET Expr :
       (\A e \in Expr : (\A i \in DOMAIN e.args : e.args[i] \in S) => e \in S) => S = Expr

ASSUME TermQueryAssumption ==
  \A q \in TermQuery : /\ DOMAIN q = {"Keyword", "Must", "Should"}
                       /\ q.Keyword \in {<<>>} \cup {<<kw>> : kw \in Term}
                       /\ q.Must \in Seq(TermQuery) /\ q.Should \in Seq(TermQuery)

ASSUME BuildAssumption == \A e \in Expr : Build[e] \in TermQuery /\ Build[e] = BuildFrom(e, Build)

ASSUME SearchAssumption ==
  /\ Written \subseteq Id
  /\ BitsOf \in [Id -> SUBSET Bit]
  /\ KeywordOf \in [Keyword -> Term]
  /\ \A x, y \in Keyword : KeywordOf[x] = KeywordOf[y] => x = y
  /\ \A x \in Keyword : KeywordOf[x].Word # <<>>
  /\ \A a \in DOMAIN Asks :
       /\ Asks[a].expr \in Expr /\ Asks[a].on \subseteq Bit /\ Asks[a].off \subseteq Bit
       /\ Asks[a].or \in Seq(SUBSET Bit)
  /\ NoPosting \notin Posting
  /\ ReadErrors \in BOOLEAN

------------------------------------------------------------------------------
VARIABLES qpc,            (* where the search is                                  *)
          ask,            (* which of Asks its client asked for, or 0             *)
          request,        (* the request the handler was given                    *)
          stack,          (* the calls of search under way, the innermost last    *)
          cursor,         (* the element the walk of a list is at                 *)
          keys,           (* the elements whose documents are still to be read    *)
          docs,           (* the documents read, and the keys that led to them    *)
          touched,        (* ids a call worked on during the search (history)     *)
          cut,            (* a walk ended before the end of its list (history)    *)
          failed          (* a read of the store failed during the search         *)

walkVars   == <<qpc, ask, request, stack, cursor, keys, docs, cut, failed>>
searchVars == <<vars, walkVars, touched>>

Request   == [query : TermQuery, on : SUBSET Bit, off : SUBSET Bit, or : Seq(SUBSET Bit)]
NoRequest == [query |-> EmptyQuery, on |-> {}, off |-> {}, or |-> <<>>]

(* A call of search: its query, and the list it fills for a keyword, or those   *)
(* its calls for the parts have returned.                                       *)
Frame  == [query : TermQuery, lists : Seq(SUBSET Posting)]
Result == [intId : Nat, doc : Document]

SearchTypeOK ==
  /\ TypeOK
  /\ qpc \in {"idle", "walk", "batchget", "respond", "answered"}
  /\ ask \in DOMAIN Asks \cup {0}
  /\ request \in Request \cup {NoRequest}
  /\ stack \in Seq(Frame)
  /\ cursor \in Posting \cup {NoPosting}
  /\ keys \subseteq Posting
  /\ docs \subseteq Result
  /\ touched \subseteq Id
  /\ cut \in BOOLEAN /\ failed \in BOOLEAN

------------------------------------------------------------------------------
FilterByBits(bits) ==
  /\ request.on \subseteq bits
  /\ bits \cap request.off = {}
  /\ \A i \in DOMAIN request.or : request.or[i] # {} => bits \cap request.or[i] # {}

(* Keyword.ToString: the key of the reverse index.  A keyword without a word    *)
(* has the empty key.  AddDoc would post a document's keyword without a word    *)
(* there; SearchAssumption says that documents have none, so nothing is.        *)
PostedAs(kw) == {x \in Keyword : KeywordOf[x] = kw /\ kw.Word # <<>>}

(* The skip list of a keyword: no list is as good as an empty one.              *)
List(kw)    == {p \in postings : p.key \in PostedAs(kw)}
First(list) == IF list = {} THEN NoPosting ELSE CHOOSE p \in list : \A q \in list : p.intId <= q.intId

(* Skip lists as sets of their elements, of which the first list that has a key *)
(* gives the result its one.  IntersectionProofs shows for every choice of      *)
(* lists that the loop of the first function returns what they share.           *)
IntersectionOfSkipList(lists) ==
  {p \in lists[1] : \A i \in DOMAIN lists : \E q \in lists[i] : q.intId = p.intId}
UnionOfSkipList(lists) ==
  UNION {{p \in lists[i] : \A j \in 1 .. i - 1 : \A q \in lists[j] : q.intId # p.intId} :
         i \in DOMAIN lists}

(* What search returns once its list is filled, or those of all parts are here. *)
Parts(tq) == IF tq.Must # <<>> THEN tq.Must ELSE tq.Should
Combine(f) ==
  CASE f.query.Keyword # <<>> -> f.lists[1]
    [] f.query.Keyword = <<>> /\ f.query.Must # <<>> -> IntersectionOfSkipList(f.lists)
    [] OTHER -> UnionOfSkipList(f.lists)

(* The call under way, its keyword, and the rest of the list it walks.          *)
Top     == stack[Len(stack)]
Walking == stack # <<>> /\ Top.query.Keyword # <<>>
Later   == {p \in List(Top.query.Keyword[1]) : p.intId > cursor.intId}
Callers == SubSeq(stack, 1, Len(stack) - 1)
Done    == IF Walking THEN cursor = NoPosting
                      ELSE stack # <<>> /\ Len(Top.lists) = Len(Parts(Top.query))

------------------------------------------------------------------------------
NoSearch ==
  /\ qpc' = "idle" /\ ask' = 0 /\ request' = NoRequest
  /\ stack' = <<>> /\ cursor' = NoPosting /\ keys' = {} /\ docs' = {}
  /\ touched' = {} /\ cut' = FALSE /\ failed' = FALSE

SearchInit ==
  /\ Init
  /\ qpc = "idle" /\ ask = 0 /\ request = NoRequest
  /\ stack = <<>> /\ cursor = NoPosting /\ keys = {} /\ docs = {}
  /\ touched = {} /\ cut = FALSE /\ failed = FALSE

(* The handler starts with the request r, by which a client asks for Asks[a].   *)
CallSearch(a, r) ==
  /\ Up /\ qpc = "idle"
  /\ qpc' = "walk"
  /\ ask' = a
  /\ request' = r
  /\ touched' = {x \in Id : Busy(x)}
  /\ UNCHANGED <<stack, cursor, keys, docs, cut, failed>>

(* search is called, for the whole query or its next part.  For a keyword it    *)
(* looks up the list, and its first element.                                    *)
Descend ==
  /\ qpc = "walk" /\ ~Walking /\ ~Done
  /\ LET tq == IF stack = <<>> THEN request.query
                               ELSE Parts(Top.query)[Len(Top.lists) + 1]
     IN IF tq.Keyword # <<>>
          THEN /\ stack' = Append(stack, [query |-> tq, lists |-> <<{}>>])
               /\ cursor' = First(List(tq.Keyword[1]))
          ELSE /\ stack' = Append(stack, [query |-> tq, lists |-> <<>>])
               /\ cursor' = cursor
  /\ UNCHANGED <<qpc, ask, request, keys, docs, cut, failed>>

(* Faulty: the walk stops at an element that is filtered out.                   *)
FaultyVisit ==
  /\ qpc = "walk" /\ cursor # NoPosting
  /\ stack' = IF FilterByBits(BitsOf[cursor.id])
                THEN [stack EXCEPT ![Len(stack)].lists[1] = @ \cup {cursor}] ELSE stack
  /\ cursor' = IF FilterByBits(BitsOf[cursor.id]) THEN First(Later) ELSE cursor
  /\ UNCHANGED <<qpc, ask, request, keys, docs, cut, failed>>

(* One turn of the walk: the element is kept or not, and node.Next() is called. *)
(* An element that was removed meanwhile has no next one.                       *)
Visit ==
  /\ qpc = "walk" /\ cursor # NoPosting
  /\ stack' = IF FilterByBits(BitsOf[cursor.id])
                THEN [stack EXCEPT ![Len(stack)].lists[1] = @ \cup {cursor}] ELSE stack
  /\ IF cursor \in postings
       THEN cursor' = First(Later) /\ cut' = cut
       ELSE cursor' = NoPosting /\ cut' = (cut \/ Later # {})
  /\ UNCHANGED <<qpc, ask, request, keys, docs, failed>>

(* search returns to the call for the query it is a part of.                    *)
ReturnPart ==
  /\ qpc = "walk" /\ Done /\ Len(stack) > 1
  /\ stack' = [Callers EXCEPT ![Len(Callers)].lists = Append(@, Combine(Top))]
  /\ UNCHANGED <<qpc, ask, request, cursor, keys, docs, cut, failed>>

(* search returns to Search, which returns at once when nothing was found.      *)
ReturnAll ==
  /\ qpc = "walk" /\ Done /\ Len(stack) = 1
  /\ keys' = Combine(Top)
  /\ stack' = <<>>
  /\ qpc' = IF keys' = {} THEN "respond" ELSE "batchget"
  /\ UNCHANGED <<ask, request, cursor, docs, cut, failed>>

(* BatchGet reads the keys in order from one snapshot of the store, up to the   *)
(* end or up to a read that fails, after which it takes a new snapshot.  A key  *)
(* that is missing, or whose read fails, gives no document.                     *)
BatchGet ==
  /\ qpc = "batchget"
  /\ \E failing \in IF ~Open THEN {First(keys)}
                    ELSE {NoPosting} \cup (IF ReadErrors /\ ~failed THEN keys ELSE {}) :
       LET read == {p \in keys : failing = NoPosting \/ p.intId < failing.intId}
       IN /\ docs' = docs \cup {[intId |-> p.intId, doc |-> forward[p.id]] :
                                p \in {q \in read : forward[q.id] # NoDoc}}
          /\ keys' = {p \in keys \ read : p.intId > failing.intId}
          /\ failed' = (failed \/ failing # NoPosting)
  /\ qpc' = IF keys' = {} THEN "respond" ELSE "batchget"
  /\ UNCHANGED <<ask, request, stack, cursor, cut>>

(* The handler returns the documents.                                           *)
Respond ==
  /\ qpc = "respond"
  /\ qpc' = "answered"
  /\ UNCHANGED <<ask, request, stack, cursor, keys, docs, cut, failed>>

(* The client is done with the answer.                                          *)
Finish == qpc = "answered" /\ NoSearch /\ UNCHANGED vars

SearchStep ==
  \/ /\ Descend \/ Visit \/ ReturnPart \/ ReturnAll \/ BatchGet \/ Respond
     /\ UNCHANGED <<vars, touched>>
  \/ Finish

------------------------------------------------------------------------------
(* The writers, and the life of the process.                                    *)
Touch(x) == touched' = IF qpc # "idle" THEN touched \cup {x} ELSE touched

CallAddDoc(t, id, kws) ==
  HandleAddDoc(t, id, kws) /\ Touch(TrimSpace[id]) /\ UNCHANGED walkVars

CallDeleteDoc(t, id) == HandleDeleteDoc(t, id) /\ Touch(id) /\ UNCHANGED walkVars

Lifecycle ==
  \/ /\ Load \/ StartRebuild \/ BuildRow \/ FinishRebuild \/ Close
     /\ UNCHANGED <<walkVars, touched>>
  \/ Exit /\ NoSearch

RequestOf(a) == [query |-> Build[a.expr], on |-> a.on, off |-> a.off, or |-> a.or]

SearchNext ==
  \/ \E a \in DOMAIN Asks : CallSearch(a, RequestOf(Asks[a])) /\ UNCHANGED vars
  \/ SearchStep
  \/ \E t \in Handler, id \in Written, kws \in KeywordLists : CallAddDoc(t, id, kws)
  \/ \E t \in Handler, id \in Written : CallDeleteDoc(t, id)
  \/ \E t \in Thread : Step(t) /\ UNCHANGED <<walkVars, touched>>
  \/ Lifecycle

SearchSafety == SearchInit /\ [][SearchNext]_searchVars

(* The handler's goroutine is scheduled, and the client takes its answer.       *)
SearchSpec == SearchSafety /\ WF_searchVars(SearchStep)

------------------------------------------------------------------------------
(* The document is what the client asked for.                                   *)
Wanted(d) ==
  LET kws  == {KeywordOf[d.keywords[i]] : i \in DOMAIN d.keywords}
      bits == BitsOf[d.id]
  IN /\ kws \in Means[Asks[ask].expr]
     /\ \A b \in Asks[ask].on : b \in bits
     /\ \A b \in Asks[ask].off : b \notin bits
     /\ \A i \in DOMAIN Asks[ask].or :
          Asks[ask].or[i] = {} \/ \E b \in Asks[ask].or[i] : b \in bits

(* A search answers exactly what was asked for.  Of the documents no call       *)
(* worked on meanwhile, those the query means, after it was built, walked and   *)
(* combined, are in the answer once, with all they were stored with, and no     *)
(* others are, whatever the writers did to the lists on the way.  Only a read   *)
(* of the store that failed, or a walk that was cut short because its element   *)
(* was removed, can make one missing.                                           *)
SearchIsExact ==
  qpc = "answered" /\ loaded /\ process = "serving" =>
    \A x \in Id \ touched :
      LET found == {a \in docs : a.doc.id = x}
          whole == {[intId |-> forward[x].intId, doc |-> forward[x]]}
      IN IF forward[x] # NoDoc /\ Wanted(forward[x])
           THEN found = whole \/ (found = {} /\ (cut \/ failed))
           ELSE found = {}

(* Every search ends, although the lists grow while it walks them: the bound on *)
(* the ids handed out stands for writers that pause.                            *)
SearchEnds == []<>(qpc = "idle")
==============================================================================
