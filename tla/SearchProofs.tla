---------------------------- MODULE SearchProofs -----------------------------
(* Theorems about Search, for every query and all its parts, every set of ids,  *)
(* keywords, handlers and calls: what a client builds means what it asks for,   *)
(* and what a search answers is exactly that, beside writers that go on.        *)
EXTENDS Search, IndexerProofs, WellFoundedInduction

------------------------------------------------------------------------------
(* Recursion without induction: the functions a query is understood by exist.   *)

(* Induction over the numbers, for a set of them.                               *)
LEMMA SetInduction ==
  ASSUME NEW S, 0 \in S, \A n \in Nat : n \in S => n + 1 \in S
  PROVE  Nat \subseteq S
<1> DEFINE Rest == Nat \ S
<1> SUFFICES ASSUME Rest # {} PROVE FALSE
  OBVIOUS
<1>1. PICK n \in Rest : \A m \in Rest : ~ (<<m, n>> \in OpToRel(<, Nat))
  <2>1. IsWellFoundedOn(OpToRel(<, Nat), Nat)
    BY NatLessThanWellFounded
  <2> QED BY <2>1, WFMin
<1>2. n # 0 /\ n \in Nat
  BY <1>1
<1>3. n - 1 \in Nat /\ n - 1 < n
  BY <1>2
<1>4. n - 1 \in S
  BY <1>1, <1>3 DEF OpToRel
<1>5. (n - 1) + 1 \in S
  BY <1>3, <1>4
<1>6. n \in S
  BY <1>2, <1>5
<1> QED BY <1>1, <1>6

(* A function on sets that keeps their order has a fixed point.                 *)
LEMMA FixedPoint ==
  ASSUME NEW X, NEW F \in [SUBSET X -> SUBSET X],
         \A A, B \in SUBSET X : A \subseteq B => F[A] \subseteq F[B]
  PROVE  \E L \in SUBSET X : F[L] = L
<1> DEFINE L == {x \in X : \A A \in SUBSET X : F[A] \subseteq A => x \in A}
<1>1. L \in SUBSET X /\ F[L] \in SUBSET X
  OBVIOUS
<1>2. F[L] \subseteq L
  <2> SUFFICES ASSUME NEW x \in F[L], NEW A \in SUBSET X, F[A] \subseteq A PROVE x \in A
    BY <1>1
  <2>1. L \subseteq A
    OBVIOUS
  <2> QED BY <1>1, <2>1
<1>3. L \subseteq F[L]
  <2>1. F[F[L]] \subseteq F[L]
    BY <1>1, <1>2
  <2> QED BY <1>1, <2>1
<1> QED BY <1>1, <1>2, <1>3

(* Blank and Means are what their recursion says.                               *)
LEMMA BlankUnfolds ==
  /\ Blank \in [Expr -> BOOLEAN]
  /\ \A e \in Expr : Blank[e] <=> e.op # "term" /\ \A i \in DOMAIN e.args : Blank[e.args[i]]
<1> DEFINE Step_(A) == {e \in Expr : e.op # "term" /\ \A i \in DOMAIN e.args : e.args[i] \in A}
           F == [A \in SUBSET Expr |-> Step_(A)]
<1>1. PICK L \in SUBSET Expr : F[L] = L
  <2>1. F \in [SUBSET Expr -> SUBSET Expr]
    OBVIOUS
  <2>2. \A A, B \in SUBSET Expr : A \subseteq B => F[A] \subseteq F[B]
    OBVIOUS
  <2> HIDE DEF F
  <2> QED BY <2>1, <2>2, FixedPoint
<1> DEFINE f == [e \in Expr |-> e \in L]
<1>2. \A e \in Expr : \A i \in DOMAIN e.args : e.args[i] \in Expr
  BY ExprAssumption
<1>3. f = [e \in Expr |-> e.op # "term" /\ \A i \in DOMAIN e.args : f[e.args[i]]]
  <2>1. \A e \in Expr : (e \in L) <=> e.op # "term" /\ \A i \in DOMAIN e.args : e.args[i] \in L
    BY <1>1
  <2>2. \A e \in Expr : \A i \in DOMAIN e.args : f[e.args[i]] = (e.args[i] \in L)
    BY <1>2
  <2>3. ASSUME NEW e \in Expr
        PROVE  (e \in L) = (e.op # "term" /\ \A i \in DOMAIN e.args : f[e.args[i]])
    <3>1. \A i \in DOMAIN e.args : f[e.args[i]] = (e.args[i] \in L)
      BY <2>2
    <3> HIDE DEF f
    <3>2. (\A i \in DOMAIN e.args : f[e.args[i]]) <=> \A i \in DOMAIN e.args : e.args[i] \in L
      BY <3>1, Zenon
    <3>3. (e \in L) <=> (e.op # "term" /\ \A i \in DOMAIN e.args : f[e.args[i]])
      BY <2>1, <3>2, Zenon
    <3> QED BY <3>3
  <2> DEFINE g == [e \in Expr |-> e.op # "term" /\ \A i \in DOMAIN e.args : f[e.args[i]]]
  <2>4. \A e \in Expr : f[e] = (e \in L)
    OBVIOUS
  <2>5. \A e \in Expr : g[e] = (e.op # "term" /\ \A i \in DOMAIN e.args : f[e.args[i]])
    BY Zenon
  <2>6. \A e \in Expr : f[e] = g[e]
    <3> HIDE DEF f, g
    <3> QED BY <2>3, <2>4, <2>5
  <2> QED BY <2>6, Zenon
<1>4. Blank = [e \in Expr |-> e.op # "term" /\ \A i \in DOMAIN e.args : Blank[e.args[i]]]
  <2> HIDE DEF f
  <2> QED BY <1>3 DEF Blank
<1> QED BY <1>4

(* The parts of e that ask for something.                                       *)
Asking(e) == {i \in DOMAIN e.args : ~Blank[e.args[i]]}

(* kws is what e means, when A are the parts it is what they mean.              *)
MeantBy(e, kws, A) ==
  \/ e.op = "term" /\ e.key \in kws
  \/ e.op = "and" /\ Asking(e) # {} /\ \A i \in Asking(e) : e.args[i] \in A
  \/ e.op = "or" /\ \E i \in Asking(e) : e.args[i] \in A

(* Means is what its recursion says: there is a function that satisfies it.   *)
LEMMA MeansUnfolds ==
  \A e \in Expr :
    Means[e] = {kws \in SUBSET Term : MeantBy(e, kws, {d \in Expr : kws \in Means[d]})}
<1>1. \A e \in Expr : \A i \in Asking(e) : e.args[i] \in Expr
  BY ExprAssumption DEF Asking
<1>2. ASSUME NEW kws \in SUBSET Term
      PROVE  \E L \in SUBSET Expr : L = {e \in Expr : MeantBy(e, kws, L)}
  <2> DEFINE F == [A \in SUBSET Expr |-> {e \in Expr : MeantBy(e, kws, A)}]
  <2>1. F \in [SUBSET Expr -> SUBSET Expr]
    OBVIOUS
  <2>2. \A A, B \in SUBSET Expr : A \subseteq B => F[A] \subseteq F[B]
    BY DEF MeantBy
  <2> HIDE DEF F
  <2>3. PICK L \in SUBSET Expr : F[L] = L
    BY <2>1, <2>2, FixedPoint
  <2> QED BY <2>3 DEF F
<1> DEFINE Of == [kws \in SUBSET Term |->
                    CHOOSE L \in SUBSET Expr : L = {e \in Expr : MeantBy(e, kws, L)}]
           f  == [e \in Expr |-> {kws \in SUBSET Term : e \in Of[kws]}]
<1>3. \A kws \in SUBSET Term : Of[kws] \in SUBSET Expr /\ Of[kws] = {e \in Expr : MeantBy(e, kws, Of[kws])}
  BY <1>2
<1>4. \A e \in Expr : \A kws \in SUBSET Term : kws \in f[e] <=> e \in Of[kws]
  OBVIOUS
<1>5. \A e \in Expr : f[e] = {kws \in SUBSET Term : MeantBy(e, kws, {d \in Expr : kws \in f[d]})}
  <2> SUFFICES ASSUME NEW e \in Expr, NEW kws \in SUBSET Term
               PROVE  kws \in f[e] <=> MeantBy(e, kws, {d \in Expr : kws \in f[d]})
    OBVIOUS
  <2> HIDE DEF f, Of
  <2> DEFINE A == {d \in Expr : kws \in f[d]}
  <2>1. A = Of[kws]
    BY <1>3, <1>4
  <2>2. kws \in f[e] <=> MeantBy(e, kws, Of[kws])
    BY <1>3, <1>4
  <2> HIDE DEF A
  <2>3. kws \in f[e] <=> MeantBy(e, kws, A)
    BY <2>1, <2>2
  <2> QED BY <2>3 DEF A
<1> DEFINE G(h) == [e \in Expr |->
                     LET parts == {i \in DOMAIN e.args : ~Blank[e.args[i]]}
                     IN {kws \in SUBSET Term :
                          \/ e.op = "term" /\ e.key \in kws
                          \/ e.op = "and" /\ parts # {} /\ \A i \in parts : kws \in h[e.args[i]]
                          \/ e.op = "or" /\ \E i \in parts : kws \in h[e.args[i]]}]
<1>6. ASSUME NEW h, NEW e \in Expr, NEW kws \in SUBSET Term
      PROVE  MeantBy(e, kws, {d \in Expr : kws \in h[d]}) <=> kws \in G(h)[e]
  BY <1>1 DEF MeantBy, Asking
<1>7. f = G(f)
  <2>1. \A e \in Expr : f[e] = G(f)[e]
    <3> SUFFICES ASSUME NEW e \in Expr PROVE f[e] = G(f)[e]
      OBVIOUS
    <3>1. \A kws \in SUBSET Term : kws \in f[e] <=> kws \in G(f)[e]
      <4> HIDE DEF f, G
      <4> TAKE kws \in SUBSET Term
      <4> DEFINE A == {d \in Expr : kws \in f[d]}
      <4>1. MeantBy(e, kws, A) <=> kws \in G(f)[e]
        BY <1>6
      <4>2. kws \in f[e] <=> MeantBy(e, kws, A)
        BY <1>5
      <4> QED BY <4>1, <4>2
    <3> QED BY <3>1
  <2> QED BY <2>1, Zenon
<1>8. Means = G(Means)
  <2> HIDE DEF f
  <2> QED BY <1>7 DEF Means
<1>9. ASSUME NEW e \in Expr
      PROVE  Means[e] = {kws \in SUBSET Term : MeantBy(e, kws, {d \in Expr : kws \in Means[d]})}
  <2>1. Means[e] = G(Means)[e]
    <3> HIDE DEF G
    <3> QED BY <1>8
  <2>2. \A kws : kws \in G(Means)[e] => kws \in SUBSET Term
    OBVIOUS
  <2> HIDE DEF G
  <2> QED BY <2>1, <2>2, <1>6
<1> QED BY <1>9

------------------------------------------------------------------------------
(* The keywords a document must have to be found by a query.                    *)
Matching[q \in TermQuery] ==
  {kws \in SUBSET Term :
     \/ q.Keyword # <<>> /\ q.Keyword[1] \in kws
     \/ q.Keyword = <<>> /\ q.Must # <<>> /\ \A i \in DOMAIN q.Must : kws \in Matching[q.Must[i]]
     \/ q.Keyword = <<>> /\ q.Must = <<>> /\ \E i \in DOMAIN q.Should : kws \in Matching[q.Should[i]]}

(* q finds kws, when A are its parts that do.                                   *)
FoundBy(q, kws, A) ==
  \/ q.Keyword # <<>> /\ q.Keyword[1] \in kws
  \/ q.Keyword = <<>> /\ q.Must # <<>> /\ \A i \in DOMAIN q.Must : q.Must[i] \in A
  \/ q.Keyword = <<>> /\ q.Must = <<>> /\ \E i \in DOMAIN q.Should : q.Should[i] \in A

(* Matching is what its recursion says.                                       *)
LEMMA MatchingUnfolds ==
  \A q \in TermQuery :
    Matching[q] = {kws \in SUBSET Term : FoundBy(q, kws, {p \in TermQuery : kws \in Matching[p]})}
<1>1. \A q \in TermQuery : /\ \A i \in DOMAIN q.Must : q.Must[i] \in TermQuery
                           /\ \A i \in DOMAIN q.Should : q.Should[i] \in TermQuery
  BY TermQueryAssumption
<1>2. ASSUME NEW kws \in SUBSET Term
      PROVE  \E L \in SUBSET TermQuery : L = {q \in TermQuery : FoundBy(q, kws, L)}
  <2> DEFINE F == [A \in SUBSET TermQuery |-> {q \in TermQuery : FoundBy(q, kws, A)}]
  <2>1. F \in [SUBSET TermQuery -> SUBSET TermQuery]
    OBVIOUS
  <2>2. \A A, B \in SUBSET TermQuery : A \subseteq B => F[A] \subseteq F[B]
    BY DEF FoundBy
  <2> HIDE DEF F
  <2>3. PICK L \in SUBSET TermQuery : F[L] = L
    BY <2>1, <2>2, FixedPoint
  <2> QED BY <2>3 DEF F
<1> DEFINE Of == [kws \in SUBSET Term |->
                    CHOOSE L \in SUBSET TermQuery : L = {q \in TermQuery : FoundBy(q, kws, L)}]
           f  == [q \in TermQuery |-> {kws \in SUBSET Term : q \in Of[kws]}]
<1>3. \A kws \in SUBSET Term :
        Of[kws] \in SUBSET TermQuery /\ Of[kws] = {q \in TermQuery : FoundBy(q, kws, Of[kws])}
  BY <1>2
<1>4. \A q \in TermQuery : \A kws \in SUBSET Term : kws \in f[q] <=> q \in Of[kws]
  OBVIOUS
<1>5. \A q \in TermQuery : f[q] = {kws \in SUBSET Term : FoundBy(q, kws, {p \in TermQuery : kws \in f[p]})}
  <2> SUFFICES ASSUME NEW q \in TermQuery, NEW kws \in SUBSET Term
               PROVE  kws \in f[q] <=> FoundBy(q, kws, {p \in TermQuery : kws \in f[p]})
    OBVIOUS
  <2> HIDE DEF f, Of
  <2> DEFINE A == {p \in TermQuery : kws \in f[p]}
  <2>1. A = Of[kws]
    BY <1>3, <1>4
  <2>2. kws \in f[q] <=> FoundBy(q, kws, Of[kws])
    BY <1>3, <1>4
  <2> HIDE DEF A
  <2>3. kws \in f[q] <=> FoundBy(q, kws, A)
    BY <2>1, <2>2
  <2> QED BY <2>3 DEF A
<1> DEFINE G(h) == [q \in TermQuery |-> {kws \in SUBSET Term :
     \/ q.Keyword # <<>> /\ q.Keyword[1] \in kws
     \/ q.Keyword = <<>> /\ q.Must # <<>> /\ \A i \in DOMAIN q.Must : kws \in h[q.Must[i]]
     \/ q.Keyword = <<>> /\ q.Must = <<>> /\ \E i \in DOMAIN q.Should : kws \in h[q.Should[i]]}]
<1>6. ASSUME NEW h, NEW q \in TermQuery, NEW kws \in SUBSET Term
      PROVE  FoundBy(q, kws, {p \in TermQuery : kws \in h[p]}) <=> kws \in G(h)[q]
  BY <1>1 DEF FoundBy
<1>7. f = G(f)
  <2>1. ASSUME NEW q \in TermQuery PROVE f[q] = G(f)[q]
    <3>1. \A kws \in SUBSET Term : kws \in f[q] <=> kws \in G(f)[q]
      <4> HIDE DEF f, G
      <4> TAKE kws \in SUBSET Term
      <4> DEFINE A == {p \in TermQuery : kws \in f[p]}
      <4>1. FoundBy(q, kws, A) <=> kws \in G(f)[q]
        BY <1>6
      <4>2. kws \in f[q] <=> FoundBy(q, kws, A)
        BY <1>5
      <4> QED BY <4>1, <4>2
    <3> QED BY <3>1
  <2> QED BY <2>1, Zenon
<1>8. Matching = G(Matching)
  <2> HIDE DEF f
  <2> QED BY <1>7 DEF Matching
<1>9. ASSUME NEW q \in TermQuery
      PROVE  Matching[q] = {kws \in SUBSET Term : FoundBy(q, kws, {p \in TermQuery : kws \in Matching[p]})}
  <2>1. Matching[q] = G(Matching)[q]
    <3> HIDE DEF G
    <3> QED BY <1>8
  <2>2. \A kws : kws \in G(Matching)[q] => kws \in SUBSET Term
    OBVIOUS
  <2> HIDE DEF G
  <2> QED BY <2>1, <2>2, <1>6
<1> QED BY <1>9

------------------------------------------------------------------------------
(* What NonEmpty leaves are the queries that are not empty, and no others.      *)
LEMMA NonEmptyKeeps ==
  ASSUME NEW querys \in Seq(TermQuery)
  PROVE  /\ NonEmpty(querys) \in Seq(TermQuery)
         /\ \A q : (\E i \in DOMAIN NonEmpty(querys) : NonEmpty(querys)[i] = q)
                     <=> (\E i \in DOMAIN querys : querys[i] = q /\ ~Empty(q))
<1> DEFINE Next_(n, s) == IF Empty(querys[n]) THEN s ELSE Append(s, querys[n])
           IsArray(g, n) == /\ g = [m \in 0 .. n |-> IF m = 0 THEN <<>> ELSE Next_(m, g[m - 1])]
           Built(s, n) == /\ s \in Seq(TermQuery)
                          /\ \A q : (\E i \in DOMAIN s : s[i] = q)
                                      <=> (\E i \in 1 .. n : querys[i] = q /\ ~Empty(q))
<1>1. ASSUME NEW s \in Seq(TermQuery), NEW n \in Nat, n + 1 <= Len(querys), Built(s, n)
      PROVE  Built(Next_(n + 1, s), n + 1)
  <2>1. querys[n + 1] \in TermQuery
    <3>1. n + 1 \in 1 .. Len(querys)
      BY <1>1
    <3> QED BY <3>1
  <2>2. \A i : i \in 1 .. n + 1 <=> i \in 1 .. n \/ i = n + 1
    OBVIOUS
  <2>3. CASE Empty(querys[n + 1])
    BY <1>1, <2>2, <2>3
  <2>4. CASE ~Empty(querys[n + 1])
    <3> DEFINE t == Append(s, querys[n + 1])
    <3>1. t \in Seq(TermQuery) /\ DOMAIN t = 1 .. Len(s) + 1 /\ t[Len(s) + 1] = querys[n + 1]
          /\ \A i \in 1 .. Len(s) : t[i] = s[i]
      BY <2>1
    <3>2. DOMAIN s = 1 .. Len(s) /\ Len(s) \in Nat
      OBVIOUS
    <3>3. \A i : i \in 1 .. Len(s) + 1 <=> i \in 1 .. Len(s) \/ i = Len(s) + 1
      BY <3>2
    <3>4. ASSUME NEW q
          PROVE  (\E i \in DOMAIN t : t[i] = q) <=> (\E i \in DOMAIN s : s[i] = q) \/ q = querys[n + 1]
      <4> HIDE DEF t
      <4> QED BY <3>1, <3>2, <3>3
    <3>5. ASSUME NEW q
          PROVE  (\E i \in 1 .. n + 1 : querys[i] = q /\ ~Empty(q))
                   <=> (\E i \in 1 .. n : querys[i] = q /\ ~Empty(q)) \/ q = querys[n + 1]
      BY <2>2, <2>4
    <3>6. Next_(n + 1, s) = t
      BY <2>4
    <3> HIDE DEF t, Next_
    <3> QED BY <1>1, <3>1, <3>4, <3>5, <3>6
  <2> QED BY <2>3, <2>4
<1>2. \E g : IsArray(g, Len(querys))
  <2> DEFINE S == {n \in Nat : \E g : IsArray(g, n)}
  <2>1. 0 \in S
    <3>1. IsArray([m \in {0} |-> <<>>], 0)
      <4>1. 0 .. 0 = {0}
        OBVIOUS
      <4>2. [m \in {0} |-> <<>>]
              = [m \in {0} |-> IF m = 0 THEN <<>> ELSE Next_(m, [l \in {0} |-> <<>>][m - 1])]
        <5> HIDE DEF Next_
        <5> QED OBVIOUS
      <4> HIDE DEF Next_
      <4> QED BY <4>1, <4>2
    <3> QED BY <3>1
  <2>2. ASSUME NEW n \in Nat, n \in S PROVE n + 1 \in S
    <3> HIDE DEF Next_
    <3>1. PICK g : IsArray(g, n)
      BY <2>2
    <3> DEFINE h == [m \in 0 .. n + 1 |-> IF m \in 0 .. n THEN g[m] ELSE Next_(m, g[n])]
               v(m) == IF m = 0 THEN <<>> ELSE Next_(m, h[m - 1])
    <3>2. ASSUME NEW m \in 0 .. n + 1 PROVE h[m] = v(m)
      <4>1. CASE m = 0
        BY <3>1, <4>1
      <4>2. CASE m \in 1 .. n
        <5>1. h[m - 1] = g[m - 1] /\ h[m] = g[m]
          BY <4>2
        <5>2. g[m] = Next_(m, g[m - 1])
          BY <3>1, <4>2
        <5> HIDE DEF h
        <5> QED BY <5>1, <5>2, <4>2
      <4>3. CASE m = n + 1
        <5>1. h[m - 1] = g[n] /\ h[m] = Next_(m, g[n])
          BY <4>3
        <5> HIDE DEF h
        <5> QED BY <5>1, <4>3
      <4> QED BY <4>1, <4>2, <4>3
    <3>3. h = [m \in 0 .. n + 1 |-> h[m]]
      OBVIOUS
    <3>4. h = [m \in 0 .. n + 1 |-> v(m)]
      <4> HIDE DEF h, v
      <4> QED BY <3>2, <3>3
    <3>5. IsArray(h, n + 1)
      BY <3>4
    <3>6. \E q : IsArray(q, n + 1)
      <4> HIDE DEF h, IsArray
      <4> QED BY <3>5
    <3> HIDE DEF IsArray
    <3> QED BY <3>6
  <2> HIDE DEF S
  <2>3. Nat \subseteq S
    BY <2>1, <2>2, SetInduction
  <2>4. Len(querys) \in Nat
    OBVIOUS
  <2> HIDE DEF IsArray
  <2> QED BY <2>3, <2>4 DEF S
<1> DEFINE array == CHOOSE g : IsArray(g, Len(querys))
<1>3. IsArray(array, Len(querys))
  <2> HIDE DEF IsArray
  <2> QED BY <1>2
<1>4. NonEmpty(querys) = array[Len(querys)]
  BY DEF NonEmpty
<1> HIDE DEF array
<1>5. Built(array[Len(querys)], Len(querys))
  <2> DEFINE S == {n \in Nat : n <= Len(querys) => Built(array[n], n)}
  <2>1. 0 \in S
    <3>1. array[0] = <<>>
      BY <1>3
    <3>2. Built(<<>>, 0)
      <4>1. <<>> \in Seq(TermQuery) /\ DOMAIN <<>> = {}
        OBVIOUS
      <4>2. 1 .. 0 = {}
        OBVIOUS
      <4> QED BY <4>1, <4>2
    <3> HIDE DEF Built
    <3> QED BY <3>1, <3>2
  <2>2. ASSUME NEW n \in Nat, n \in S PROVE n + 1 \in S
    <3> SUFFICES ASSUME n + 1 <= Len(querys) PROVE Built(array[n + 1], n + 1)
      <4> HIDE DEF Built
      <4> QED OBVIOUS
    <3>1. Built(array[n], n)
      <4> HIDE DEF Built
      <4> QED BY <2>2
    <3>2. array[n + 1] = Next_(n + 1, array[n])
      <4>1. n + 1 \in 0 .. Len(querys) /\ n + 1 # 0 /\ (n + 1) - 1 = n
        OBVIOUS
      <4> HIDE DEF Next_
      <4> QED BY <1>3, <4>1
    <3>3. Built(Next_(n + 1, array[n]), n + 1)
      <4> HIDE DEF Next_
      <4> QED BY <1>1, <3>1
    <3> HIDE DEF Built, Next_
    <3> QED BY <3>2, <3>3
  <2>3. Nat \subseteq S
    <3> HIDE DEF S
    <3> QED BY <2>1, <2>2, SetInduction
  <2> HIDE DEF Built
  <2> QED BY <2>3
<1>6. DOMAIN querys = 1 .. Len(querys)
  OBVIOUS
<1> QED BY <1>4, <1>5, <1>6

(* The query of a conjunction or disjunction, from those of its parts: for one  *)
(* part it is that part's, and for more of them it has those that are not       *)
(* empty.                                                                       *)
LEMMA BuiltOfParts ==
  ASSUME NEW e \in Expr, e.op \in {"and", "or"}
  PROVE  /\ e.args # <<>> /\ Len(e.args) \in Nat \ {0} /\ DOMAIN e.args = 1 .. Len(e.args)
         /\ Len(e.args) = 1 => Build[e] = Build[e.args[1]]
         /\ Len(e.args) # 1 =>
              \E qs \in Seq(TermQuery) :
                /\ \A q : (\E i \in DOMAIN qs : qs[i] = q)
                             <=> (\E i \in DOMAIN e.args : Build[e.args[i]] = q /\ q # EmptyQuery)
                /\ Build[e] = IF e.op = "and" THEN [EmptyQuery EXCEPT !.Must = qs]
                                              ELSE [EmptyQuery EXCEPT !.Should = qs]
<1> DEFINE others == [i \in 1 .. Len(e.args) - 1 |-> Build[e.args[i + 1]]]
           first  == Build[e.args[1]]
           all    == <<first>> \o others
<1>1. e.args \in Seq(Expr) /\ e.args # <<>>
  BY ExprAssumption
<1>2. Len(e.args) \in Nat \ {0} /\ DOMAIN e.args = 1 .. Len(e.args)
  BY <1>1
<1>3. \A i \in 1 .. Len(e.args) : e.args[i] \in Expr /\ Build[e.args[i]] \in TermQuery
  BY <1>1, BuildAssumption
<1>4. /\ others \in Seq(TermQuery) /\ Len(others) = Len(e.args) - 1
      /\ \A i \in 1 .. Len(others) : others[i] = Build[e.args[i + 1]]
  <2>1. \A i \in 1 .. Len(e.args) - 1 : i + 1 \in 1 .. Len(e.args)
    BY <1>2
  <2>2. Len(e.args) - 1 \in Nat
    BY <1>2
  <2> QED BY <1>3, <2>1, <2>2
<1>5. first \in TermQuery
  BY <1>2, <1>3
<1>6. Build[e] = IF e.op = "and" THEN And(first, others) ELSE Or(first, others)
  BY BuildAssumption DEF BuildFrom
<1> HIDE DEF others, first
<1>7. /\ all \in Seq(TermQuery) /\ DOMAIN all = 1 .. Len(e.args)
      /\ all[1] = first /\ \A i \in 1 .. Len(others) : all[i + 1] = others[i]
  <2>1. DOMAIN all = 1 .. 1 + Len(others)
    BY <1>4, <1>5
  <2>2. 1 + Len(others) = Len(e.args)
    BY <1>2, <1>4
  <2>3. all[1] = first
    BY <1>4, <1>5
  <2>4. \A i \in 1 .. Len(others) : all[i + 1] = others[i]
    BY <1>4, <1>5
  <2> QED BY <1>4, <1>5, <2>1, <2>2, <2>3, <2>4
<1>8. \A i \in 1 .. Len(e.args) : all[i] = Build[e.args[i]]
  <2> SUFFICES ASSUME NEW i \in 1 .. Len(e.args) PROVE all[i] = Build[e.args[i]]
    OBVIOUS
  <2> HIDE DEF all
  <2>1. CASE i = 1
    BY <1>7, <2>1 DEF first
  <2>2. CASE i # 1
    <3>1. i - 1 \in 1 .. Len(others) /\ (i - 1) + 1 = i
      BY <1>2, <1>4, <2>2
    <3> QED BY <1>4, <1>7, <3>1
  <2> QED BY <2>1, <2>2
<1>9. ASSUME Len(e.args) = 1 PROVE Build[e] = first
  <2>1. others = <<>>
    BY <1>4, <1>9
  <2> QED BY <1>6, <2>1 DEF And, Or
<1>10. ASSUME Len(e.args) # 1
       PROVE  \E qs \in Seq(TermQuery) :
                /\ \A q : (\E i \in DOMAIN qs : qs[i] = q)
                             <=> (\E i \in DOMAIN e.args : Build[e.args[i]] = q /\ q # EmptyQuery)
                /\ Build[e] = IF e.op = "and" THEN [EmptyQuery EXCEPT !.Must = qs]
                                              ELSE [EmptyQuery EXCEPT !.Should = qs]
  <2> DEFINE qs == NonEmpty(all)
  <2> HIDE DEF all
  <2>1. qs \in Seq(TermQuery)
    BY <1>7, NonEmptyKeeps
  <2>2. \A q : (\E i \in DOMAIN qs : qs[i] = q) <=> (\E i \in DOMAIN all : all[i] = q /\ ~Empty(q))
    BY <1>7, NonEmptyKeeps
  <2>3. \A q : (\E i \in DOMAIN qs : qs[i] = q)
                 <=> (\E i \in DOMAIN e.args : Build[e.args[i]] = q /\ q # EmptyQuery)
    <3> HIDE DEF qs
    <3> QED BY <1>2, <1>7, <1>8, <2>2 DEF Empty
  <2>4. others # <<>>
    <3>1. Len(others) # 0
      BY <1>2, <1>4, <1>10
    <3>2. Len(<<>>) = 0
      OBVIOUS
    <3> QED BY <3>1, <3>2
  <2>5. Build[e] = IF e.op = "and" THEN [EmptyQuery EXCEPT !.Must = qs]
                                   ELSE [EmptyQuery EXCEPT !.Should = qs]
    BY <1>6, <2>4 DEF And, Or, all
  <2> HIDE DEF qs
  <2> QED BY <2>1, <2>3, <2>5
<1> QED BY <1>1, <1>2, <1>9, <1>10 DEF first

(* Nothing is found by the empty query.                                         *)
LEMMA EmptyFindsNothing ==
  ASSUME EmptyQuery \in TermQuery
  PROVE  Matching[EmptyQuery] = {}
<1>1. \A kws, A : ~FoundBy(EmptyQuery, kws, A)
  BY DEF FoundBy, EmptyQuery
<1>2. Matching[EmptyQuery] = {kws \in SUBSET Term :
                               FoundBy(EmptyQuery, kws, {p \in TermQuery : kws \in Matching[p]})}
  BY MatchingUnfolds
<1> QED BY <1>1, <1>2

(* A client's query says what the client means: it is empty just when nothing   *)
(* is asked for, and it is matched by the documents that are what is meant,     *)
(* however conjunctions and disjunctions are nested and whichever of their      *)
(* parts are left blank.                                                        *)
THEOREM QueriesMeanWhatIsAsked ==
  \A e \in Expr : (Build[e] = EmptyQuery <=> Blank[e]) /\ Matching[Build[e]] = Means[e]
<1> DEFINE Right(e) == (Build[e] = EmptyQuery <=> Blank[e]) /\ Matching[Build[e]] = Means[e]
           S == {e \in Expr : Right(e)}
<1>1. ASSUME NEW e \in Expr, \A i \in DOMAIN e.args : e.args[i] \in S
      PROVE  Right(e)
  <2>1. Blank[e] <=> e.op # "term" /\ \A i \in DOMAIN e.args : Blank[e.args[i]]
    BY BlankUnfolds
  <2>2. Build[e] \in TermQuery /\ Build[e] = BuildFrom(e, Build)
    BY BuildAssumption
  <2> DEFINE Meant(kws)   == {d \in Expr : kws \in Means[d]}
             Matched(kws) == {p \in TermQuery : kws \in Matching[p]}
  <2>3. Means[e] = {kws \in SUBSET Term : MeantBy(e, kws, Meant(kws))}
    BY MeansUnfolds
  <2>4. Matching[Build[e]] = {kws \in SUBSET Term : FoundBy(Build[e], kws, Matched(kws))}
    BY <2>2, MatchingUnfolds
  <2>5. e.op \in {"none", "term", "and", "or"} /\ e.args \in Seq(Expr)
        /\ (e.args = <<>> <=> e.op \in {"none", "term"})
    BY ExprAssumption
  <2>6. CASE e.op = "none"
    <3>1. Build[e] = EmptyQuery
      BY <2>2, <2>6 DEF BuildFrom
    <3>2. Blank[e]
      BY <2>1, <2>5, <2>6
    <3>3. Means[e] = {}
      BY <2>3, <2>6 DEF MeantBy
    <3> QED BY <2>2, <3>1, <3>2, <3>3, EmptyFindsNothing
  <2>7. CASE e.op = "term"
    <3>1. Build[e] = [Keyword |-> <<e.key>>, Must |-> <<>>, Should |-> <<>>]
      BY <2>2, <2>7 DEF BuildFrom, NewTermQuery, EmptyQuery
    <3>2. Build[e] # EmptyQuery
      BY <3>1 DEF EmptyQuery
    <3>3. ~Blank[e]
      BY <2>1, <2>7
    <3>4. \A kws, A, B : FoundBy(Build[e], kws, A) <=> MeantBy(e, kws, B)
      BY <2>7, <3>1 DEF FoundBy, MeantBy
    <3> QED BY <2>3, <2>4, <3>2, <3>3, <3>4
  <2>8. CASE e.op \in {"and", "or"}
    <3>1. /\ Len(e.args) \in Nat \ {0} /\ DOMAIN e.args = 1 .. Len(e.args)
          /\ Len(e.args) = 1 => Build[e] = Build[e.args[1]]
      BY <2>8, BuiltOfParts
    <3>2. \A i \in DOMAIN e.args : e.args[i] \in Expr /\ Right(e.args[i])
      BY <1>1
    <3>3. CASE Len(e.args) = 1
      <4>1. DOMAIN e.args = {1}
        BY <3>1, <3>3
      <4>2. Blank[e] <=> Blank[e.args[1]]
        BY <2>1, <2>8, <4>1
      <4>3. Means[e] = Means[e.args[1]]
        <5>1. CASE Blank[e.args[1]]
          <6>1. Asking(e) = {}
            BY <4>1, <5>1 DEF Asking
          <6>2. Means[e] = {}
            BY <2>3, <2>8, <6>1 DEF MeantBy
          <6>3. Build[e.args[1]] = EmptyQuery /\ Build[e.args[1]] \in TermQuery
            BY <3>2, <4>1, <5>1, BuildAssumption
          <6> QED BY <3>2, <4>1, <6>2, <6>3, EmptyFindsNothing
        <5>2. CASE ~Blank[e.args[1]]
          <6>1. Asking(e) = {1}
            BY <4>1, <5>2 DEF Asking
          <6>2. \A kws : MeantBy(e, kws, Meant(kws)) <=> kws \in Means[e.args[1]]
            BY <2>8, <3>2, <4>1, <6>1 DEF MeantBy
          <6>3. Means[e.args[1]] \subseteq SUBSET Term
            BY <3>2, <4>1, MeansUnfolds
          <6> QED BY <2>3, <6>2, <6>3
        <5> QED BY <5>1, <5>2
      <4> QED BY <3>1, <3>2, <3>3, <4>1, <4>2, <4>3
    <3>4. CASE Len(e.args) # 1
      <4>1. PICK qs \in Seq(TermQuery) :
              /\ \A q : (\E i \in DOMAIN qs : qs[i] = q)
                           <=> (\E i \in DOMAIN e.args : Build[e.args[i]] = q /\ q # EmptyQuery)
              /\ Build[e] = IF e.op = "and" THEN [EmptyQuery EXCEPT !.Must = qs]
                                            ELSE [EmptyQuery EXCEPT !.Should = qs]
        BY <2>8, <3>4, BuiltOfParts
      <4>2. qs = <<>> <=> Asking(e) = {}
        <5>1. qs = <<>> <=> \A q : ~\E i \in DOMAIN qs : qs[i] = q
          <6>1. qs = <<>> <=> DOMAIN qs = {}
            OBVIOUS
          <6> QED BY <6>1
        <5>2. Asking(e) = {i \in DOMAIN e.args : Build[e.args[i]] # EmptyQuery}
          BY <3>2 DEF Asking
        <5>3. Asking(e) = {} <=> \A q : ~\E i \in DOMAIN e.args : Build[e.args[i]] = q /\ q # EmptyQuery
          BY <5>2
        <5>4. \A q : (\E i \in DOMAIN qs : qs[i] = q)
                        <=> (\E i \in DOMAIN e.args : Build[e.args[i]] = q /\ q # EmptyQuery)
          BY <4>1
        <5>5. (\A q : ~\E i \in DOMAIN qs : qs[i] = q)
                 <=> \A q : ~\E i \in DOMAIN e.args : Build[e.args[i]] = q /\ q # EmptyQuery
          BY <5>4, Zenon
        <5> QED BY <5>1, <5>3, <5>5, Zenon
      <4>3. Build[e] = EmptyQuery <=> qs = <<>>
        BY <4>1 DEF EmptyQuery
      <4>4. Blank[e] <=> Asking(e) = {}
        BY <2>1, <2>8 DEF Asking
      <4>5. ASSUME NEW kws \in SUBSET Term, NEW i \in Asking(e)
            PROVE  \E j \in DOMAIN qs : qs[j] \in Matched(kws) <=> e.args[i] \in Meant(kws)
        <5>1. i \in DOMAIN e.args /\ ~Blank[e.args[i]]
          BY DEF Asking
        <5>2. Build[e.args[i]] # EmptyQuery /\ Build[e.args[i]] \in TermQuery
          BY <3>2, <5>1, BuildAssumption
        <5>3. PICK j \in DOMAIN qs : qs[j] = Build[e.args[i]]
          BY <4>1, <5>1, <5>2
        <5> QED BY <3>2, <5>1, <5>2, <5>3
      <4>6. ASSUME NEW kws \in SUBSET Term, NEW j \in DOMAIN qs
            PROVE  \E i \in Asking(e) : qs[j] \in Matched(kws) <=> e.args[i] \in Meant(kws)
        <5>1. PICK i \in DOMAIN e.args : Build[e.args[i]] = qs[j] /\ qs[j] # EmptyQuery
          BY <4>1
        <5>2. i \in Asking(e)
          BY <3>2, <5>1 DEF Asking
        <5>3. qs[j] \in TermQuery
          OBVIOUS
        <5> QED BY <3>2, <5>1, <5>2, <5>3
      <4>7. ASSUME NEW kws \in SUBSET Term
            PROVE  FoundBy(Build[e], kws, Matched(kws)) <=> MeantBy(e, kws, Meant(kws))
        <5> HIDE DEF Matched, Meant
        <5>1. CASE e.op = "and"
          <6>1. Build[e] = [Keyword |-> <<>>, Must |-> qs, Should |-> <<>>]
            BY <4>1, <5>1 DEF EmptyQuery
          <6>2. MeantBy(e, kws, Meant(kws))
                  <=> Asking(e) # {} /\ \A i \in Asking(e) : e.args[i] \in Meant(kws)
            BY <5>1 DEF MeantBy
          <6>3. FoundBy(Build[e], kws, Matched(kws))
                  <=> qs # <<>> /\ \A j \in DOMAIN qs : qs[j] \in Matched(kws)
            BY <6>1 DEF FoundBy
          <6> QED BY <4>2, <4>5, <4>6, <6>2, <6>3
        <5>2. CASE e.op = "or"
          <6>1. Build[e] = [Keyword |-> <<>>, Must |-> <<>>, Should |-> qs]
            BY <4>1, <5>2 DEF EmptyQuery
          <6>2. MeantBy(e, kws, Meant(kws)) <=> \E i \in Asking(e) : e.args[i] \in Meant(kws)
            BY <5>2 DEF MeantBy
          <6>3. FoundBy(Build[e], kws, Matched(kws)) <=> \E j \in DOMAIN qs : qs[j] \in Matched(kws)
            BY <6>1 DEF FoundBy
          <6> QED BY <4>5, <4>6, <6>2, <6>3
        <5> QED BY <2>8, <5>1, <5>2
      <4> QED BY <2>3, <2>4, <4>2, <4>3, <4>4, <4>7
    <3> QED BY <3>3, <3>4
  <2> QED BY <2>5, <2>6, <2>7, <2>8
<1>2. S = Expr
  <2>1. S \in SUBSET Expr
    OBVIOUS
  <2>2. \A e \in Expr : (\A i \in DOMAIN e.args : e.args[i] \in S) => e \in S
    BY <1>1
  <2> HIDE DEF S
  <2> QED BY <2>1, <2>2, ExprAssumption
<1> QED BY <1>2

------------------------------------------------------------------------------
(* The inductive invariant.                                                     *)

(* The calls of search under way: each is for the next part of its caller's     *)
(* query, and only the innermost one may be for a keyword.                      *)
FrameOK(f) ==
  IF f.query.Keyword # <<>> THEN Len(f.lists) = 1 ELSE Len(f.lists) <= Len(Parts(f.query))
CallerOK(f, g) ==
  /\ f.query.Keyword = <<>> /\ Len(f.lists) < Len(Parts(f.query))
  /\ g.query = Parts(f.query)[Len(f.lists) + 1]
StackOK ==
  /\ stack # <<>> => stack[1].query = request.query
  /\ \A i \in DOMAIN stack : FrameOK(stack[i])
  /\ \A i \in 1 .. Len(stack) - 1 : CallerOK(stack[i], stack[i + 1])

(* While there is no search there is nothing of one, and while there is one the *)
(* process runs and every id worked on counts as touched.                       *)
PlaceOK ==
  /\ qpc # "idle" => /\ Up /\ ask \in DOMAIN Asks /\ request = RequestOf(Asks[ask])
                     /\ \A x \in Id : Busy(x) => x \in touched
  /\ stack # <<>> => qpc = "walk"
  /\ cursor # NoPosting => Walking /\ cursor.key \in PostedAs(Top.query.Keyword[1])
  /\ keys # {} <=> qpc = "batchget"
  /\ qpc \in {"idle", "walk"} => docs = {}

WalkInv == AnyInv /\ SearchTypeOK /\ StackOK /\ PlaceOK

(* What a search may find of the id x: the document stored under it, and the    *)
(* queries it is an answer to.                                                  *)
KeywordsIn(d) == {KeywordOf[d.keywords[i]] : i \in DOMAIN d.keywords}
AnswerTo(x) == {q \in TermQuery : /\ forward[x] # NoDoc
                                  /\ KeywordsIn(forward[x]) \in Matching[q]
                                  /\ FilterByBits(BitsOf[x])}
About(x) == [id |-> x, doc |-> forward[x], answers |-> AnswerTo(x)]

(* p is of the id s is about just when it is a posting of the document there.   *)
Faithful(p, s) ==
  /\ p.id = s.id => s.doc # NoDoc /\ p \in PostingsOf(s.doc)
  /\ s.doc # NoDoc /\ s.doc.intId = p.intId => p.id = s.id

Found(list, s) == \E p \in list : p.id = s.id

(* A list that search returned for q, a walk at the element c, and the elements *)
(* and documents at the end, are right about what s is about: it is there just  *)
(* when it is an answer to the query, unless it was missed, or is still to come.*)
ListIsRight(q, list, s, missed) ==
  /\ \A p \in list : Faithful(p, s)
  /\ Found(list, s) => q \in s.answers
  /\ q \in s.answers => Found(list, s) \/ missed
WalkIsRight(f, c, s, missed) ==
  /\ \A p \in f.lists[1] : Faithful(p, s)
  /\ c # NoPosting => Faithful(c, s)
  /\ Found(f.lists[1], s) => f.query \in s.answers
  /\ f.query \in s.answers => \/ Found(f.lists[1], s) \/ missed
                              \/ c # NoPosting /\ c.intId <= s.doc.intId
AnswerIsRight(q, ks, ds, s, missed) ==
  /\ \A p \in ks : Faithful(p, s)
  /\ Found(ks, s) => q \in s.answers
  /\ \A a \in ds : a.doc.id = s.id => a = [intId |-> s.doc.intId, doc |-> s.doc] /\ q \in s.answers
  /\ q \in s.answers => Found(ks, s) \/ (\E a \in ds : a.doc.id = s.id) \/ missed

FrameIsRight(f, s, missed) ==
  f.query.Keyword = <<>> =>
    \A j \in DOMAIN f.lists : ListIsRight(Parts(f.query)[j], f.lists[j], s, missed)

RightAbout(x) ==
  /\ \A i \in DOMAIN stack : FrameIsRight(stack[i], About(x), cut)
  /\ Walking => WalkIsRight(Top, cursor, About(x), cut)
  /\ qpc \in {"batchget", "respond", "answered"} =>
       AnswerIsRight(request.query, keys, docs, About(x), cut \/ failed)

ExactInv ==
  /\ WalkInv /\ SerialInv /\ StoredIsCovered
  /\ process = "serving" /\ loaded => \A x \in Id \ touched : RightAbout(x)

------------------------------------------------------------------------------
(* Lists and the stack.                                                         *)

(* A list that is not empty has a first element.                                *)
LEMMA FirstIsLeast ==
  ASSUME NEW list, list \subseteq Posting
  PROVE  /\ list = {} => First(list) = NoPosting
         /\ list # {} => First(list) \in list /\ \A q \in list : First(list).intId <= q.intId
<1>1. ASSUME list # {} PROVE \E p \in list : \A q \in list : p.intId <= q.intId
  <2> DEFINE Ids == {p.intId : p \in list}
  <2>1. Ids \subseteq Nat /\ Ids # {}
    BY <1>1 DEF Posting
  <2>2. PICK n \in Ids : \A m \in Ids : ~ (<<m, n>> \in OpToRel(<, Nat))
    <3> HIDE DEF Ids
    <3> QED BY <2>1, NatLessThanWellFounded, WFMin
  <2>3. \A m \in Ids : n <= m
    <3> SUFFICES ASSUME NEW m \in Ids, ~(n <= m) PROVE FALSE
      OBVIOUS
    <3>1. m \in Nat /\ n \in Nat /\ m < n
      BY <2>1
    <3>2. <<m, n>> \in OpToRel(<, Nat)
      BY <3>1 DEF OpToRel
    <3> HIDE DEF Ids
    <3> QED BY <2>2, <3>2
  <2>4. PICK p \in list : p.intId = n
    OBVIOUS
  <2> QED BY <2>3, <2>4
<1> QED BY <1>1 DEF First

(* An element that is there is none that is missing.                            *)
LEMMA PostingIsOne == ASSUME NEW p \in Posting PROVE p # NoPosting
  BY SearchAssumption

(* The list of a keyword, and what is left of it, are elements of the index.    *)
LEMMA ListTypes ==
  ASSUME TypeOK, NEW kw
  PROVE  List(kw) \subseteq Posting /\ First(List(kw)) \in Posting \cup {NoPosting}
<1>1. List(kw) \subseteq Posting
  BY DEF List, TypeOK
<1> QED BY <1>1, FirstIsLeast

(* The call under way is on the stack.                                          *)
LEMMA TopTypes ==
  ASSUME stack \in Seq(Frame), stack # <<>>
  PROVE  /\ Len(stack) \in Nat \ {0} /\ Len(stack) \in DOMAIN stack
         /\ DOMAIN stack = 1 .. Len(stack)
         /\ Top = stack[Len(stack)] /\ Top \in Frame
         /\ Top.query \in TermQuery /\ Top.lists \in Seq(SUBSET Posting) /\ Len(Top.lists) \in Nat
         /\ DOMAIN Top.lists = 1 .. Len(Top.lists)
<1>1. Len(stack) \in Nat \ {0} /\ DOMAIN stack = 1 .. Len(stack)
  OBVIOUS
<1>2. stack[Len(stack)] \in Frame
  BY <1>1
<1>3. Top.query \in TermQuery /\ Top.lists \in Seq(SUBSET Posting)
  BY <1>2 DEF Top, Frame
<1> QED BY <1>1, <1>2, <1>3 DEF Top

(* The parts of a query are queries; a keyword is one keyword.                  *)
LEMMA PartTypes ==
  ASSUME NEW q \in TermQuery
  PROVE  /\ Parts(q) \in Seq(TermQuery) /\ Len(Parts(q)) \in Nat /\ DOMAIN Parts(q) = 1 .. Len(Parts(q))
         /\ q.Keyword # <<>> => q.Keyword[1] \in Term
<1>1. Parts(q) \in Seq(TermQuery)
  BY TermQueryAssumption DEF Parts
<1>2. q.Keyword # <<>> => q.Keyword[1] \in Term
  BY TermQueryAssumption
<1> QED BY <1>1, <1>2

(* Combining lists gives a list.                                                *)
LEMMA CombineTypes ==
  ASSUME NEW f \in Frame, f.query.Keyword # <<>> => Len(f.lists) = 1,
         f.query.Keyword = <<>> => Len(f.lists) = Len(Parts(f.query))
  PROVE  Combine(f) \subseteq Posting
<1>1. f.query \in TermQuery /\ f.lists \in Seq(SUBSET Posting)
  BY DEF Frame
<1>2. \A i \in DOMAIN f.lists : f.lists[i] \subseteq Posting
  BY <1>1
<1>3. CASE f.query.Keyword # <<>>
  <2>1. 1 \in DOMAIN f.lists
    BY <1>1, <1>3
  <2> QED BY <1>2, <1>3, <2>1 DEF Combine
<1>4. CASE f.query.Keyword = <<>> /\ f.query.Must # <<>>
  <2>1. Parts(f.query) # <<>> /\ Parts(f.query) \in Seq(TermQuery)
    BY <1>1, <1>4, PartTypes DEF Parts
  <2>2. Len(f.lists) # 0 /\ Len(f.lists) \in Nat
    BY <1>1, <1>4, <2>1
  <2>3. 1 \in DOMAIN f.lists
    BY <1>1, <2>2
  <2> QED BY <1>2, <1>4, <2>3 DEF Combine, IntersectionOfSkipList
<1>5. CASE f.query.Keyword = <<>> /\ f.query.Must = <<>>
  <2>1. Combine(f) = UnionOfSkipList(f.lists)
    BY <1>5 DEF Combine
  <2> QED BY <1>2, <2>1 DEF UnionOfSkipList
<1> QED BY <1>3, <1>4, <1>5

------------------------------------------------------------------------------
(* What the steps of the walk do to the stack.                                  *)

(* A call is added: for the request, or for the next part of its caller's       *)
(* query.                                                                       *)
LEMMA DescendEffect ==
  ASSUME WalkInv, Descend
  PROVE  \E f \in Frame :
           /\ stack' = Append(stack, f)
           /\ cursor = NoPosting
           /\ stack = <<>> => f.query = request.query
           /\ stack # <<>> => /\ Top.query.Keyword = <<>>
                              /\ Len(Top.lists) < Len(Parts(Top.query))
                              /\ f.query = Parts(Top.query)[Len(Top.lists) + 1]
           /\ \/ /\ f.query.Keyword # <<>> /\ f.lists = <<{}>>
                 /\ f.query.Keyword[1] \in Term
                 /\ cursor' = First(List(f.query.Keyword[1]))
              \/ f.query.Keyword = <<>> /\ f.lists = <<>> /\ cursor' = NoPosting
<1> DEFINE tq == IF stack = <<>> THEN request.query ELSE Parts(Top.query)[Len(Top.lists) + 1]
<1>1. stack \in Seq(Frame) /\ qpc = "walk"
  BY DEF WalkInv, SearchTypeOK, Descend
<1>2. cursor = NoPosting
  BY DEF WalkInv, PlaceOK, Descend
<1>3. stack # <<>> => /\ Top.query.Keyword = <<>>
                      /\ Len(Top.lists) < Len(Parts(Top.query))
                      /\ Top.query \in TermQuery /\ Len(Top.lists) + 1 \in DOMAIN Parts(Top.query)
  <2> SUFFICES ASSUME stack # <<>>
               PROVE  /\ Top.query.Keyword = <<>>
                      /\ Len(Top.lists) < Len(Parts(Top.query))
                      /\ Top.query \in TermQuery /\ Len(Top.lists) + 1 \in DOMAIN Parts(Top.query)
    OBVIOUS
  <2>1. Top.query.Keyword = <<>> /\ Len(Top.lists) # Len(Parts(Top.query))
    BY DEF Descend, Walking, Done
  <2>2. Len(Top.lists) <= Len(Parts(Top.query))
    BY <1>1, <2>1, TopTypes DEF WalkInv, StackOK, FrameOK
  <2>3. Top.query \in TermQuery /\ Len(Top.lists) \in Nat
    BY <1>1, TopTypes
  <2>4. Len(Parts(Top.query)) \in Nat /\ DOMAIN Parts(Top.query) = 1 .. Len(Parts(Top.query))
    BY <2>3, PartTypes
  <2> QED BY <2>1, <2>2, <2>3, <2>4
<1>4. tq \in TermQuery
  <2>1. CASE stack = <<>>
    <3>1. request = RequestOf(Asks[ask]) /\ ask \in DOMAIN Asks
      BY <1>1 DEF WalkInv, PlaceOK
    <3> QED BY <2>1, <3>1, SearchAssumption, BuildAssumption DEF RequestOf
  <2>2. CASE stack # <<>>
    <3>1. Parts(Top.query) \in Seq(TermQuery)
      BY <1>3, <2>2, PartTypes
    <3> QED BY <1>3, <2>2, <3>1
  <2> QED BY <2>1, <2>2
<1>5. CASE tq.Keyword # <<>>
  <2> DEFINE f == [query |-> tq, lists |-> <<{}>>]
  <2>1. <<{}>> \in Seq(SUBSET Posting)
    OBVIOUS
  <2> HIDE DEF tq
  <2>2. f \in Frame
    BY <1>4, <2>1 DEF Frame
  <2>3. tq.Keyword[1] \in Term
    BY <1>4, <1>5, PartTypes
  <2>4. stack' = Append(stack, f) /\ cursor' = First(List(tq.Keyword[1]))
    BY <1>5 DEF Descend, tq
  <2>5. f.query = tq /\ f.lists = <<{}>>
    OBVIOUS
  <2>6. (stack = <<>> => tq = request.query)
        /\ (stack # <<>> => tq = Parts(Top.query)[Len(Top.lists) + 1])
    BY DEF tq
  <2> HIDE DEF f
  <2> QED BY <1>2, <1>3, <1>5, <2>2, <2>3, <2>4, <2>5, <2>6
<1>6. CASE tq.Keyword = <<>>
  <2> DEFINE f == [query |-> tq, lists |-> <<>>]
  <2>1. <<>> \in Seq(SUBSET Posting)
    OBVIOUS
  <2> HIDE DEF tq
  <2>2. f \in Frame
    BY <1>4, <2>1 DEF Frame
  <2>4. stack' = Append(stack, f) /\ cursor' = NoPosting
    BY <1>2, <1>6 DEF Descend, tq
  <2>5. f.query = tq /\ f.lists = <<>>
    OBVIOUS
  <2>6. (stack = <<>> => tq = request.query)
        /\ (stack # <<>> => tq = Parts(Top.query)[Len(Top.lists) + 1])
    BY DEF tq
  <2> HIDE DEF f
  <2> QED BY <1>2, <1>3, <1>6, <2>2, <2>4, <2>5, <2>6
<1> QED BY <1>5, <1>6

(* The innermost call's list may get the element the walk is at.                *)
LEMMA VisitEffect ==
  ASSUME WalkInv, Visit
  PROVE  /\ Walking /\ cursor \in Posting /\ Len(Top.lists) = 1 /\ Top.lists[1] \subseteq Posting
         /\ cursor.key \in PostedAs(Top.query.Keyword[1])
         /\ \E f \in Frame :
              /\ stack' = [stack EXCEPT ![Len(stack)] = f]
              /\ f.query = Top.query
              /\ f.lists = <<IF FilterByBits(BitsOf[cursor.id])
                               THEN Top.lists[1] \cup {cursor} ELSE Top.lists[1]>>
<1>1. stack \in Seq(Frame) /\ qpc = "walk" /\ cursor # NoPosting /\ cursor \in Posting
  BY DEF WalkInv, SearchTypeOK, Visit
<1>2. Walking /\ cursor.key \in PostedAs(Top.query.Keyword[1])
  BY <1>1 DEF WalkInv, PlaceOK
<1>3. stack # <<>> /\ Top.query.Keyword # <<>>
  BY <1>2 DEF Walking
<1>4. Len(Top.lists) = 1
  BY <1>1, <1>3, TopTypes DEF WalkInv, StackOK, FrameOK
<1>5. Top.lists[1] \subseteq Posting /\ Top.lists = <<Top.lists[1]>>
  BY <1>1, <1>3, <1>4, TopTypes
<1> DEFINE list == IF FilterByBits(BitsOf[cursor.id]) THEN Top.lists[1] \cup {cursor} ELSE Top.lists[1]
           f == [query |-> Top.query, lists |-> <<list>>]
<1>6. list \subseteq Posting
  BY <1>1, <1>5
<1>7. f \in Frame
  <2> HIDE DEF list
  <2>1. <<list>> \in Seq(SUBSET Posting)
    BY <1>6
  <2> QED BY <1>1, <1>3, <2>1, TopTypes DEF Frame
<1>8. stack' = [stack EXCEPT ![Len(stack)] = f]
  <2>1. Top \in Frame /\ Top = stack[Len(stack)] /\ Len(stack) \in DOMAIN stack
    BY <1>1, <1>3, TopTypes
  <2>2. Top = [query |-> Top.query, lists |-> Top.lists]
    BY <2>1 DEF Frame
  <2>3. CASE FilterByBits(BitsOf[cursor.id])
    <3>1. stack' = [stack EXCEPT ![Len(stack)].lists[1] = @ \cup {cursor}]
      BY <2>3 DEF Visit
    <3>2. [Top EXCEPT !.lists[1] = @ \cup {cursor}] = f
      <4>1. [Top.lists EXCEPT ![1] = @ \cup {cursor}] = <<list>>
        BY <1>4, <1>5, <2>3
      <4> QED BY <2>2, <4>1
    <3> HIDE DEF f
    <3> QED BY <2>1, <3>1, <3>2
  <2>4. CASE ~FilterByBits(BitsOf[cursor.id])
    <3>1. stack' = stack
      BY <2>4 DEF Visit
    <3>2. Top = f
      BY <1>5, <2>2, <2>4
    <3> HIDE DEF f
    <3>3. [stack EXCEPT ![Len(stack)] = stack[Len(stack)]] = stack
      BY <1>1, <2>1
    <3> QED BY <2>1, <3>1, <3>2, <3>3
  <2> QED BY <2>3, <2>4
<1>9. f.query = Top.query /\ f.lists = <<list>>
  OBVIOUS
<1> HIDE DEF f
<1> QED BY <1>1, <1>2, <1>4, <1>5, <1>7, <1>8, <1>9

(* The list of the innermost call becomes one of its caller's.                  *)
LEMMA ReturnPartEffect ==
  ASSUME WalkInv, ReturnPart
  PROVE  /\ cursor = NoPosting /\ Combine(Top) \subseteq Posting /\ Len(stack) \in Nat /\ Len(stack) > 1
         /\ stack[Len(stack) - 1].query.Keyword = <<>>
         /\ Len(stack[Len(stack) - 1].lists) < Len(Parts(stack[Len(stack) - 1].query))
         /\ Top.query = Parts(stack[Len(stack) - 1].query)[Len(stack[Len(stack) - 1].lists) + 1]
         /\ stack' \in Seq(Frame) /\ Len(stack') = Len(stack) - 1
         /\ \A i \in 1 .. Len(stack) - 2 : stack'[i] = stack[i]
         /\ stack'[Len(stack) - 1].query = stack[Len(stack) - 1].query
         /\ stack'[Len(stack) - 1].lists = Append(stack[Len(stack) - 1].lists, Combine(Top))
<1> DEFINE n == Len(stack) - 1
<1>1. stack \in Seq(Frame) /\ qpc = "walk" /\ Len(stack) > 1 /\ Done /\ stack # <<>>
  BY DEF WalkInv, SearchTypeOK, ReturnPart, Done, Walking
<1>2. cursor = NoPosting
  BY <1>1 DEF WalkInv, PlaceOK, Done
<1>3. Len(stack) \in Nat /\ n \in Nat \ {0} /\ n \in DOMAIN stack /\ n < Len(stack) /\ n + 1 = Len(stack)
  BY <1>1
<1>4. /\ stack[n].query.Keyword = <<>>
      /\ Len(stack[n].lists) < Len(Parts(stack[n].query))
      /\ Top.query = Parts(stack[n].query)[Len(stack[n].lists) + 1]
  BY <1>3 DEF WalkInv, StackOK, CallerOK, Top
<1>5. Combine(Top) \subseteq Posting
  <2>1. Top \in Frame
    BY <1>1, TopTypes
  <2>2. Top.query.Keyword # <<>> => Len(Top.lists) = 1
    BY <1>1, TopTypes DEF WalkInv, StackOK, FrameOK
  <2>3. Top.query.Keyword = <<>> => Len(Top.lists) = Len(Parts(Top.query))
    BY <1>1 DEF Done, Walking
  <2> QED BY <2>1, <2>2, <2>3, CombineTypes
<1>6. /\ Callers \in Seq(Frame) /\ Len(Callers) = n
      /\ \A i \in 1 .. n : Callers[i] = stack[i]
  BY <1>1, <1>3 DEF Callers
<1>7. stack[n] \in Frame /\ stack[n].lists \in Seq(SUBSET Posting)
  <2>1. stack[n] \in Frame
    BY <1>1, <1>3
  <2> QED BY <2>1 DEF Frame
<1> DEFINE f == [stack[n] EXCEPT !.lists = Append(@, Combine(Top))]
<1>8. f.query = stack[n].query /\ f.lists = Append(stack[n].lists, Combine(Top)) /\ f \in Frame
  <2>1. Append(stack[n].lists, Combine(Top)) \in Seq(SUBSET Posting)
    BY <1>5, <1>7
  <2> QED BY <1>7, <2>1 DEF Frame
<1>9. stack' = [Callers EXCEPT ![n] = f]
  <2>1. stack' = [Callers EXCEPT ![Len(Callers)].lists = Append(@, Combine(Top))]
    BY DEF ReturnPart
  <2>2. Len(Callers) = n /\ Callers[n] = stack[n]
    BY <1>3, <1>6
  <2>3. [Callers EXCEPT ![n].lists = Append(@, Combine(Top))]
          = [Callers EXCEPT ![n] = [stack[n] EXCEPT !.lists = Append(@, Combine(Top))]]
    <3> HIDE DEF n
    <3> QED BY <2>2, Zenon
  <2> QED BY <2>1, <2>2, <2>3
<1> HIDE DEF f
<1>10. stack' \in Seq(Frame) /\ Len(stack') = n /\ stack'[n] = f
       /\ \A i \in 1 .. n - 1 : stack'[i] = stack[i]
  <2>1. n \in 1 .. n /\ \A i \in 1 .. n - 1 : i \in 1 .. n /\ i # n
    <3>1. n \in Nat \ {0}
      BY <1>3
    <3> HIDE DEF n
    <3> QED BY <3>1
  <2> DEFINE c == Callers
  <2>2. c \in Seq(Frame) /\ Len(c) = n /\ DOMAIN c = 1 .. n /\ \A i \in 1 .. n : c[i] = stack[i]
    BY <1>6
  <2> HIDE DEF n, c
  <2>3. stack' = [c EXCEPT ![n] = f]
    BY <1>9 DEF c
  <2> QED BY <1>8, <2>1, <2>2, <2>3
<1> QED BY <1>1, <1>2, <1>3, <1>4, <1>5, <1>8, <1>10

------------------------------------------------------------------------------
(* Every step keeps the types and the shape of the search.                      *)

(* A search changes nothing of the Indexer: beside it the writers take the      *)
(* steps they take without it.                                                  *)
LEMMA StepsOfIndexer == [SearchNext]_searchVars => [Next]_vars
<1> SUFFICES ASSUME [SearchNext]_searchVars PROVE [Next]_vars
  OBVIOUS
<1>1. CASE UNCHANGED searchVars
  BY <1>1 DEF searchVars
<1>2. CASE \E a \in DOMAIN Asks : CallSearch(a, RequestOf(Asks[a])) /\ UNCHANGED vars
  BY <1>2
<1>3. CASE SearchStep
  BY <1>3 DEF SearchStep, Finish
<1>4. CASE \E t \in Handler, id \in Written, kws \in KeywordLists : CallAddDoc(t, id, kws)
  BY <1>4, SearchAssumption DEF CallAddDoc, Next
<1>5. CASE \E t \in Handler, id \in Written : CallDeleteDoc(t, id)
  BY <1>5, SearchAssumption DEF CallDeleteDoc, Next
<1>6. CASE \E t \in Thread : Step(t) /\ UNCHANGED <<walkVars, touched>>
  BY <1>6 DEF Next
<1>7. CASE Lifecycle
  BY <1>7 DEF Lifecycle, Next
<1> QED BY <1>1, <1>2, <1>3, <1>4, <1>5, <1>6, <1>7 DEF SearchNext

(* What is said of the Indexer stays while it does nothing.                     *)
LEMMA QuietIndexer ==
  ASSUME UNCHANGED vars
  PROVE  /\ Up' = Up /\ \A x : Busy(x)' <=> Busy(x)
         /\ forward' = forward /\ postings' = postings /\ process' = process /\ loaded' = loaded
<1>1. process' = process /\ pc' = pc /\ call' = call /\ forward' = forward /\ postings' = postings
      /\ loaded' = loaded
  BY DEF vars, locals
<1> QED BY <1>1 DEF Up, Busy, Running, Key

(* What is said of an id being worked on and its process, when no search is     *)
(* under way or when the Indexer does nothing.                                  *)
UnderwayOK ==
  qpc # "idle" => /\ Up /\ ask \in DOMAIN Asks /\ request = RequestOf(Asks[ask])
                  /\ \A x \in Id : Busy(x) => x \in touched

(* What is said of the process and the ids worked on stays while the Indexer  *)
(* and the search's own part of it do nothing.                                *)
LEMMA QuietUnderway ==
  ASSUME UnderwayOK, UNCHANGED vars, qpc # "idle", UNCHANGED <<ask, request, touched>>
  PROVE  UnderwayOK'
<1>1. Up' = Up /\ \A x : Busy(x)' <=> Busy(x)
  BY QuietIndexer
<1> QED BY <1>1 DEF UnderwayOK

(* The types of the search.                                                     *)
WalkTypes ==
  /\ qpc \in {"idle", "walk", "batchget", "respond", "answered"}
  /\ ask \in DOMAIN Asks \cup {0}
  /\ request \in Request \cup {NoRequest}
  /\ stack \in Seq(Frame)
  /\ cursor \in Posting \cup {NoPosting}
  /\ keys \subseteq Posting
  /\ docs \subseteq Result
  /\ touched \subseteq Id
  /\ cut \in BOOLEAN /\ failed \in BOOLEAN

PlacesOK ==
  /\ stack # <<>> => qpc = "walk"
  /\ cursor # NoPosting => Walking /\ cursor.key \in PostedAs(Top.query.Keyword[1])
  /\ keys # {} <=> qpc = "batchget"
  /\ qpc \in {"idle", "walk"} => docs = {}

ShapeOK == WalkTypes /\ StackOK /\ UnderwayOK /\ PlacesOK

(* The invariant, as what is said of the Indexer and of the search.           *)
LEMMA WalkInvParts == WalkInv <=> AnyInv /\ ShapeOK
  BY DEF WalkInv, ShapeOK, WalkTypes, SearchTypeOK, PlaceOK, PlacesOK, UnderwayOK, AnyInv

(* When there is no search nothing is wrong with it.                            *)
LEMMA NoSearchShape == (qpc = "idle" /\ ask = 0 /\ request = NoRequest /\ stack = <<>>
                          /\ cursor = NoPosting /\ keys = {} /\ docs = {} /\ touched = {}
                          /\ cut = FALSE /\ failed = FALSE) => ShapeOK
<1> SUFFICES ASSUME qpc = "idle", ask = 0, request = NoRequest, stack = <<>>,
                    cursor = NoPosting, keys = {}, docs = {}, touched = {}, cut = FALSE, failed = FALSE
             PROVE  ShapeOK
  OBVIOUS
<1>1. WalkTypes
  <2>1. stack \in Seq(Frame)
    OBVIOUS
  <2> QED BY <2>1 DEF WalkTypes
<1>2. StackOK
  <2>1. DOMAIN stack = {} /\ 1 .. Len(stack) - 1 = {}
    OBVIOUS
  <2> QED BY <2>1 DEF StackOK
<1>3. UnderwayOK /\ PlacesOK
  BY DEF UnderwayOK, PlacesOK
<1> QED BY <1>1, <1>2, <1>3 DEF ShapeOK

(* A search begins with the request of its client, and the ids worked on      *)
(* then.                                                                      *)
LEMMA CallSearchShape ==
  ASSUME WalkInv, NEW a \in DOMAIN Asks, CallSearch(a, RequestOf(Asks[a])), UNCHANGED vars
  PROVE  ShapeOK'
<1> USE DEF CallSearch
<1>1. stack = <<>> /\ cursor = NoPosting /\ keys = {} /\ docs = {} /\ WalkTypes
  <2>1. stack = <<>>
    BY DEF WalkInv, PlaceOK
  <2> QED BY <2>1 DEF WalkInv, PlaceOK, SearchTypeOK, WalkTypes, Walking
<1>2. RequestOf(Asks[a]) \in Request
  BY SearchAssumption, BuildAssumption DEF RequestOf, Request
<1>3. WalkTypes'
  BY <1>1, <1>2 DEF WalkTypes
<1>4. StackOK'
  <2>1. stack' = <<>> /\ DOMAIN stack' = {} /\ 1 .. Len(stack') - 1 = {}
    BY <1>1
  <2> QED BY <2>1 DEF StackOK
<1>5. UnderwayOK'
  <2>1. Up' = Up /\ \A x : Busy(x)' <=> Busy(x)
    BY QuietIndexer
  <2> QED BY <2>1 DEF UnderwayOK
<1>6. PlacesOK'
  BY <1>1 DEF PlacesOK
<1> QED BY <1>3, <1>4, <1>5, <1>6 DEF ShapeOK

(* A call of search is for the next part of its caller's query; one for a     *)
(* keyword begins its walk within the keyword's list.                         *)
LEMMA DescendShape ==
  ASSUME WalkInv, Descend, UNCHANGED <<vars, touched>>
  PROVE  ShapeOK'
<1>1. ShapeOK /\ TypeOK /\ qpc = "walk" /\ UNCHANGED <<qpc, ask, request, keys, docs, cut, failed>>
  BY WalkInvParts DEF Descend, AnyInv
<1>2. PICK f \in Frame :
        /\ stack' = Append(stack, f)
        /\ cursor = NoPosting
        /\ stack = <<>> => f.query = request.query
        /\ stack # <<>> => /\ Top.query.Keyword = <<>>
                           /\ Len(Top.lists) < Len(Parts(Top.query))
                           /\ f.query = Parts(Top.query)[Len(Top.lists) + 1]
        /\ \/ /\ f.query.Keyword # <<>> /\ f.lists = <<{}>>
              /\ f.query.Keyword[1] \in Term
              /\ cursor' = First(List(f.query.Keyword[1]))
           \/ f.query.Keyword = <<>> /\ f.lists = <<>> /\ cursor' = NoPosting
  BY DescendEffect
<1> DEFINE n == Len(stack)
<1>3. stack \in Seq(Frame) /\ n \in Nat /\ DOMAIN stack = 1 .. n
  BY <1>1 DEF ShapeOK, WalkTypes
<1>4. /\ stack' \in Seq(Frame) /\ Len(stack') = n + 1 /\ stack' # <<>>
      /\ DOMAIN stack' = 1 .. n + 1
      /\ stack'[n + 1] = f /\ \A i \in 1 .. n : stack'[i] = stack[i]
  BY <1>2, <1>3
<1>5. cursor' \in Posting \cup {NoPosting}
  BY <1>1, <1>2, ListTypes
<1>6. WalkTypes'
  BY <1>1, <1>4, <1>5 DEF ShapeOK, WalkTypes
<1>7. FrameOK(f)
  <2>1. f.query \in TermQuery
    BY DEF Frame
  <2>2. Len(Parts(f.query)) \in Nat
    BY <2>1, PartTypes
  <2>3. CASE f.query.Keyword # <<>>
    <3>1. f.lists = <<{}>>
      BY <1>2, <2>3
    <3>2. Len(f.lists) = 1
      BY <3>1
    <3> QED BY <2>3, <3>2 DEF FrameOK
  <2>4. CASE f.query.Keyword = <<>>
    <3>1. f.lists = <<>>
      BY <1>2, <2>4
    <3>2. Len(f.lists) = 0
      BY <3>1
    <3> QED BY <2>2, <2>4, <3>2 DEF FrameOK
  <2> QED BY <2>3, <2>4
<1>8. StackOK'
  <2>1. stack' # <<>> => stack'[1].query = request'.query
    <3>1. CASE stack = <<>>
      <4>1. n = 0
        BY <3>1
      <4> QED BY <1>1, <1>2, <1>4, <3>1, <4>1
    <3>2. CASE stack # <<>>
      <4>1. 1 \in 1 .. n
        BY <1>3, <3>2
      <4> QED BY <1>1, <1>4, <3>2, <4>1 DEF ShapeOK, StackOK
    <3> QED BY <3>1, <3>2
  <2>2. \A i \in DOMAIN stack' : FrameOK(stack'[i])
    <3> SUFFICES ASSUME NEW i \in 1 .. n + 1 PROVE FrameOK(stack'[i])
      BY <1>4
    <3>1. i \in 1 .. n \/ i = n + 1
      BY <1>3
    <3> QED BY <1>1, <1>3, <1>4, <1>7, <3>1 DEF ShapeOK, StackOK
  <2>3. \A i \in 1 .. Len(stack') - 1 : CallerOK(stack'[i], stack'[i + 1])
    <3> SUFFICES ASSUME NEW i \in 1 .. n PROVE CallerOK(stack'[i], stack'[i + 1])
      BY <1>3, <1>4
    <3>1. CASE i = n
      <4>1. stack # <<>>
        BY <3>1
      <4> QED BY <1>2, <1>3, <1>4, <3>1, <4>1 DEF CallerOK, Top
    <3>2. CASE i # n
      <4>1. i \in 1 .. Len(stack) - 1 /\ i \in 1 .. n /\ i + 1 \in 1 .. n
        <5>1. n \in Nat /\ Len(stack) = n
          BY <1>3
        <5> HIDE DEF n
        <5> QED BY <3>2, <5>1
      <4> HIDE DEF n
      <4> QED BY <1>1, <1>4, <4>1 DEF ShapeOK, StackOK
    <3> QED BY <3>1, <3>2
  <2> QED BY <2>1, <2>2, <2>3 DEF StackOK
<1>9. UnderwayOK'
  BY <1>1, QuietUnderway DEF ShapeOK
<1>10. PlacesOK'
  <2>1. cursor' # NoPosting => Walking' /\ cursor'.key \in PostedAs(Top'.query.Keyword[1])
    <3> SUFFICES ASSUME cursor' # NoPosting
                 PROVE  Walking' /\ cursor'.key \in PostedAs(Top'.query.Keyword[1])
      OBVIOUS
    <3>1. f.query.Keyword # <<>> /\ cursor' = First(List(f.query.Keyword[1]))
      BY <1>2
    <3>2. Top' = f
      BY <1>3, <1>4 DEF Top
    <3>3. cursor' \in List(f.query.Keyword[1])
      <4>1. List(f.query.Keyword[1]) \subseteq Posting
        BY <1>1, ListTypes
      <4> QED BY <3>1, <4>1, FirstIsLeast
    <3> QED BY <1>4, <3>1, <3>2, <3>3 DEF Walking, List
  <2> QED BY <1>1, <2>1 DEF ShapeOK, PlacesOK
<1> QED BY <1>6, <1>8, <1>9, <1>10 DEF ShapeOK

(* The walk stays within the list of its keyword.                             *)
LEMMA VisitShape ==
  ASSUME WalkInv, Visit, UNCHANGED <<vars, touched>>
  PROVE  ShapeOK'
<1>1. ShapeOK /\ TypeOK /\ qpc = "walk" /\ UNCHANGED <<qpc, ask, request, keys, docs, failed>>
  BY WalkInvParts DEF Visit, AnyInv
<1>2. Walking /\ cursor \in Posting
  BY VisitEffect
<1>3. PICK f \in Frame :
        /\ stack' = [stack EXCEPT ![Len(stack)] = f]
        /\ f.query = Top.query
        /\ f.lists = <<IF FilterByBits(BitsOf[cursor.id])
                         THEN Top.lists[1] \cup {cursor} ELSE Top.lists[1]>>
  BY VisitEffect
<1> DEFINE n == Len(stack)
<1>4. stack \in Seq(Frame) /\ stack # <<>> /\ n \in Nat \ {0} /\ DOMAIN stack = 1 .. n /\ Top = stack[n]
      /\ n \in DOMAIN stack
  BY <1>1, <1>2, TopTypes DEF ShapeOK, WalkTypes, Walking
<1>5. /\ stack' \in Seq(Frame) /\ Len(stack') = n /\ stack' # <<>> /\ DOMAIN stack' = 1 .. n
      /\ stack'[n] = f /\ \A i \in 1 .. n : i # n => stack'[i] = stack[i]
  <2> DEFINE s == stack
  <2>1. s \in Seq(Frame) /\ n \in Nat \ {0} /\ Len(s) = n /\ DOMAIN s = 1 .. n
    BY <1>4
  <2>2. stack' = [s EXCEPT ![n] = f]
    BY <1>3
  <2> HIDE DEF s, n
  <2>3. stack' \in Seq(Frame) /\ Len(stack') = n /\ DOMAIN stack' = 1 .. n
    BY <2>1, <2>2
  <2>4. stack' # <<>>
    BY <2>1, <2>3
  <2>5. stack'[n] = f /\ \A i \in 1 .. n : i # n => stack'[i] = s[i]
    BY <2>1, <2>2
  <2> QED BY <2>3, <2>4, <2>5 DEF s
<1>6. Later \subseteq List(Top.query.Keyword[1]) /\ List(Top.query.Keyword[1]) \subseteq Posting
  BY <1>1, ListTypes DEF Later
<1>7. cursor' = NoPosting \/ cursor' \in Later
  BY <1>6, FirstIsLeast DEF Visit
<1>8. WalkTypes'
  <2>1. cursor' \in Posting \cup {NoPosting}
    BY <1>6, <1>7
  <2>2. cut' \in BOOLEAN
    BY <1>1 DEF ShapeOK, WalkTypes, Visit
  <2> QED BY <1>1, <1>5, <2>1, <2>2 DEF ShapeOK, WalkTypes
<1>9. \A i \in 1 .. n : stack'[i].query = stack[i].query
  BY <1>3, <1>4, <1>5
<1>10. StackOK'
  <2>1. stack'[1].query = request'.query
    <3>1. 1 \in 1 .. n
      BY <1>4
    <3> QED BY <1>1, <1>4, <1>9, <3>1 DEF ShapeOK, StackOK
  <2>2. FrameOK(f)
    <3>1. \A list : Len(<<list>>) = 1
      OBVIOUS
    <3>2. Top.query.Keyword # <<>>
      BY <1>2 DEF Walking
    <3> QED BY <1>3, <3>1, <3>2 DEF FrameOK
  <2>3. \A i \in DOMAIN stack' : FrameOK(stack'[i])
    <3> HIDE DEF n
    <3> QED BY <1>1, <1>4, <1>5, <2>2 DEF ShapeOK, StackOK
  <2>4. \A i \in 1 .. Len(stack') - 1 : CallerOK(stack'[i], stack'[i + 1])
    <3> SUFFICES ASSUME NEW i \in 1 .. n - 1 PROVE CallerOK(stack'[i], stack'[i + 1])
      BY <1>5
    <3>1. i \in 1 .. n /\ i # n /\ i + 1 \in 1 .. n
      <4>1. n \in Nat
        BY <1>4
      <4> HIDE DEF n
      <4> QED BY <4>1
    <3>2. CallerOK(stack[i], stack[i + 1])
      BY <1>1 DEF ShapeOK, StackOK
    <3> HIDE DEF n
    <3> QED BY <1>5, <1>9, <3>1, <3>2 DEF CallerOK
  <2> QED BY <2>1, <2>3, <2>4 DEF StackOK
<1>11. UnderwayOK'
  BY <1>1, QuietUnderway DEF ShapeOK
<1>12. PlacesOK'
  <2>1. Top'.query = Top.query
    BY <1>4, <1>5, <1>9 DEF Top
  <2>2. Walking'
    BY <1>2, <1>5, <2>1 DEF Walking
  <2>3. cursor' # NoPosting => cursor'.key \in PostedAs(Top'.query.Keyword[1])
    BY <1>6, <1>7, <2>1 DEF List
  <2> QED BY <1>1, <2>2, <2>3 DEF ShapeOK, PlacesOK
<1> QED BY <1>8, <1>10, <1>11, <1>12 DEF ShapeOK

(* A call that returns leaves its caller with one list more, of as many as it *)
(* has parts at most.                                                         *)
LEMMA ReturnPartShape ==
  ASSUME WalkInv, ReturnPart, UNCHANGED <<vars, touched>>
  PROVE  ShapeOK'
<1>1. /\ ShapeOK /\ qpc = "walk"
      /\ UNCHANGED <<qpc, ask, request, cursor, keys, docs, cut, failed>>
  BY WalkInvParts DEF ReturnPart
<1> DEFINE n == Len(stack) - 1
<1>2. /\ cursor = NoPosting /\ Len(stack) \in Nat /\ Len(stack) > 1
      /\ stack[n].query.Keyword = <<>>
      /\ Len(stack[n].lists) < Len(Parts(stack[n].query))
      /\ stack' \in Seq(Frame) /\ Len(stack') = n
      /\ \A i \in 1 .. Len(stack) - 2 : stack'[i] = stack[i]
      /\ stack'[n].query = stack[n].query
      /\ stack'[n].lists = Append(stack[n].lists, Combine(Top))
  BY ReturnPartEffect
<1>3. n \in Nat \ {0} /\ n \in 1 .. n /\ DOMAIN stack' = 1 .. n
      /\ \A i \in 1 .. n : i # n => stack'[i] = stack[i]
  <2>1. n \in Nat \ {0} /\ Len(stack) - 2 = n - 1
    BY <1>2
  <2>2. \A i \in 1 .. n - 1 : stack'[i] = stack[i]
    BY <1>2, <2>1
  <2>3. DOMAIN stack' = 1 .. n
    BY <1>2
  <2> HIDE DEF n
  <2> QED BY <2>1, <2>2, <2>3
<1>4. \A i \in 1 .. n : stack'[i].query = stack[i].query
  BY <1>2, <1>3
<1>5. WalkTypes'
  BY <1>1, <1>2 DEF ShapeOK, WalkTypes
<1>6. StackOK'
  <2>1. stack'[1].query = request'.query
    <3>1. 1 \in 1 .. n /\ stack # <<>>
      BY <1>2, <1>3
    <3> QED BY <1>1, <1>4, <3>1 DEF ShapeOK, StackOK
  <2>2. FrameOK(stack'[n])
    <3>1. stack \in Seq(Frame) /\ n \in DOMAIN stack
      BY <1>1, <1>2 DEF ShapeOK, WalkTypes
    <3>2. stack[n].lists \in Seq(SUBSET Posting) /\ stack[n].query \in TermQuery
      <4>1. stack[n] \in Frame
        BY <3>1
      <4> QED BY <4>1 DEF Frame
    <3>3. Len(stack'[n].lists) = Len(stack[n].lists) + 1 /\ Len(stack[n].lists) \in Nat
      BY <1>2, <3>2
    <3>4. Len(Parts(stack[n].query)) \in Nat
      BY <3>2, PartTypes
    <3> HIDE DEF n
    <3> QED BY <1>2, <3>3, <3>4 DEF FrameOK
  <2>3. \A i \in DOMAIN stack' : FrameOK(stack'[i])
    <3> SUFFICES ASSUME NEW i \in 1 .. n PROVE FrameOK(stack'[i])
      BY <1>3
    <3>1. i \in DOMAIN stack
      BY <1>1, <1>2 DEF ShapeOK, WalkTypes
    <3> QED BY <1>1, <1>3, <2>2, <3>1 DEF ShapeOK, StackOK
  <2>4. \A i \in 1 .. Len(stack') - 1 : CallerOK(stack'[i], stack'[i + 1])
    <3> SUFFICES ASSUME NEW i \in 1 .. n - 1 PROVE CallerOK(stack'[i], stack'[i + 1])
      BY <1>2
    <3>1. i \in 1 .. n /\ i # n /\ i + 1 \in 1 .. n /\ i \in 1 .. Len(stack) - 1
      BY <1>2, <1>3
    <3>2. CallerOK(stack[i], stack[i + 1])
      BY <1>1, <3>1 DEF ShapeOK, StackOK
    <3> HIDE DEF n
    <3> QED BY <1>3, <1>4, <3>1, <3>2 DEF CallerOK
  <2> QED BY <2>1, <2>3, <2>4 DEF StackOK
<1>7. UnderwayOK'
  BY <1>1, QuietUnderway DEF ShapeOK
<1>8. PlacesOK'
  BY <1>1, <1>2 DEF ShapeOK, PlacesOK
<1> QED BY <1>5, <1>6, <1>7, <1>8 DEF ShapeOK

(* The last call leaves no call and no walk behind, and elements just when    *)
(* there are documents to read.                                               *)
LEMMA ReturnAllShape ==
  ASSUME WalkInv, ReturnAll, UNCHANGED <<vars, touched>>
  PROVE  ShapeOK' /\ cursor = NoPosting /\ Combine(Top) \subseteq Posting /\ Top.query = request.query
         /\ docs = {}
<1>1. /\ ShapeOK /\ qpc = "walk" /\ Done /\ Len(stack) = 1 /\ stack' = <<>> /\ keys' = Combine(Top)
      /\ UNCHANGED <<ask, request, cursor, docs, cut, failed>>
  BY WalkInvParts DEF ReturnAll
<1>2. stack \in Seq(Frame) /\ stack # <<>> /\ Top = stack[1]
  <2>1. stack \in Seq(Frame) /\ Top = stack[1]
    BY <1>1 DEF ShapeOK, WalkTypes, Top
  <2>2. stack # <<>>
    BY <1>1 DEF Done, Walking
  <2> QED BY <2>1, <2>2
<1>3. cursor = NoPosting
  BY <1>1 DEF ShapeOK, PlacesOK, Done
<1>4. Combine(Top) \subseteq Posting
  <2>1. Top \in Frame
    BY <1>2, TopTypes
  <2>2. Top.query.Keyword # <<>> => Len(Top.lists) = 1
    BY <1>1, <1>2, TopTypes DEF ShapeOK, StackOK, FrameOK
  <2>3. Top.query.Keyword = <<>> => Len(Top.lists) = Len(Parts(Top.query))
    BY <1>1, <1>2 DEF Done, Walking
  <2> QED BY <2>1, <2>2, <2>3, CombineTypes
<1>5. WalkTypes'
  <2>1. stack' \in Seq(Frame)
    BY <1>1
  <2>2. qpc' \in {"respond", "batchget"}
    BY DEF ReturnAll
  <2> QED BY <1>1, <1>4, <2>1, <2>2 DEF ShapeOK, WalkTypes
<1>6. StackOK'
  <2>1. DOMAIN stack' = {} /\ 1 .. Len(stack') - 1 = {}
    BY <1>1
  <2> QED BY <1>1, <2>1 DEF StackOK
<1>7. UnderwayOK'
  BY <1>1, QuietUnderway DEF ShapeOK
<1>8. PlacesOK'
  BY <1>1, <1>3 DEF ShapeOK, PlacesOK, ReturnAll
<1>9. Top.query = request.query /\ docs = {}
  BY <1>1, <1>2 DEF ShapeOK, StackOK, PlacesOK
<1> QED BY <1>3, <1>4, <1>5, <1>6, <1>7, <1>8, <1>9 DEF ShapeOK

(* Reading leaves documents of the store, and elements just when it goes on.  *)
LEMMA BatchGetShape ==
  ASSUME WalkInv, BatchGet, UNCHANGED <<vars, touched>>
  PROVE  ShapeOK'
<1>1. ShapeOK /\ TypeOK /\ qpc = "batchget" /\ UNCHANGED <<ask, request, stack, cursor, cut>>
  BY WalkInvParts DEF BatchGet, AnyInv
<1>2. PICK failing :
       LET read == {p \in keys : failing = NoPosting \/ p.intId < failing.intId}
       IN /\ docs' = docs \cup {[intId |-> p.intId, doc |-> forward[p.id]] :
                                p \in {q \in read : forward[q.id] # NoDoc}}
          /\ keys' = {p \in keys \ read : p.intId > failing.intId}
          /\ failed' = (failed \/ failing # NoPosting)
  BY DEF BatchGet
<1>3. keys \subseteq Posting /\ docs \subseteq Result /\ failed \in BOOLEAN
  BY <1>1 DEF ShapeOK, WalkTypes
<1>4. docs' \subseteq Result
  <2>1. \A p \in keys : forward[p.id] # NoDoc => [intId |-> p.intId, doc |-> forward[p.id]] \in Result
    BY <1>1, <1>3 DEF TypeOK, Posting, Result
  <2> QED BY <1>2, <1>3, <2>1
<1>5. WalkTypes'
  <2>1. qpc' \in {"respond", "batchget"} /\ failed' \in BOOLEAN /\ keys' \subseteq Posting
    BY <1>2, <1>3 DEF BatchGet
  <2> QED BY <1>1, <1>4, <2>1 DEF ShapeOK, WalkTypes
<1>6. StackOK'
  BY <1>1 DEF ShapeOK, StackOK
<1>7. UnderwayOK'
  BY <1>1, QuietUnderway DEF ShapeOK
<1>8. PlacesOK'
  <2>1. stack = <<>> /\ cursor = NoPosting
    BY <1>1 DEF ShapeOK, PlacesOK, Walking
  <2>2. keys' # {} <=> qpc' = "batchget"
    BY DEF BatchGet
  <2>3. qpc' \in {"respond", "batchget"}
    BY DEF BatchGet
  <2> QED BY <1>1, <2>1, <2>2, <2>3 DEF PlacesOK
<1> QED BY <1>5, <1>6, <1>7, <1>8 DEF ShapeOK

(* An answer leaves everything where it is.                                   *)
LEMMA RespondShape ==
  ASSUME WalkInv, Respond, UNCHANGED <<vars, touched>>
  PROVE  ShapeOK'
<1>1. ShapeOK /\ qpc = "respond" /\ qpc' = "answered"
      /\ UNCHANGED <<ask, request, stack, cursor, keys, docs, cut, failed>>
  BY WalkInvParts DEF Respond
<1>2. WalkTypes'
  BY <1>1 DEF ShapeOK, WalkTypes
<1>3. StackOK'
  BY <1>1 DEF ShapeOK, StackOK
<1>4. UnderwayOK'
  BY <1>1, QuietUnderway DEF ShapeOK
<1>5. PlacesOK'
  <2>1. stack = <<>> /\ cursor = NoPosting /\ keys = {}
    BY <1>1 DEF ShapeOK, PlacesOK, Walking
  <2> QED BY <1>1, <2>1 DEF PlacesOK
<1> QED BY <1>2, <1>3, <1>4, <1>5 DEF ShapeOK

(* What a writer's step leaves of the search, once its types and touched are    *)
(* right.                                                                       *)
LEMMA WriterShape ==
  ASSUME WalkInv, UNCHANGED walkVars, touched' \subseteq Id, UnderwayOK'
  PROVE  ShapeOK'
<1>1. ShapeOK /\ UNCHANGED <<qpc, ask, request, stack, cursor, keys, docs, cut, failed>>
  BY WalkInvParts DEF walkVars
<1>2. WalkTypes'
  BY <1>1 DEF ShapeOK, WalkTypes
<1>3. StackOK'
  BY <1>1 DEF ShapeOK, StackOK
<1>4. PlacesOK'
  BY <1>1 DEF ShapeOK, PlacesOK, Walking, Top
<1> QED BY <1>2, <1>3, <1>4 DEF ShapeOK

(* Only an id that is worked on gets another document, and a call in progress   *)
(* begins to work on nothing new.                                               *)
LEMMA StepIsOfBusy ==
  ASSUME TypeOK, NEW t \in Thread, Step(t)
  PROVE  /\ \A x : Busy(x)' => Busy(x)
         /\ \A x \in Id : Busy(x) \/ forward'[x] = forward[x]
         /\ process' = process /\ loaded' = loaded
<1>1. pc[t] # "idle" /\ process' = process /\ loaded' = loaded
  BY DEF Step, Get, Unpost, ForwardDelete, GetId, ForwardSet, Post, Acknowledge
<1>2. ASSUME NEW u \in Thread, pc'[u] # "idle"
      PROVE  pc[u] # "idle" /\ call'[u] = call[u]
  <2> USE DEF TypeOK, Goto, NextKeyword
  <2>1. CASE Get(t)
    BY <1>1, <1>2, <2>1 DEF Get
  <2>2. CASE Unpost(t)
    BY <1>1, <1>2, <2>2 DEF Unpost
  <2>3. CASE ForwardDelete(t)
    BY <1>1, <1>2, <2>3 DEF ForwardDelete, Return
  <2>4. CASE GetId(t)
    BY <1>1, <1>2, <2>4 DEF GetId
  <2>5. CASE ForwardSet(t)
    BY <1>1, <1>2, <2>5 DEF ForwardSet
  <2>6. CASE Post(t)
    BY <1>1, <1>2, <2>6 DEF Post
  <2>7. CASE Acknowledge(t)
    BY <1>1, <1>2, <2>7 DEF Acknowledge, Return
  <2> QED BY <2>1, <2>2, <2>3, <2>4, <2>5, <2>6, <2>7 DEF Step
<1>3. \A x : Busy(x)' => Busy(x)
  BY <1>2 DEF Busy, Running, Key
<1>4. ASSUME NEW x \in Id, forward'[x] # forward[x] PROVE Busy(x)
  <2>1. x = Key(t)
    <3> USE DEF TypeOK
    <3>1. CASE ForwardDelete(t)
      BY <1>4, <3>1 DEF ForwardDelete
    <3>2. CASE ForwardSet(t)
      BY <1>4, <3>2 DEF ForwardSet
    <3>3. CASE forward' = forward
      BY <1>4, <3>3
    <3> QED BY <3>1, <3>2, <3>3 DEF Step, Get, Unpost, GetId, Post, Acknowledge
  <2> QED BY <1>1, <2>1 DEF Busy, Running
<1> QED BY <1>1, <1>3, <1>4

(* A call that begins works on one id more.                                     *)
LEMMA BeginIsTouched ==
  ASSUME TypeOK, NEW t \in Thread, NEW c \in Call, Begin(t, c)
  PROVE  \A x : Busy(x)' => Busy(x) \/ x = KeyOf(c)
<1>1. call'[t] = c /\ \A u \in Thread : u # t => call'[u] = call[u] /\ pc'[u] = pc[u]
  BY DEF TypeOK, Begin, Goto
<1> QED BY <1>1 DEF Busy, Running, Key

(* What the writers and the life of the process do to a search: they leave it   *)
(* alone, but for its process's end, and every id they work on is touched.      *)
WritersLeave ==
  /\ UNCHANGED walkVars /\ touched \subseteq touched' /\ touched' \subseteq Id
  /\ UnderwayOK'
  /\ qpc # "idle" =>
       /\ \A x \in Id \ touched' : forward'[x] = forward[x]
       /\ process' = "serving" /\ loaded' => process = "serving" /\ loaded

(* A call that begins leaves the searches alone, and its id counts as touched *)
(* from then on.                                                              *)
LEMMA CallLeaves ==
  ASSUME WalkInv, NEW t \in Handler, NEW c \in Call, Up, Begin(t, c), Touch(KeyOf(c)),
         UNCHANGED <<process, loaded, forward, walkVars>>
  PROVE  WritersLeave
<1>1. TypeOK /\ touched \subseteq Id /\ t \in Thread
  BY DEF WalkInv, SearchTypeOK, Thread
<1>2. KeyOf(c) \in Id
  BY IndexerAssumption DEF IndexerAssumption, Call, KeyOf
<1>3. touched \subseteq touched' /\ touched' \subseteq Id
  BY <1>1, <1>2 DEF Touch
<1>4. UnderwayOK'
  <2> SUFFICES ASSUME qpc' # "idle"
               PROVE  /\ Up' /\ ask' \in DOMAIN Asks /\ request' = RequestOf(Asks[ask'])
                      /\ \A x \in Id : Busy(x)' => x \in touched'
    BY DEF UnderwayOK
  <2>1. qpc # "idle" /\ touched' = touched \cup {KeyOf(c)}
    BY DEF Touch, walkVars
  <2>2. \A x : Busy(x)' => Busy(x) \/ x = KeyOf(c)
    BY <1>1, BeginIsTouched
  <2>3. /\ ask \in DOMAIN Asks /\ request = RequestOf(Asks[ask])
        /\ \A x \in Id : Busy(x) => x \in touched
    BY <2>1 DEF WalkInv, PlaceOK
  <2>4. Up'
    BY DEF Up
  <2> QED BY <2>1, <2>2, <2>3, <2>4 DEF walkVars
<1> QED BY <1>3, <1>4 DEF WritersLeave

(* So does every step of the writers and of the process, but for the end of   *)
(* the process.                                                               *)
LEMMA WriterLeaves ==
  ASSUME WalkInv,
         \/ \E t \in Handler, id \in Written, kws \in KeywordLists : CallAddDoc(t, id, kws)
         \/ \E t \in Handler, id \in Written : CallDeleteDoc(t, id)
         \/ \E t \in Thread : Step(t) /\ UNCHANGED <<walkVars, touched>>
         \/ /\ Load \/ StartRebuild \/ BuildRow \/ FinishRebuild \/ Close
            /\ UNCHANGED <<walkVars, touched>>
         \/ UNCHANGED searchVars
  PROVE  WritersLeave
<1>0. TypeOK /\ touched \subseteq Id /\ UnderwayOK
  BY WalkInvParts DEF WalkInv, SearchTypeOK, ShapeOK
<1>1. ASSUME NEW t \in Handler, NEW id \in Written, NEW kws \in KeywordLists, CallAddDoc(t, id, kws)
      PROVE  WritersLeave
  <2> DEFINE c == [op |-> "AddDoc", id |-> id, keywords |-> kws]
  <2>1. c \in Call /\ KeyOf(c) = TrimSpace[id]
    BY SearchAssumption DEF Call, KeyOf
  <2>2. Up /\ Begin(t, c) /\ UNCHANGED <<process, loaded, forward, walkVars>> /\ Touch(KeyOf(c))
    BY <1>1, <2>1 DEF CallAddDoc, HandleAddDoc, AddDoc
  <2> HIDE DEF c
  <2> QED BY <2>1, <2>2, CallLeaves
<1>2. ASSUME NEW t \in Handler, NEW id \in Written, CallDeleteDoc(t, id)
      PROVE  WritersLeave
  <2> DEFINE c == [op |-> "DeleteDoc", id |-> id, keywords |-> <<>>]
  <2>1. c \in Call /\ KeyOf(c) = id
    BY SearchAssumption DEF Call, KeyOf
  <2>2. Up /\ Begin(t, c) /\ UNCHANGED <<process, loaded, forward, walkVars>> /\ Touch(KeyOf(c))
    BY <1>2, <2>1 DEF CallDeleteDoc, HandleDeleteDoc
  <2> HIDE DEF c
  <2> QED BY <2>1, <2>2, CallLeaves
<1>3. ASSUME NEW t \in Thread, Step(t), UNCHANGED <<walkVars, touched>>
      PROVE  WritersLeave
  <2>1. /\ \A x : Busy(x)' => Busy(x)
        /\ \A x \in Id : Busy(x) \/ forward'[x] = forward[x]
        /\ process' = process /\ loaded' = loaded
    BY <1>0, <1>3, StepIsOfBusy
  <2>2. UnderwayOK'
    BY <1>0, <1>3, <2>1 DEF UnderwayOK, Up, walkVars
  <2> QED BY <1>0, <1>3, <2>1, <2>2 DEF WritersLeave, UnderwayOK
<1>4. ASSUME Load \/ StartRebuild \/ BuildRow \/ FinishRebuild, UNCHANGED <<walkVars, touched>>
      PROVE  WritersLeave
  <2>1. ~Up
    BY <1>4 DEF Load, StartRebuild, BuildRow, FinishRebuild, Up
  <2>2. qpc = "idle"
    BY <1>0, <2>1 DEF UnderwayOK
  <2> QED BY <1>0, <1>4, <2>2 DEF WritersLeave, UnderwayOK, walkVars
<1>5. ASSUME Close, UNCHANGED <<walkVars, touched>>
      PROVE  WritersLeave
  <2>1. UnderwayOK'
    <3>1. Up' /\ pc' = pc /\ call' = call
      BY <1>5 DEF Close, Up, locals
    <3> QED BY <1>0, <1>5, <3>1 DEF UnderwayOK, walkVars, Busy, Running, Key
  <2> QED BY <1>0, <1>5, <2>1 DEF WritersLeave, Close
<1>6. ASSUME UNCHANGED searchVars
      PROVE  WritersLeave
  <2>1. UNCHANGED <<vars, walkVars, touched>>
    BY <1>6 DEF searchVars
  <2>2. UnderwayOK'
    BY <1>0, <2>1, QuietIndexer DEF UnderwayOK, walkVars
  <2> QED BY <1>0, <2>1, <2>2, QuietIndexer DEF WritersLeave
<1> QED BY <1>1, <1>2, <1>3, <1>4, <1>5, <1>6

(* What the step of a search is one of.                                         *)
SearchKinds ==
  \/ \E a \in DOMAIN Asks : CallSearch(a, RequestOf(Asks[a])) /\ UNCHANGED vars
  \/ Descend /\ UNCHANGED <<vars, touched>>
  \/ Visit /\ UNCHANGED <<vars, touched>>
  \/ ReturnPart /\ UNCHANGED <<vars, touched>>
  \/ ReturnAll /\ UNCHANGED <<vars, touched>>
  \/ BatchGet /\ UNCHANGED <<vars, touched>>
  \/ Respond /\ UNCHANGED <<vars, touched>>
  \/ NoSearch
  \/ WritersLeave

(* Every step is one of these.                                                *)
LEMMA StepKinds == WalkInv /\ [SearchNext]_searchVars => SearchKinds
<1> SUFFICES ASSUME WalkInv, [SearchNext]_searchVars PROVE SearchKinds
  OBVIOUS
<1>1. CASE SearchStep
  BY <1>1 DEF SearchStep, Finish, SearchKinds
<1>2. CASE Lifecycle
  <2>1. CASE Exit /\ NoSearch
    BY <2>1 DEF SearchKinds
  <2>2. CASE ~(Exit /\ NoSearch)
    BY <1>2, <2>2, WriterLeaves DEF Lifecycle, SearchKinds
  <2> QED BY <2>1, <2>2
<1>3. CASE \E a \in DOMAIN Asks : CallSearch(a, RequestOf(Asks[a])) /\ UNCHANGED vars
  BY <1>3 DEF SearchKinds
<1>4. CASE ~SearchStep /\ ~Lifecycle /\ ~\E a \in DOMAIN Asks : CallSearch(a, RequestOf(Asks[a])) /\ UNCHANGED vars
  BY <1>4, WriterLeaves DEF SearchNext, SearchKinds
<1> QED BY <1>1, <1>2, <1>3, <1>4

(* The shape of a search is right at all times, whether calls overlap or not. *)
LEMMA WalkInvInductive ==
  (SearchInit => WalkInv) /\ (WalkInv /\ [SearchNext]_searchVars => WalkInv')
<1>1. SearchInit => WalkInv
  BY AnyInit, NoSearchShape, WalkInvParts DEF SearchInit
<1>2. ASSUME WalkInv, [SearchNext]_searchVars PROVE WalkInv'
  <2>1. AnyInv'
    BY <1>2, StepsOfIndexer, AnyStep DEF WalkInv
  <2>2. ShapeOK'
    <3>1. CASE NoSearch
      <4>1. (qpc = "idle" /\ ask = 0 /\ request = NoRequest /\ stack = <<>>
               /\ cursor = NoPosting /\ keys = {} /\ docs = {} /\ touched = {}
               /\ cut = FALSE /\ failed = FALSE)'
        BY <3>1 DEF NoSearch
      <4> QED BY <4>1, NoSearchShape, PTL
    <3>2. CASE WritersLeave
      BY <1>2, <3>2, WriterShape DEF WritersLeave
    <3> QED BY <1>2, <3>1, <3>2, StepKinds, CallSearchShape, DescendShape, VisitShape,
               ReturnPartShape, ReturnAllShape, BatchGetShape, RespondShape DEF SearchKinds
  <2>3. WalkInv' <=> AnyInv' /\ ShapeOK'
    BY WalkInvParts, PTL
  <2> QED BY <2>1, <2>2, <2>3
<1> QED BY <1>1, <1>2

(* Every variable of a search keeps its type, whatever the query and however    *)
(* the writers' calls overlap: the walk of the skip lists never leaves them,    *)
(* and each call of the recursion gets lists of elements from those below it.   *)
THEOREM SearchTypeCorrect == SearchSafety => []SearchTypeOK
<1>1. SearchInit => WalkInv
  BY WalkInvInductive
<1>2. WalkInv /\ [SearchNext]_searchVars => WalkInv'
  BY WalkInvInductive
<1>3. WalkInv => SearchTypeOK
  BY DEF WalkInv
<1> QED BY <1>1, <1>2, <1>3, PTL DEF SearchSafety

(* Beside a search the Indexer does what it does without it, so what is proved  *)
(* of it holds here too.                                                        *)
THEOREM SearchImplementsIndexer == SearchSafety => Spec
<1>1. SearchInit => Init
  BY DEF SearchInit
<1>2. [SearchNext]_searchVars => [Next]_vars
  BY StepsOfIndexer
<1> QED BY <1>1, <1>2, PTL DEF SearchSafety, Spec

------------------------------------------------------------------------------
(* What a search finds.                                                         *)

(* What the Indexer keeps of its two indexes while it serves what it loaded.    *)
IndexIsRight ==
  /\ \A p \in postings : forward[p.id] # NoDoc /\ p \in PostingsOf(forward[p.id])
  /\ \A x \in Id : forward[x] # NoDoc /\ ~Busy(x) => PostingsOf(forward[x]) \subseteq postings
  /\ \A x, y \in Id : forward[x] # NoDoc /\ forward[y] # NoDoc /\ forward[x].intId = forward[y].intId
                        => x = y
  /\ \A x \in Id : forward[x] # NoDoc => forward[x].id = x /\ forward[x] \in Document

(* So the two indexes are, with callers that do not overlap their calls on    *)
(* one id.                                                                    *)
LEMMA ServingIsRight ==
  ASSUME \A id \in Id : TrimSpace[id] = id,
         SerialInv, StoredIsCovered, process = "serving", loaded
  PROVE  IndexIsRight
<1>1. TypeOK /\ AnyInv /\ CoverInv
  BY DEF SerialInv, AnyInv, CoverInv
<1>2. ASSUME NEW x \in Id, forward[x] # NoDoc
      PROVE  forward[x].id = x /\ forward[x] \in Document
  <2>1. forward[x] \in Document
    BY <1>1, <1>2 DEF TypeOK
  <2> QED BY <1>1, <1>2, <2>1 DEF AnyInv, KeyedByTrim, Document
<1>3. ASSUME NEW p \in postings
      PROVE  forward[p.id] # NoDoc /\ p \in PostingsOf(forward[p.id])
  <2>1. p.id \in Id /\ TrimSpace[p.id] = p.id
    BY <1>1 DEF TypeOK, Posting
  <2>2. Belongs(p)
    BY DEF SerialInv, PostingsBelong, Open
  <2> QED BY <2>1, <2>2 DEF Belongs, PostingAt, PostingsOf
<1>4. ASSUME NEW x \in Id, forward[x] # NoDoc, ~Busy(x)
      PROVE  PostingsOf(forward[x]) \subseteq postings
  BY <1>1, <1>4, CoveredIsPosted DEF StoredIsPosted
<1>5. ASSUME NEW x \in Id, NEW y \in Id, forward[x] # NoDoc, forward[y] # NoDoc,
             forward[x].intId = forward[y].intId
      PROVE  x = y
  <2>1. forward[x] \in InPlay /\ forward[y] \in InPlay
    BY <1>5 DEF InPlay
  <2>2. forward[x] = forward[y]
    BY <1>1, <1>5, <2>1 DEF AnyInv, OneDocPerIntId
  <2> QED BY <1>2, <1>5, <2>2
<1> QED BY <1>2, <1>3, <1>4, <1>5 DEF IndexIsRight

(* An element of the index is faithful about every id.                          *)
LEMMA PostedIsFaithful ==
  ASSUME TypeOK, IndexIsRight, NEW p \in postings, NEW x \in Id
  PROVE  Faithful(p, About(x))
<1>1. p.id \in Id /\ forward[p.id] # NoDoc /\ p \in PostingsOf(forward[p.id])
  BY DEF IndexIsRight, TypeOK, Posting
<1>2. p.intId = forward[p.id].intId
  BY <1>1 DEF PostingsOf
<1>3. forward[x] # NoDoc /\ forward[x].intId = p.intId => p.id = x
  BY <1>1, <1>2 DEF IndexIsRight
<1> QED BY <1>1, <1>3 DEF Faithful, About

(* A faithful element of an id has the integer id of its document.              *)
LEMMA FaithfulIntId ==
  ASSUME NEW p, NEW s, Faithful(p, s)
  PROVE  /\ p.id = s.id => s.doc # NoDoc /\ p.intId = s.doc.intId
         /\ s.doc # NoDoc => (p.intId = s.doc.intId <=> p.id = s.id)
<1>1. p.id = s.id => s.doc # NoDoc /\ p.intId = s.doc.intId
  BY DEF Faithful, PostingsOf
<1> QED BY <1>1 DEF Faithful

(* To what queries a document is an answer, by the form of the query.           *)
LEMMA AnswersByForm ==
  ASSUME TypeOK, NEW x \in Id, NEW q \in TermQuery
  PROVE  /\ q \in About(x).answers => forward[x] # NoDoc /\ FilterByBits(BitsOf[x])
         /\ q.Keyword # <<>> =>
              (q \in About(x).answers <=> /\ forward[x] # NoDoc /\ FilterByBits(BitsOf[x])
                                          /\ q.Keyword[1] \in KeywordsIn(forward[x]))
         /\ q.Keyword = <<>> /\ q.Must # <<>> =>
              (q \in About(x).answers <=> \A i \in DOMAIN Parts(q) : Parts(q)[i] \in About(x).answers)
         /\ q.Keyword = <<>> /\ q.Must = <<>> =>
              (q \in About(x).answers <=> \E i \in DOMAIN Parts(q) : Parts(q)[i] \in About(x).answers)
<1> DEFINE kws == KeywordsIn(forward[x])
           A   == {p \in TermQuery : kws \in Matching[p]}
           rest == forward[x] # NoDoc /\ FilterByBits(BitsOf[x])
<1>1. \A p \in TermQuery : p \in About(x).answers <=> rest /\ p \in A
  BY DEF About, AnswerTo
<1>2. forward[x] # NoDoc => kws \in SUBSET Term
  <2> SUFFICES ASSUME forward[x] # NoDoc PROVE kws \in SUBSET Term
    OBVIOUS
  <2>1. forward[x].keywords \in Seq(Keyword)
    BY IndexerAssumption DEF TypeOK, Document, IndexerAssumption
  <2>2. \A i \in DOMAIN forward[x].keywords : forward[x].keywords[i] \in Keyword
    BY <2>1
  <2>3. \A w \in Keyword : KeywordOf[w] \in Term
    BY SearchAssumption
  <2> QED BY <2>2, <2>3 DEF KeywordsIn
<1>3. ASSUME forward[x] # NoDoc PROVE q \in A <=> FoundBy(q, kws, A)
  <2>1. Matching[q] = {w \in SUBSET Term : FoundBy(q, w, {p \in TermQuery : w \in Matching[p]})}
    BY MatchingUnfolds
  <2>2. kws \in SUBSET Term
    BY <1>2, <1>3
  <2> HIDE DEF kws
  <2> QED BY <2>1, <2>2
<1>4. /\ Parts(q) \in Seq(TermQuery)
      /\ \A i \in DOMAIN Parts(q) : Parts(q)[i] \in TermQuery
      /\ q.Must # <<>> => Parts(q) = q.Must /\ 1 \in DOMAIN Parts(q)
      /\ q.Must = <<>> => Parts(q) = q.Should
  <2>1. Parts(q) \in Seq(TermQuery)
    BY PartTypes
  <2> QED BY <2>1 DEF Parts
<1> HIDE DEF kws, A, rest
<1>5. q \in About(x).answers <=> rest /\ FoundBy(q, kws, A)
  BY <1>1, <1>3 DEF rest
<1>6. CASE q.Keyword # <<>>
  BY <1>5, <1>6 DEF FoundBy, kws, rest
<1>7. CASE q.Keyword = <<>> /\ q.Must # <<>>
  <2>1. FoundBy(q, kws, A) <=> \A i \in DOMAIN Parts(q) : Parts(q)[i] \in A
    BY <1>4, <1>7 DEF FoundBy
  <2> QED BY <1>1, <1>4, <1>5, <1>7, <2>1 DEF rest
<1>8. CASE q.Keyword = <<>> /\ q.Must = <<>>
  <2>1. FoundBy(q, kws, A) <=> \E i \in DOMAIN Parts(q) : Parts(q)[i] \in A
    BY <1>4, <1>8 DEF FoundBy
  <2> QED BY <1>1, <1>4, <1>5, <1>8, <2>1 DEF rest
<1> QED BY <1>6, <1>7, <1>8

(* A document with the keyword of a query has an element in the keyword's list, *)
(* while no call works on it.                                                   *)
LEMMA AnswerIsListed ==
  ASSUME TypeOK, IndexIsRight, NEW x \in Id, ~Busy(x),
         NEW q \in TermQuery, q.Keyword # <<>>, q \in About(x).answers
  PROVE  \E p \in List(q.Keyword[1]) : p.id = x /\ p.intId = forward[x].intId
<1>1. forward[x] # NoDoc /\ q.Keyword[1] \in KeywordsIn(forward[x])
  BY AnswersByForm
<1>2. forward[x].id = x /\ PostingsOf(forward[x]) \subseteq postings /\ forward[x] \in Document
  BY <1>1 DEF IndexIsRight
<1>3. PICK i \in DOMAIN forward[x].keywords : KeywordOf[forward[x].keywords[i]] = q.Keyword[1]
  BY <1>1 DEF KeywordsIn
<1> DEFINE p == [key |-> forward[x].keywords[i], intId |-> forward[x].intId, id |-> forward[x].id]
<1>4. p \in postings
  BY <1>2 DEF PostingsOf
<1>5. p.key \in Keyword
  BY <1>4 DEF TypeOK, Posting
<1>6. p.key \in PostedAs(q.Keyword[1])
  BY <1>3, <1>5, SearchAssumption DEF PostedAs
<1>7. p \in List(q.Keyword[1])
  BY <1>4, <1>6 DEF List
<1> QED BY <1>2, <1>7

(* What a list of the keyword gives about an id is an answer to it.             *)
LEMMA ListedIsAnswer ==
  ASSUME TypeOK, NEW x \in Id, NEW q \in TermQuery, q.Keyword # <<>>,
         NEW p \in Posting, p.key \in PostedAs(q.Keyword[1]), p.id = x,
         Faithful(p, About(x)), FilterByBits(BitsOf[x])
  PROVE  q \in About(x).answers
<1>1. forward[x] # NoDoc /\ p \in PostingsOf(forward[x])
  BY DEF Faithful, About
<1>2. PICK i \in DOMAIN forward[x].keywords : p.key = forward[x].keywords[i]
  BY <1>1 DEF PostingsOf
<1>3. q.Keyword[1] \in KeywordsIn(forward[x])
  BY <1>2 DEF PostedAs, KeywordsIn
<1> QED BY <1>1, <1>3, AnswersByForm

------------------------------------------------------------------------------
(* Combining lists that are right gives one that is.                            *)

(* The intersection.                                                            *)
LEMMA IntersectionIsRight ==
  ASSUME NEW lists \in Seq(SUBSET Posting), NEW parts, DOMAIN parts = DOMAIN lists,
         1 \in DOMAIN lists, NEW s, NEW q, NEW missed \in BOOLEAN,
         \A i \in DOMAIN lists : ListIsRight(parts[i], lists[i], s, missed),
         q \in s.answers <=> \A i \in DOMAIN parts : parts[i] \in s.answers,
         \A r \in s.answers : s.doc # NoDoc
  PROVE  ListIsRight(q, IntersectionOfSkipList(lists), s, missed)
<1> DEFINE L == IntersectionOfSkipList(lists)
<1>1. \A p \in L : p \in lists[1] /\ \A i \in DOMAIN lists : \E r \in lists[i] : r.intId = p.intId
  BY DEF IntersectionOfSkipList
<1>2. \A p \in L : Faithful(p, s)
  BY <1>1 DEF ListIsRight
<1>3. ASSUME Found(L, s) PROVE q \in s.answers
  <2>1. PICK p \in L : p.id = s.id
    BY <1>3 DEF Found
  <2>2. s.doc # NoDoc /\ p.intId = s.doc.intId
    BY <1>2, <2>1, FaithfulIntId
  <2>3. ASSUME NEW i \in DOMAIN lists PROVE parts[i] \in s.answers
    <3>1. PICK r \in lists[i] : r.intId = p.intId
      BY <1>1
    <3>2. Faithful(r, s)
      BY DEF ListIsRight
    <3>3. r.id = s.id
      BY <2>2, <3>1, <3>2, FaithfulIntId
    <3> QED BY <3>3 DEF ListIsRight, Found
  <2> QED BY <2>3
<1>4. ASSUME q \in s.answers, ~missed PROVE Found(L, s)
  <2>1. s.doc # NoDoc
    BY <1>4
  <2>2. ASSUME NEW i \in DOMAIN lists
        PROVE  \E r \in lists[i] : r.id = s.id /\ r.intId = s.doc.intId
    <3>1. Found(lists[i], s)
      BY <1>4 DEF ListIsRight
    <3>2. PICK r \in lists[i] : r.id = s.id
      BY <3>1 DEF Found
    <3>3. Faithful(r, s)
      BY DEF ListIsRight
    <3> QED BY <3>2, <3>3, FaithfulIntId
  <2>3. PICK p \in lists[1] : p.id = s.id /\ p.intId = s.doc.intId
    BY <2>2
  <2>4. p \in L
    BY <2>2, <2>3 DEF IntersectionOfSkipList
  <2> QED BY <2>3, <2>4 DEF Found
<1> HIDE DEF L
<1>5. ListIsRight(q, L, s, missed)
  BY <1>2, <1>3, <1>4 DEF ListIsRight
<1> QED BY <1>5 DEF L

(* The union: of the lists with an element of the id the first one counts.      *)
LEMMA UnionIsRight ==
  ASSUME NEW lists \in Seq(SUBSET Posting), NEW parts, DOMAIN parts = DOMAIN lists,
         NEW s, NEW q, NEW missed \in BOOLEAN,
         \A i \in DOMAIN lists : ListIsRight(parts[i], lists[i], s, missed),
         q \in s.answers <=> \E i \in DOMAIN parts : parts[i] \in s.answers,
         \A r \in s.answers : s.doc # NoDoc
  PROVE  ListIsRight(q, UnionOfSkipList(lists), s, missed)
<1> DEFINE L == UnionOfSkipList(lists)
<1>1. \A p \in L : \E i \in DOMAIN lists : p \in lists[i]
  BY DEF UnionOfSkipList
<1>2. \A p \in L : Faithful(p, s)
  BY <1>1 DEF ListIsRight
<1>3. ASSUME Found(L, s) PROVE q \in s.answers
  <2>1. PICK p \in L : p.id = s.id
    BY <1>3 DEF Found
  <2>2. PICK i \in DOMAIN lists : p \in lists[i]
    BY <1>1
  <2> QED BY <2>1, <2>2 DEF ListIsRight, Found
<1>4. ASSUME q \in s.answers, ~missed PROVE Found(L, s)
  <2>1. s.doc # NoDoc
    BY <1>4
  <2> DEFINE Having == {i \in DOMAIN lists : Found(lists[i], s)}
  <2>2. Having # {} /\ Having \subseteq Nat
    <3>1. PICK i \in DOMAIN lists : parts[i] \in s.answers
      BY <1>4
    <3>2. Found(lists[i], s)
      BY <1>4, <3>1 DEF ListIsRight
    <3> QED BY <3>2
  <2>3. PICK i \in Having : \A j \in Having : ~ (<<j, i>> \in OpToRel(<, Nat))
    <3> HIDE DEF Having
    <3> QED BY <2>2, NatLessThanWellFounded, WFMin
  <2>4. \A j \in 1 .. i - 1 : j \in DOMAIN lists => ~Found(lists[j], s)
    <3> SUFFICES ASSUME NEW j \in 1 .. i - 1, j \in Having PROVE FALSE
      OBVIOUS
    <3>1. i \in Nat /\ j \in Nat /\ j < i
      BY <2>2
    <3>2. <<j, i>> \in OpToRel(<, Nat)
      BY <3>1 DEF OpToRel
    <3> HIDE DEF Having
    <3> QED BY <2>3, <3>2
  <2>5. i \in DOMAIN lists /\ Found(lists[i], s)
    BY <2>3
  <2>6. PICK p \in lists[i] : p.id = s.id
    BY <2>5 DEF Found
  <2>7. Faithful(p, s)
    BY <2>5 DEF ListIsRight
  <2>8. p.intId = s.doc.intId
    BY <2>6, <2>7, FaithfulIntId
  <2>9. ASSUME NEW j \in 1 .. i - 1, NEW r \in lists[j] PROVE r.intId # p.intId
    <3>1. j \in DOMAIN lists
      BY <2>5
    <3>2. ~Found(lists[j], s) /\ Faithful(r, s)
      BY <2>4, <3>1 DEF ListIsRight
    <3> QED BY <2>1, <2>8, <3>2, FaithfulIntId DEF Found
  <2>10. p \in L
    BY <2>5, <2>6, <2>9 DEF UnionOfSkipList
  <2> QED BY <2>6, <2>10 DEF Found
<1> HIDE DEF L
<1>5. ListIsRight(q, L, s, missed)
  BY <1>2, <1>3, <1>4 DEF ListIsRight
<1> QED BY <1>5 DEF L

(* What search returns is right when its walk has ended, or the lists of its    *)
(* parts are.                                                                   *)
LEMMA CombineIsRight ==
  ASSUME WalkInv, stack # <<>>, Done, cursor = NoPosting, NEW x \in Id, RightAbout(x)
  PROVE  ListIsRight(Top.query, Combine(Top), About(x), cut)
<1>1. stack \in Seq(Frame) /\ TypeOK /\ cut \in BOOLEAN
  BY DEF WalkInv, SearchTypeOK
<1>2. /\ Top = stack[Len(stack)] /\ Len(stack) \in DOMAIN stack
      /\ Top.query \in TermQuery /\ Top.lists \in Seq(SUBSET Posting)
      /\ DOMAIN Top.lists = 1 .. Len(Top.lists) /\ Len(Top.lists) \in Nat
  BY <1>1, TopTypes
<1>3. Parts(Top.query) \in Seq(TermQuery) /\ DOMAIN Parts(Top.query) = 1 .. Len(Parts(Top.query))
  BY <1>2, PartTypes
<1>4. \A r \in About(x).answers : About(x).doc # NoDoc
  BY DEF About, AnswerTo
<1>5. CASE Top.query.Keyword # <<>>
  <2>1. WalkIsRight(Top, cursor, About(x), cut)
    BY <1>5 DEF RightAbout, Walking
  <2>2. Combine(Top) = Top.lists[1]
    BY <1>5 DEF Combine
  <2> QED BY <2>1, <2>2 DEF WalkIsRight, ListIsRight
<1>6. CASE Top.query.Keyword = <<>>
  <2>1. Len(Top.lists) = Len(Parts(Top.query))
    BY <1>6 DEF Done, Walking
  <2>2. DOMAIN Parts(Top.query) = DOMAIN Top.lists
    BY <1>2, <1>3, <2>1
  <2>3. \A i \in DOMAIN Top.lists : ListIsRight(Parts(Top.query)[i], Top.lists[i], About(x), cut)
    BY <1>2, <1>6 DEF RightAbout, FrameIsRight
  <2>4. CASE Top.query.Must # <<>>
    <3>1. 1 \in DOMAIN Top.lists
      BY <1>3, <2>2, <2>4 DEF Parts
    <3>2. Combine(Top) = IntersectionOfSkipList(Top.lists)
      BY <1>6, <2>4 DEF Combine
    <3>3. Top.query \in About(x).answers
            <=> \A i \in DOMAIN Parts(Top.query) : Parts(Top.query)[i] \in About(x).answers
      BY <1>1, <1>2, <1>6, <2>4, AnswersByForm
    <3> QED BY <1>1, <1>2, <1>4, <2>2, <2>3, <3>1, <3>2, <3>3, IntersectionIsRight
  <2>5. CASE Top.query.Must = <<>>
    <3>1. Combine(Top) = UnionOfSkipList(Top.lists)
      BY <1>6, <2>5 DEF Combine
    <3>2. Top.query \in About(x).answers
            <=> \E i \in DOMAIN Parts(Top.query) : Parts(Top.query)[i] \in About(x).answers
      BY <1>1, <1>2, <1>6, <2>5, AnswersByForm
    <3> QED BY <1>1, <1>2, <1>4, <2>2, <2>3, <3>1, <3>2, UnionIsRight
  <2> QED BY <2>4, <2>5
<1> QED BY <1>5, <1>6

------------------------------------------------------------------------------
(* Every step keeps a search right about the ids nobody works on.               *)

(* What a search may find of an id changes only with its document.              *)
LEMMA AboutStays ==
  ASSUME NEW x, forward'[x] = forward[x], request' = request
  PROVE  About(x)' = About(x)
  BY DEF About, AnswerTo, FilterByBits

(* A search that has begun has got nothing wrong yet.                           *)
LEMMA CallSearchRight ==
  ASSUME WalkInv, NEW a \in DOMAIN Asks, CallSearch(a, RequestOf(Asks[a])), NEW x
  PROVE  RightAbout(x)'
<1>1. stack = <<>>
  BY DEF WalkInv, PlaceOK, CallSearch
<1>2. stack' = <<>> /\ DOMAIN stack' = {} /\ qpc' = "walk"
  BY <1>1 DEF CallSearch
<1> QED BY <1>2 DEF RightAbout, Walking

(* The walk of a list begins at its first element, so nothing is before it.     *)
LEMMA DescendRight ==
  ASSUME WalkInv, IndexIsRight, Descend, UNCHANGED <<vars, touched>>,
         NEW x \in Id, ~Busy(x), RightAbout(x)
  PROVE  RightAbout(x)'
<1>1. TypeOK /\ stack \in Seq(Frame) /\ qpc = "walk" /\ UNCHANGED <<qpc, request, cut, forward>>
  BY DEF WalkInv, SearchTypeOK, Descend, vars
<1>2. About(x)' = About(x)
  BY <1>1, AboutStays
<1>3. PICK f \in Frame :
        /\ stack' = Append(stack, f)
        /\ \/ /\ f.query.Keyword # <<>> /\ f.lists = <<{}>>
              /\ cursor' = First(List(f.query.Keyword[1]))
           \/ f.query.Keyword = <<>> /\ f.lists = <<>> /\ cursor' = NoPosting
  BY DescendEffect
<1> DEFINE n == Len(stack)
<1>4. n \in Nat /\ DOMAIN stack = 1 .. n
  BY <1>1
<1>5. /\ Len(stack') = n + 1 /\ stack' # <<>> /\ DOMAIN stack' = 1 .. n + 1
      /\ stack'[n + 1] = f /\ \A i \in 1 .. n : stack'[i] = stack[i]
  BY <1>1, <1>3
<1>6. Top' = f
  BY <1>5 DEF Top
<1>7. FrameIsRight(f, About(x), cut)
  BY <1>3 DEF FrameIsRight
<1>8. \A i \in DOMAIN stack' : FrameIsRight(stack'[i], About(x)', cut')
  <2> SUFFICES ASSUME NEW i \in 1 .. n + 1 PROVE FrameIsRight(stack'[i], About(x), cut)
    BY <1>1, <1>2, <1>5
  <2>1. i \in 1 .. n \/ i = n + 1
    BY <1>4
  <2> HIDE DEF n
  <2> QED BY <1>4, <1>5, <1>7, <2>1 DEF RightAbout
<1>9. ASSUME Walking' PROVE WalkIsRight(f, cursor', About(x), cut)
  <2>1. f.query.Keyword # <<>> /\ f.lists = <<{}>> /\ cursor' = First(List(f.query.Keyword[1]))
    BY <1>3, <1>6, <1>9 DEF Walking
  <2>2. f.lists[1] = {} /\ f.query \in TermQuery
    BY <2>1 DEF Frame
  <2>3. List(f.query.Keyword[1]) \subseteq Posting /\ List(f.query.Keyword[1]) \subseteq postings
    BY <1>1, ListTypes DEF List
  <2>4. cursor' # NoPosting => cursor' \in List(f.query.Keyword[1])
    BY <2>1, <2>3, FirstIsLeast
  <2>5. cursor' # NoPosting => Faithful(cursor', About(x))
    BY <1>1, <2>3, <2>4, PostedIsFaithful
  <2>6. ASSUME f.query \in About(x).answers
        PROVE  cursor' # NoPosting /\ cursor'.intId <= About(x).doc.intId
    <3>1. PICK p \in List(f.query.Keyword[1]) : p.id = x /\ p.intId = forward[x].intId
      BY <1>1, <2>1, <2>2, <2>6, AnswerIsListed
    <3>2. cursor' \in List(f.query.Keyword[1]) /\ cursor'.intId <= p.intId
      BY <2>1, <2>3, <3>1, FirstIsLeast
    <3>3. cursor' # NoPosting
      BY <2>3, <3>2, PostingIsOne
    <3> QED BY <3>1, <3>2, <3>3 DEF About
  <2> QED BY <2>2, <2>5, <2>6 DEF WalkIsRight, Found
<1> QED BY <1>1, <1>2, <1>6, <1>8, <1>9 DEF RightAbout

(* The element the walk leaves is kept when it is one of an answer, and no      *)
(* answer is between it and the next one: those not worked on are in the list   *)
(* throughout.                                                                  *)
LEMMA VisitRight ==
  ASSUME WalkInv, IndexIsRight, Visit, UNCHANGED <<vars, touched>>,
         NEW x \in Id, ~Busy(x), RightAbout(x)
  PROVE  RightAbout(x)'
<1>1. TypeOK /\ stack \in Seq(Frame) /\ qpc = "walk" /\ UNCHANGED <<qpc, request, forward>>
      /\ cut \in BOOLEAN
  BY DEF WalkInv, SearchTypeOK, Visit, vars
<1>2. About(x)' = About(x)
  BY <1>1, AboutStays
<1>3. /\ Walking /\ cursor \in Posting /\ Len(Top.lists) = 1 /\ Top.lists[1] \subseteq Posting
      /\ cursor.key \in PostedAs(Top.query.Keyword[1])
  BY VisitEffect
<1>4. PICK f \in Frame :
        /\ stack' = [stack EXCEPT ![Len(stack)] = f]
        /\ f.query = Top.query
        /\ f.lists = <<IF FilterByBits(BitsOf[cursor.id])
                         THEN Top.lists[1] \cup {cursor} ELSE Top.lists[1]>>
  BY VisitEffect
<1> DEFINE n == Len(stack)
           list == IF FilterByBits(BitsOf[cursor.id]) THEN Top.lists[1] \cup {cursor} ELSE Top.lists[1]
           q == Top.query
<1>5. stack # <<>> /\ n \in Nat \ {0} /\ DOMAIN stack = 1 .. n /\ n \in DOMAIN stack
      /\ q \in TermQuery /\ q.Keyword # <<>>
  BY <1>1, <1>3, TopTypes DEF Walking
<1>6. /\ Len(stack') = n /\ DOMAIN stack' = 1 .. n
      /\ stack'[n] = f /\ \A i \in 1 .. n : i # n => stack'[i] = stack[i]
  <2> DEFINE s == stack
  <2>1. s \in Seq(Frame) /\ n \in Nat \ {0} /\ Len(s) = n /\ DOMAIN s = 1 .. n
    BY <1>1, <1>5
  <2>2. stack' = [s EXCEPT ![n] = f]
    BY <1>4
  <2> HIDE DEF s, n
  <2>3. Len(stack') = n /\ DOMAIN stack' = 1 .. n
    BY <2>1, <2>2
  <2>4. stack'[n] = f /\ \A i \in 1 .. n : i # n => stack'[i] = s[i]
    BY <2>1, <2>2
  <2> QED BY <2>3, <2>4 DEF s
<1>7. Top' = f
  BY <1>6 DEF Top
<1>8. WalkIsRight(Top, cursor, About(x), cut) /\ cursor # NoPosting
  BY <1>3 DEF RightAbout, Visit
<1>9. cut => cut'
  BY DEF Visit
<1>10. cut' \in BOOLEAN
  BY <1>1 DEF Visit
<1>11. \A i \in DOMAIN stack' : FrameIsRight(stack'[i], About(x)', cut')
  <2> SUFFICES ASSUME NEW i \in 1 .. n PROVE FrameIsRight(stack'[i], About(x), cut')
    BY <1>2, <1>6
  <2>1. CASE i = n
    BY <1>4, <1>5, <1>6, <2>1 DEF FrameIsRight
  <2>2. CASE i # n
    <3>1. stack'[i] = stack[i] /\ FrameIsRight(stack[i], About(x), cut)
      BY <1>5, <1>6, <2>2 DEF RightAbout
    <3> QED BY <1>9, <3>1 DEF FrameIsRight, ListIsRight
  <2> QED BY <2>1, <2>2
<1>12. f.lists[1] = list
  BY <1>4
<1> HIDE DEF list
<1>13. \A p \in list : Faithful(p, About(x))
  BY <1>8 DEF WalkIsRight, list
<1>14. Found(Top.lists[1], About(x)) => Found(list, About(x))
  BY DEF Found, list
<1>15. ASSUME Found(list, About(x)) PROVE q \in About(x).answers
  <2>1. CASE Found(Top.lists[1], About(x))
    BY <1>8, <2>1 DEF WalkIsRight
  <2>2. CASE ~Found(Top.lists[1], About(x))
    <3>1. cursor.id = x /\ FilterByBits(BitsOf[x])
      BY <1>15, <2>2 DEF Found, list, About
    <3>2. Faithful(cursor, About(x))
      BY <1>8 DEF WalkIsRight
    <3> QED BY <1>1, <1>3, <1>5, <3>1, <3>2, ListedIsAnswer
  <2> QED BY <2>1, <2>2
<1>16. Later \subseteq List(q.Keyword[1]) /\ List(q.Keyword[1]) \subseteq postings
       /\ List(q.Keyword[1]) \subseteq Posting /\ Later \subseteq Posting
  <2>1. Later \subseteq List(q.Keyword[1]) /\ List(q.Keyword[1]) \subseteq postings
    BY DEF Later, List
  <2> QED BY <1>1, <2>1, ListTypes
<1>17. cursor' # NoPosting => cursor' \in Later
  BY <1>16, FirstIsLeast DEF Visit
<1>18. cursor' # NoPosting => Faithful(cursor', About(x))
  BY <1>1, <1>16, <1>17, PostedIsFaithful
<1>19. ASSUME q \in About(x).answers, ~Found(list, About(x)), ~cut'
       PROVE  cursor' # NoPosting /\ cursor'.intId <= forward[x].intId
  <2>1. cursor.intId <= forward[x].intId /\ Faithful(cursor, About(x)) /\ forward[x] # NoDoc
    BY <1>8, <1>9, <1>14, <1>19 DEF WalkIsRight, About, AnswerTo
  <2>2. cursor.intId # forward[x].intId
    <3> SUFFICES ASSUME cursor.intId = forward[x].intId PROVE FALSE
      OBVIOUS
    <3>1. cursor.id = x
      BY <2>1 DEF Faithful, About
    <3>2. FilterByBits(BitsOf[x])
      BY <1>19 DEF About, AnswerTo
    <3> QED BY <1>19, <3>1, <3>2 DEF Found, list, About
  <2>3. PICK p \in List(q.Keyword[1]) : p.id = x /\ p.intId = forward[x].intId
    BY <1>1, <1>5, <1>19, AnswerIsListed
  <2>4. p.intId \in Nat /\ cursor.intId \in Nat
    BY <1>3, <1>16 DEF Posting
  <2>5. p \in Later
    BY <2>1, <2>2, <2>3, <2>4 DEF Later
  <2>6. First(Later) \in Later /\ First(Later).intId <= p.intId
    BY <1>16, <2>5, FirstIsLeast
  <2>7. cursor' = First(Later)
    BY <1>1, <1>19, <2>5 DEF Visit
  <2>8. cursor' # NoPosting
    BY <1>16, <2>6, <2>7, PostingIsOne
  <2> QED BY <2>3, <2>6, <2>7, <2>8
<1>20. WalkIsRight(f, cursor', About(x), cut')
  <2>1. f.query = q /\ About(x).doc = forward[x]
    BY <1>4 DEF About
  <2> HIDE DEF q
  <2> QED BY <1>10, <1>12, <1>13, <1>15, <1>18, <1>19, <2>1 DEF WalkIsRight
<1> QED BY <1>1, <1>2, <1>7, <1>11, <1>20 DEF RightAbout

(* What is returned to a caller is right.                                       *)
LEMMA ReturnPartRight ==
  ASSUME WalkInv, ReturnPart, UNCHANGED <<vars, touched>>, NEW x \in Id, RightAbout(x)
  PROVE  RightAbout(x)'
<1>1. stack \in Seq(Frame) /\ qpc = "walk" /\ Done /\ UNCHANGED <<qpc, request, cut, forward>>
  BY DEF WalkInv, SearchTypeOK, ReturnPart, vars
<1>2. About(x)' = About(x)
  BY <1>1, AboutStays
<1> DEFINE n == Len(stack) - 1
<1>3. /\ cursor = NoPosting /\ Len(stack) \in Nat /\ Len(stack) > 1
      /\ stack[n].query.Keyword = <<>>
      /\ Top.query = Parts(stack[n].query)[Len(stack[n].lists) + 1]
      /\ stack' \in Seq(Frame) /\ Len(stack') = n
      /\ \A i \in 1 .. Len(stack) - 2 : stack'[i] = stack[i]
      /\ stack'[n].query = stack[n].query
      /\ stack'[n].lists = Append(stack[n].lists, Combine(Top))
  BY ReturnPartEffect
<1>4. ListIsRight(Top.query, Combine(Top), About(x), cut)
  <2>1. stack # <<>>
    BY <1>3
  <2> QED BY <1>1, <1>3, <2>1, CombineIsRight
<1>5. n \in DOMAIN stack /\ stack[n].lists \in Seq(SUBSET Posting) /\ FrameIsRight(stack[n], About(x), cut)
  <2>1. n \in DOMAIN stack
    BY <1>1, <1>3
  <2>2. stack[n] \in Frame
    BY <1>1, <2>1
  <2> QED BY <2>1, <2>2 DEF RightAbout, Frame
<1>6. FrameIsRight(stack'[n], About(x), cut)
  <2> DEFINE lists == stack[n].lists
             q == stack[n].query
             L == Combine(Top)
             m == Len(lists)
  <2>1. lists \in Seq(SUBSET Posting) /\ m \in Nat /\ DOMAIN lists = 1 .. m
    BY <1>5
  <2>2. stack'[n].lists = Append(lists, L) /\ stack'[n].query = q
    BY <1>3
  <2>3. \A j \in 1 .. m : ListIsRight(Parts(q)[j], lists[j], About(x), cut)
    BY <1>3, <1>5, <2>1 DEF FrameIsRight
  <2>4. ListIsRight(Parts(q)[m + 1], L, About(x), cut)
    BY <1>3, <1>4
  <2> HIDE DEF lists, q, L, n
  <2>5. /\ DOMAIN Append(lists, L) = 1 .. m + 1 /\ Append(lists, L)[m + 1] = L
        /\ \A j \in 1 .. m : Append(lists, L)[j] = lists[j]
    BY <2>1
  <2>6. \A j \in 1 .. m + 1 : j \in 1 .. m \/ j = m + 1
    BY <2>1
  <2>7. \A j \in DOMAIN Append(lists, L) : ListIsRight(Parts(q)[j], Append(lists, L)[j], About(x), cut)
    BY <2>3, <2>4, <2>5, <2>6
  <2> QED BY <2>2, <2>7 DEF FrameIsRight
<1>7. \A i \in DOMAIN stack' : FrameIsRight(stack'[i], About(x)', cut')
  <2> SUFFICES ASSUME NEW i \in 1 .. n PROVE FrameIsRight(stack'[i], About(x), cut)
    BY <1>1, <1>2, <1>3
  <2>1. CASE i = n
    BY <1>6, <2>1
  <2>2. CASE i # n
    <3>1. i \in 1 .. Len(stack) - 2 /\ i \in DOMAIN stack
      BY <1>1, <1>3, <2>2
    <3> QED BY <1>3, <3>1 DEF RightAbout
  <2> QED BY <2>1, <2>2
<1>8. ~Walking'
  BY <1>3 DEF Walking, Top
<1> QED BY <1>1, <1>7, <1>8 DEF RightAbout

(* What is returned to Search is right about the request.                       *)
LEMMA ReturnAllRight ==
  ASSUME WalkInv, ReturnAll, UNCHANGED <<vars, touched>>, NEW x \in Id, RightAbout(x)
  PROVE  RightAbout(x)'
<1>1. /\ Done /\ stack' = <<>> /\ keys' = Combine(Top) /\ stack # <<>>
      /\ UNCHANGED <<request, docs, cut, failed, forward>>
  BY DEF ReturnAll, vars, Done, Walking
<1>2. About(x)' = About(x)
  BY <1>1, AboutStays
<1>3. cursor = NoPosting /\ Top.query = request.query /\ docs = {}
  BY ReturnAllShape
<1>4. ListIsRight(request.query, keys', About(x), cut)
  BY <1>1, <1>3, CombineIsRight
<1>5. AnswerIsRight(request.query, keys', docs', About(x), cut' \/ failed')
  BY <1>1, <1>3, <1>4 DEF ListIsRight, AnswerIsRight
<1>6. DOMAIN stack' = {} /\ ~Walking'
  BY <1>1 DEF Walking
<1> QED BY <1>1, <1>2, <1>5, <1>6 DEF RightAbout

(* A document that is read is the one its element leads to; one that is not     *)
(* read, of those there are, is behind a read that failed.                      *)
LEMMA BatchGetRight ==
  ASSUME WalkInv, IndexIsRight, BatchGet, UNCHANGED <<vars, touched>>, NEW x \in Id, RightAbout(x)
  PROVE  RightAbout(x)'
<1>1. /\ qpc = "batchget" /\ UNCHANGED <<request, stack, cursor, cut, forward>>
      /\ keys \subseteq Posting
  BY DEF WalkInv, SearchTypeOK, BatchGet, vars
<1>2. About(x)' = About(x)
  BY <1>1, AboutStays
<1>3. PICK failing :
       LET read == {p \in keys : failing = NoPosting \/ p.intId < failing.intId}
       IN /\ docs' = docs \cup {[intId |-> p.intId, doc |-> forward[p.id]] :
                                p \in {q \in read : forward[q.id] # NoDoc}}
          /\ keys' = {p \in keys \ read : p.intId > failing.intId}
          /\ failed' = (failed \/ failing # NoPosting)
  BY DEF BatchGet
<1> DEFINE s == About(x)
           read == {p \in keys : failing = NoPosting \/ p.intId < failing.intId}
<1>4. /\ \A p \in keys : Faithful(p, s)
      /\ Found(keys, s) => request.query \in s.answers
      /\ \A a \in docs : a.doc.id = x => a = [intId |-> forward[x].intId, doc |-> forward[x]]
                                         /\ request.query \in s.answers
      /\ request.query \in s.answers =>
           Found(keys, s) \/ (\E a \in docs : a.doc.id = x) \/ cut \/ failed
      /\ s.id = x /\ s.doc = forward[x]
  BY <1>1 DEF RightAbout, AnswerIsRight, About
<1>5. forward[x] # NoDoc => forward[x].id = x
  BY DEF IndexIsRight
<1> HIDE DEF s
<1>6. keys' \subseteq keys
  BY <1>3
<1>7. ASSUME NEW a \in docs', a.doc.id = x
      PROVE  a = [intId |-> forward[x].intId, doc |-> forward[x]] /\ request.query \in s.answers
  <2>1. CASE a \in docs
    BY <1>4, <1>7, <2>1
  <2>2. CASE a \notin docs
    <3>1. PICK p \in keys : forward[p.id] # NoDoc /\ a = [intId |-> p.intId, doc |-> forward[p.id]]
      BY <1>3, <2>2
    <3>2. p.id \in Id
      BY <1>1 DEF Posting
    <3>3. forward[p.id].id = p.id
      BY <3>1, <3>2 DEF IndexIsRight
    <3>4. p.id = x
      BY <1>7, <3>1, <3>3
    <3>5. p.intId = forward[x].intId
      BY <1>4, <3>4, FaithfulIntId
    <3>6. Found(keys, s)
      BY <1>4, <3>4 DEF Found
    <3> QED BY <1>4, <3>1, <3>4, <3>5, <3>6
  <2> QED BY <2>1, <2>2
<1>8. ASSUME request.query \in s.answers, ~cut, ~failed'
      PROVE  \E a \in docs' : a.doc.id = x
  <2>1. failing = NoPosting /\ ~failed
    BY <1>3, <1>8
  <2>2. CASE \E a \in docs : a.doc.id = x
    BY <1>3, <2>2
  <2>3. CASE Found(keys, s)
    <3>1. PICK p \in keys : p.id = x
      BY <1>4, <2>3 DEF Found
    <3>2. forward[x] # NoDoc /\ forward[x].id = x
      BY <1>4, <1>5, <3>1 DEF Faithful
    <3>3. [intId |-> p.intId, doc |-> forward[p.id]] \in docs'
      BY <1>3, <2>1, <3>1, <3>2
    <3> QED BY <3>1, <3>2, <3>3
  <2> QED BY <1>4, <1>8, <2>1, <2>2, <2>3
<1>9. AnswerIsRight(request.query, keys', docs', s, cut' \/ failed')
  <2>1. Found(keys', s) => Found(keys, s)
    BY <1>6 DEF Found
  <2> QED BY <1>1, <1>4, <1>6, <1>7, <1>8, <2>1 DEF AnswerIsRight
<1>10. stack' = <<>> /\ DOMAIN stack' = {} /\ ~Walking'
  BY <1>1 DEF WalkInv, PlaceOK, Walking
<1> QED BY <1>1, <1>2, <1>9, <1>10 DEF RightAbout, s

(* What is answered is right.                                                 *)
LEMMA RespondRight ==
  ASSUME WalkInv, Respond, UNCHANGED <<vars, touched>>, NEW x \in Id, RightAbout(x)
  PROVE  RightAbout(x)'
<1>1. qpc = "respond" /\ qpc' = "answered"
      /\ UNCHANGED <<request, stack, cursor, keys, docs, cut, failed, forward>>
  BY DEF Respond, vars
<1>2. About(x)' = About(x)
  BY <1>1, AboutStays
<1> QED BY <1>1, <1>2 DEF RightAbout, Walking, Top

(* The writers do not disturb it.                                               *)
LEMMA WritersRight ==
  ASSUME UNCHANGED walkVars, NEW x, forward'[x] = forward[x], RightAbout(x)
  PROVE  RightAbout(x)'
<1>1. UNCHANGED <<qpc, request, stack, cursor, keys, docs, cut, failed>>
  BY DEF walkVars
<1>2. About(x)' = About(x)
  BY <1>1, AboutStays
<1> QED BY <1>1, <1>2 DEF RightAbout, Walking, Top

(* Callers that do not overlap their calls keep the index right, so that every  *)
(* step keeps the searches right.                                               *)
LEMMA ExactInvInductive ==
  ASSUME SerialCallers, \A id \in Id : TrimSpace[id] = id
  PROVE  (SearchInit => ExactInv) /\ (ExactInv /\ [SearchNext]_searchVars => ExactInv')
<1>1. ASSUME SearchInit PROVE ExactInv
  <2>1. WalkInv /\ SerialInv /\ StoredIsCovered
    BY <1>1, WalkInvInductive, SerialInductive, CoverInit DEF SearchInit, CoverInv
  <2>2. ~loaded
    BY <1>1 DEF SearchInit, Init
  <2> QED BY <2>1, <2>2 DEF ExactInv
<1>2. ASSUME ExactInv, [SearchNext]_searchVars PROVE ExactInv'
  <2>1. [Next]_vars /\ WalkInv /\ SerialInv /\ StoredIsCovered
    BY <1>2, StepsOfIndexer DEF ExactInv
  <2>2. WalkInv' /\ SerialInv' /\ StoredIsCovered'
    BY <1>2, <2>1, WalkInvInductive, SerialInductive, CoverStep DEF CoverInv, SerialInv
  <2>3. ASSUME process' = "serving", loaded', NEW x \in Id, x \notin touched'
        PROVE  RightAbout(x)'
    <3>1. CASE qpc' = "idle"
      <4>1. stack' = <<>> /\ DOMAIN stack' = {}
        BY <2>2, <3>1 DEF WalkInv, PlaceOK
      <4> QED BY <3>1, <4>1 DEF RightAbout, Walking
    <3>2. CASE \E a \in DOMAIN Asks : CallSearch(a, RequestOf(Asks[a])) /\ UNCHANGED vars
      BY <2>1, <3>2, CallSearchRight
    <3>3. CASE WritersLeave /\ qpc' # "idle"
      <4>1. qpc # "idle" /\ process = "serving" /\ loaded /\ x \notin touched
            /\ forward'[x] = forward[x] /\ UNCHANGED walkVars
        BY <2>3, <3>3 DEF WritersLeave, walkVars
      <4>2. RightAbout(x)
        BY <1>2, <4>1 DEF ExactInv
      <4> QED BY <4>1, <4>2, WritersRight
    <3>4. ASSUME UNCHANGED <<vars, touched>>, qpc # "idle",
                 Descend \/ Visit \/ ReturnPart \/ ReturnAll \/ BatchGet \/ Respond
          PROVE  RightAbout(x)'
      <4>1. process = "serving" /\ loaded /\ x \notin touched
        BY <2>3, <3>4 DEF vars
      <4>2. RightAbout(x) /\ IndexIsRight
        BY <1>2, <2>1, <4>1, ServingIsRight DEF ExactInv
      <4>3. ~Busy(x)
        BY <2>1, <3>4, <4>1 DEF WalkInv, PlaceOK
      <4> QED BY <2>1, <3>4, <4>2, <4>3, DescendRight, VisitRight, ReturnPartRight,
                 ReturnAllRight, BatchGetRight, RespondRight
    <3>5. SearchKinds
      BY <1>2, <2>1, StepKinds
    <3>6. NoSearch => qpc' = "idle"
      BY DEF NoSearch
    <3>7. Descend \/ Visit \/ ReturnPart \/ ReturnAll \/ BatchGet \/ Respond => qpc # "idle"
      BY DEF Descend, Visit, ReturnPart, ReturnAll, BatchGet, Respond
    <3> QED BY <3>1, <3>2, <3>3, <3>4, <3>5, <3>6, <3>7 DEF SearchKinds
  <2> QED BY <2>2, <2>3 DEF ExactInv
<1> QED BY <1>1, <1>2

(* With callers that do not overlap their calls on one id, and ids without      *)
(* blanks around them, a search answers exactly what was asked for, whatever    *)
(* the query and its parts, and whatever the writers do to other documents      *)
(* while its walks go from list to list.                                        *)
THEOREM SearchAnswersExactly ==
  ASSUME SerialCallers, \A id \in Id : TrimSpace[id] = id
  PROVE  SearchSafety => []SearchIsExact
<1>1. SearchInit => ExactInv
  BY ExactInvInductive
<1>2. ExactInv /\ [SearchNext]_searchVars => ExactInv'
  BY ExactInvInductive
<1>3. ExactInv => SearchIsExact
  <2> SUFFICES ASSUME ExactInv, qpc = "answered", loaded, process = "serving",
                      NEW x \in Id, x \notin touched
               PROVE  LET found == {a \in docs : a.doc.id = x}
                          whole == {[intId |-> forward[x].intId, doc |-> forward[x]]}
                      IN IF forward[x] # NoDoc /\ Wanted(forward[x])
                           THEN found = whole \/ (found = {} /\ (cut \/ failed))
                           ELSE found = {}
    BY DEF SearchIsExact
  <2> DEFINE q == request.query
             s == About(x)
  <2>1. /\ ask \in DOMAIN Asks /\ request = RequestOf(Asks[ask]) /\ keys = {} /\ WalkInv
    BY DEF ExactInv, WalkInv, PlaceOK
  <2>2. IndexIsRight
    BY ServingIsRight DEF ExactInv
  <2>3. AnswerIsRight(q, keys, docs, s, cut \/ failed)
    BY DEF ExactInv, RightAbout
  <2>4. q = Build[Asks[ask].expr] /\ q \in TermQuery /\ Matching[q] = Means[Asks[ask].expr]
        /\ request.on = Asks[ask].on /\ request.off = Asks[ask].off /\ request.or = Asks[ask].or
        /\ Asks[ask].or \in Seq(SUBSET Bit)
    <3>1. Asks[ask].expr \in Expr /\ Asks[ask].or \in Seq(SUBSET Bit)
      BY <2>1, SearchAssumption
    <3>2. q = Build[Asks[ask].expr]
      BY <2>1 DEF RequestOf
    <3>3. request.on = Asks[ask].on /\ request.off = Asks[ask].off /\ request.or = Asks[ask].or
      BY <2>1 DEF RequestOf
    <3> HIDE DEF q
    <3> QED BY <3>1, <3>2, <3>3, QueriesMeanWhatIsAsked, BuildAssumption
  <2>5. FilterByBits(BitsOf[x]) <=>
          /\ \A b \in Asks[ask].on : b \in BitsOf[x]
          /\ \A b \in Asks[ask].off : b \notin BitsOf[x]
          /\ \A i \in DOMAIN Asks[ask].or :
               Asks[ask].or[i] = {} \/ \E b \in Asks[ask].or[i] : b \in BitsOf[x]
    BY <2>4 DEF FilterByBits
  <2>6. q \in s.answers <=> forward[x] # NoDoc /\ Wanted(forward[x])
    <3>1. forward[x] # NoDoc => forward[x].id = x
      BY <2>2 DEF IndexIsRight
    <3>2. q \in s.answers <=> /\ forward[x] # NoDoc
                              /\ KeywordsIn(forward[x]) \in Matching[q]
                              /\ FilterByBits(BitsOf[x])
      BY <2>4 DEF About, AnswerTo
    <3>3. forward[x] # NoDoc =>
            (Wanted(forward[x]) <=> /\ KeywordsIn(forward[x]) \in Matching[q]
                                    /\ FilterByBits(BitsOf[x]))
      <4> HIDE DEF q, s
      <4> QED BY <2>4, <2>5, <3>1 DEF Wanted, KeywordsIn
    <3> QED BY <3>2, <3>3
  <2>7. s.id = x /\ s.doc = forward[x] /\ ~Found(keys, s)
    BY <2>1 DEF About, Found
  <2> HIDE DEF q, s
  <2>8. \A a \in docs : a.doc.id = x => a = [intId |-> forward[x].intId, doc |-> forward[x]]
                                        /\ q \in s.answers
    BY <2>3, <2>7 DEF AnswerIsRight
  <2>9. q \in s.answers => (\E a \in docs : a.doc.id = x) \/ cut \/ failed
    BY <2>3, <2>7 DEF AnswerIsRight
  <2> QED BY <2>6, <2>8, <2>9
<1> QED BY <1>1, <1>2, <1>3, PTL DEF SearchSafety
==============================================================================
