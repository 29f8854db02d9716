------------------------------- MODULE MCQuery -------------------------------
(* A small instance of Query, and so of Search, for TLC: one writer beside one  *)
(* searching client, with what their messages carry.                            *)
EXTENDS Query

CONSTANTS h1, a, b, blank, x, y, main

MCTrimSpace == [i \in Id |-> i]
MCKeywordLists == {<<x>>, <<y, x>>}
MCCsv == <<[id |-> a, keywords |-> <<x>>]>>

(* The last bit of a flag, the first one, and one of another digit.             *)
MCBit == {0, 7, 63}
MCBitsOf == [i \in Id |-> CASE i = a -> {0, 63} [] i = b -> {7, 63} [] OTHER -> {}]

kx == [Field |-> <<99>>, Word |-> <<120, 1>>]
ky == [Field |-> <<>>, Word |-> <<121>>]
MCTerm == {kx, ky, [Field |-> <<99>>, Word |-> <<>>]}
MCKeywordOf == [k1 \in Keyword |-> IF k1 = x THEN kx ELSE ky]

Ask(expr, on, off, or) == [expr |-> expr, on |-> on, off |-> off, or |-> or]

MCAsks ==
  <<Ask(TermOf(kx), {}, {0}, <<>>),
    Ask(AnyOf(<<TermOf(kx), AllOf(<<TermOf(ky), TermOf(kx)>>)>>), {63}, {}, <<{0}, {7, 63}>>),
    Ask(KeywordRecaller(<<ky, kx>>, <<>>), {}, {}, <<{}>>),
    Ask(KeywordAuthorRecaller(<<kx>>, <<ky>>), {}, {}, <<{7}>>),
    Ask(AllOf(<<None, AnyOf(<<None, None>>)>>), {}, {}, <<>>)>>

(* What is asked for, what is built, and all their parts.                       *)
RECURSIVE ExprsOf(_), QueriesOf(_), Built(_)
ExprsOf(e) == {e} \cup UNION {ExprsOf(f) : f \in ToSet(e.args)}
MCExpr     == UNION {ExprsOf(MCAsks[i].expr) : i \in DOMAIN MCAsks}

QueriesOf(q) == {q} \cup UNION {QueriesOf(p) : p \in ToSet(q.Must \o q.Should)}
MCTermQuery  == UNION {QueriesOf(Build[e]) : e \in Expr}

Built(e) == BuildFrom(e, [f \in ToSet(e.args) |-> Built(f)])
MCBuild  == [e \in Expr |-> Built(e)]

MCIdBytes == [i \in Id |-> CASE i = a -> <<97>> [] i = b -> <<98, 200>> [] OTHER -> <<>>]

(* A count of more than seven bits, one that is negative, and a keyword that is *)
(* empty.                                                                       *)
MCVideoOf == [i \in Id |->
  [Unset("BiliBiliVideo") EXCEPT !.Id = MCIdBytes[i], !.PostTime = <<1, 0, 3>>,
     !.ViewCount = <<0, 1>>,
     !.LikeCount = IF i = b THEN <<127, 127, 127, 127, 15>> ELSE <<>>,
     !.Keywords = <<<<120>>, <<>>>>]]
==============================================================================
