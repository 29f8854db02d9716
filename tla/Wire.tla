--------------------------------- MODULE Wire ---------------------------------
(* The wire format of the messages of the index service and of a document's     *)
(* payload: what the generated functions of service/index.pb.go,                *)
(* types/doc.pb.go, types/term_query.pb.go and demo/infrastructure/video.pb.go  *)
(* write and read.  Those functions repeat one pattern for every field of every *)
(* message; here the fields are tables and the pattern is written once.         *)
(*                                                                              *)
(* A message is a function from the names of its fields to their values.  A     *)
(* string or a byte slice is a sequence of bytes; a repeated field a sequence;  *)
(* a pointer to a message a sequence of at most one; an integer the sequence of *)
(* its base-128 digits, least significant first, without leading zeros.  The    *)
(* value of a field that is not set is <<>> in all of them.                     *)
EXTENDS Naturals, Sequences, SequencesExt

Field(num, name, kind) == [num |-> num, name |-> name, kind |-> kind, of |-> ""]
Messages(num, name, kind, of) == [num |-> num, name |-> name, kind |-> kind, of |-> of]

KeywordFields  == <<Field(1, "Field", "bytes"), Field(2, "Word", "bytes")>>

DocumentFields == <<Field(1, "Id", "bytes"), Field(2, "IntId", "uint64"),
                    Field(3, "BitsFeature", "uint64"),
                    Messages(4, "Keywords", "messages", "Keyword"),
                    Field(5, "Bytes", "bytes")>>

TermQueryFields == <<Messages(1, "Keyword", "message", "Keyword"),
                     Messages(2, "Must", "messages", "TermQuery"),
                     Messages(3, "Should", "messages", "TermQuery")>>

DocIdFields         == <<Field(1, "DocId", "bytes")>>
AffectedCountFields == <<Field(1, "Count", "uint32")>>

SearchRequestFields == <<Messages(1, "Query", "message", "TermQuery"),
                         Field(2, "OnFlag", "uint64"), Field(3, "OffFlag", "uint64"),
                         Field(4, "OrFlags", "packed")>>

SearchResponseFields == <<Messages(1, "Documents", "messages", "Document")>>
CountRequestFields   == <<>>

BiliBiliVideoFields == <<Field(1, "Id", "bytes"), Field(2, "Title", "bytes"),
                         Field(3, "PostTime", "uint64"), Field(4, "Author", "bytes"),
                         Field(5, "ViewCount", "int32"), Field(6, "LikeCount", "int32"),
                         Field(7, "CoinCount", "int32"), Field(8, "FavoriteCount", "int32"),
                         Field(9, "ShareCount", "int32"), Field(10, "Keywords", "strings")>>

Fields == [Keyword |-> KeywordFields, Document |-> DocumentFields,
           TermQuery |-> TermQueryFields, DocId |-> DocIdFields,
           AffectedCount |-> AffectedCountFields, SearchRequest |-> SearchRequestFields,
           SearchResponse |-> SearchResponseFields, CountRequest |-> CountRequestFields,
           BiliBiliVideo |-> BiliBiliVideoFields]

Names(type) == {Fields[type][i].name : i \in DOMAIN Fields[type]}
Unset(type) == [name \in Names(type) |-> <<>>]

Numeric   == {"uint64", "uint32", "int32"}
Delimited == {"bytes", "strings", "message", "messages", "packed"}

------------------------------------------------------------------------------
(* Op(v), with v evaluated once: TLC would evaluate an argument, or a LET, again *)
(* at every use, and the readers below hand their results on from one to the    *)
(* next.                                                                         *)
With(v, Op(_)) == CHOOSE r \in {Op(x) : x \in {v}} : TRUE

(* Integers.                                                                     *)
RECURSIVE Digits(_)
Digits(n) == IF n = 0 THEN <<>> ELSE <<n % 128>> \o Digits(n \div 128)

(* A number too large for any buffer, which every use below then refuses.       *)
Far == 2 ^ 29
Number(v) == IF Len(v) > 4 THEN Far ELSE FoldRight(LAMBDA d, acc : d + 128 * acc, v, 0)

Strip(v) == SelectInSeq(Reverse(v), LAMBDA d : d # 0)
Stripped(v) == IF Strip(v) = 0 THEN <<>> ELSE SubSeq(v, 1, Len(v) + 1 - Strip(v))

(* Faulty: every integer is read into 32 bits.                                  *)
FaultyTruncate(v, kind) == Stripped(IF Len(v) > 4 THEN SubSeq(v, 1, 4) \o <<v[5] % 16>> ELSE v)

(* What is kept of the digits read into an integer of that width.               *)
Truncate(v, kind) ==
  Stripped(CASE kind \in {"uint32", "int32"} /\ Len(v) > 4 -> SubSeq(v, 1, 4) \o <<v[5] % 16>>
             [] kind \notin {"uint32", "int32"} /\ Len(v) > 9 -> SubSeq(v, 1, 9) \o <<v[10] % 2>>
             [] OTHER -> v)

(* uint64(x): a negative int32 is extended by its sign.                         *)
Extend(v, kind) ==
  IF kind = "int32" /\ Len(v) = 5 /\ v[5] >= 8
    THEN SubSeq(v, 1, 4) \o <<v[5] + 112, 127, 127, 127, 127, 1>>
    ELSE v

(* encodeVarint, and sov, the bytes it takes.                                   *)
Varint(v) ==
  IF v = <<>> THEN <<0>> ELSE [i \in DOMAIN v |-> IF i < Len(v) THEN v[i] + 128 ELSE v[i]]
Sov(v) == IF v = <<>> THEN 1 ELSE Len(v)

------------------------------------------------------------------------------
(* Writing.                                                                      *)
RECURSIVE MarshalToSizedBuffer(_, _), Size(_, _)

Packed(v) == FlattenSeq([i \in DOMAIN v |-> Varint(v[i])])

(* What follows the length, for each element of a field that has one.           *)
Payloads(f, v) ==
  CASE f.kind = "bytes"   -> <<v>>
    [] f.kind = "packed"  -> <<Packed(v)>>
    [] f.kind = "strings" -> v
    [] OTHER              -> [i \in DOMAIN v |-> MarshalToSizedBuffer(f.of, v[i])]

Tag(f) == <<8 * f.num + IF f.kind \in Numeric THEN 0 ELSE 2>>

MarshalField(f, v) ==
  IF v = <<>> THEN <<>>
  ELSE IF f.kind \in Numeric THEN Tag(f) \o Varint(Extend(v, f.kind))
  ELSE With(Payloads(f, v), LAMBDA p :
         FlattenSeq([i \in DOMAIN p |-> Tag(f) \o Varint(Digits(Len(p[i]))) \o p[i]]))

(* The fields that are set, in the order of their numbers.                      *)
MarshalToSizedBuffer(type, m) ==
  FlattenSeq([i \in DOMAIN Fields[type] |->
                MarshalField(Fields[type][i], m[Fields[type][i].name])])

Prefixed(l) == 1 + l + Sov(Digits(l))

Total(S) == FoldLeft(LAMBDA acc, n : acc + n, 0, S)

SizeField(f, v) ==
  CASE v = <<>>            -> 0
    [] f.kind \in Numeric  -> 1 + Sov(Extend(v, f.kind))
    [] f.kind = "bytes"    -> Prefixed(Len(v))
    [] f.kind = "packed"   -> Prefixed(Total([i \in DOMAIN v |-> Sov(v[i])]))
    [] f.kind = "strings"  -> Total([i \in DOMAIN v |-> Prefixed(Len(v[i]))])
    [] OTHER               -> Total([i \in DOMAIN v |-> Prefixed(Size(f.of, v[i]))])

(* Faulty: every number of a packed list is taken to fit in one byte.           *)
FaultySize(type, m) ==
  Total([i \in DOMAIN Fields[type] |->
           LET f == Fields[type][i]
               v == m[f.name]
           IN IF f.kind = "packed" /\ v # <<>> THEN Prefixed(Len(v)) ELSE SizeField(f, v)])

Size(type, m) ==
  Total([i \in DOMAIN Fields[type] |-> SizeField(Fields[type][i], m[Fields[type][i].name])])

(* A buffer of Size bytes is filled from its end, and as many bytes as were     *)
(* written are returned from its beginning.                                     *)
Marshal(type, m) ==
  With(MarshalToSizedBuffer(type, m), LAMBDA written :
    SubSeq([i \in 1 .. Size(type, m) - Len(written) |-> 0] \o written, 1, Len(written)))

------------------------------------------------------------------------------
(* Reading.  Every reader starts at an index of the buffer and returns what it  *)
(* read and the index after it, or an error.                                    *)
Error        == [ok |-> FALSE, value |-> <<>>, next |-> 0]
Read(v, n)   == [ok |-> TRUE, value |-> v, next |-> n]

(* Faulty: the end of the buffer ends the number.                               *)
FaultyReadVarint(b, i) ==
  LET n == SelectInSubSeq(b, i, Len(b), LAMBDA x : x < 128)
      j == IF n = 0 THEN Len(b) ELSE n
  IN IF j - i >= 10 THEN Error
     ELSE Read(Truncate([d \in 1 .. j - i + 1 |-> b[i + d - 1] % 128], "uint64"), j + 1)

(* A varint ends with the first byte below 128, the tenth at the latest: an     *)
(* overflow or an unexpected end of the buffer otherwise.                       *)
ReadVarint(b, i) ==
  LET j == SelectInSubSeq(b, i, Len(b), LAMBDA x : x < 128)
  IN IF j = 0 \/ j - i >= 10 THEN Error
     ELSE Read(Truncate([d \in 1 .. j - i + 1 |-> b[i + d - 1] % 128], "uint64"), j + 1)

(* int32(wire >> 3) and wire & 7.  A number that is negative as an int32 is as  *)
(* illegal a tag as 0; the digits above are lost.                               *)
FieldNum(v) ==
  LET w == v \o <<0, 0, 0, 0, 0>>
  IN IF w[5] >= 64 THEN 0
     ELSE w[1] \div 8 + 2 ^ 4 * w[2] + 2 ^ 11 * w[3] + 2 ^ 18 * w[4] + 2 ^ 25 * w[5]
WireType(v) == IF v = <<>> THEN 0 ELSE v[1] % 8

(* The end of a field of this wire type that begins at i.                       *)
After(b, i, wireType) ==
  CASE wireType = 0 -> ReadVarint(b, i)
    [] wireType = 1 -> Read(<<>>, i + 8)
    [] wireType = 2 -> LET l == ReadVarint(b, i)
                       IN IF l.ok THEN Read(<<>>, l.next + Number(l.value)) ELSE Error
    [] wireType = 5 -> Read(<<>>, i + 4)
    [] wireType \in {3, 4} -> Read(<<>>, i)
    [] OTHER -> Error

RECURSIVE Skip(_, _, _)

(* Faulty: the fields of a group are not looked for its end.                    *)
FaultySkip(b, i, depth) ==
  With(IF i > Len(b) THEN Error ELSE ReadVarint(b, i), LAMBDA tag :
    IF ~tag.ok THEN Error ELSE After(b, tag.next, WireType(tag.value)))

(* skip: one field, or a group up to its end, of which it can be the depth-th;  *)
(* it may end past the buffer, which the caller refuses.                        *)
Skip(b, i, depth) ==
  With(IF i > Len(b) THEN Error ELSE ReadVarint(b, i), LAMBDA tag :
    LET type  == WireType(tag.value)
        inner == CASE type = 3 -> depth + 1 [] type = 4 -> depth - 1 [] OTHER -> depth
    IN IF ~tag.ok \/ (type = 4 /\ depth = 0) THEN Error
       ELSE With(After(b, tag.next, type), LAMBDA after :
              IF ~after.ok \/ inner = 0 THEN after ELSE Skip(b, after.next, inner)))

RECURSIVE ReadPacked(_, _, _, _), Merge(_, _, _, _)

(* The elements of a packed list, up to the end of the list; the last one may   *)
(* run past it, and reading goes on from there.                                 *)
ReadPacked(b, i, end, v) ==
  IF i >= end THEN Read(v, i)
  ELSE With(ReadVarint(b, i), LAMBDA e :
         IF e.ok THEN ReadPacked(b, e.next, end, Append(v, e.value)) ELSE Error)

ReadNumeric(f, v, b, i) ==
  With(ReadVarint(b, i), LAMBDA n :
    IF ~n.ok THEN Error
    ELSE IF f.kind = "packed" THEN Read(Append(v, n.value), n.next)
    ELSE Read(Truncate(n.value, f.kind), n.next))

(* A message within a message.                                                  *)
ReadMessage(f, v, part, end) ==
  LET before == IF f.kind = "message" /\ v # <<>> THEN v[1] ELSE Unset(f.of)
      others == IF f.kind = "message" THEN <<>> ELSE v
  IN [Merge(f.of, before, part, 1) EXCEPT !.value = Append(others, @), !.next = end]

(* A field with a length.  A string or an integer replaces the value there was, *)
(* an element of a list is added to it, and a message set before is merged.     *)
ReadDelimited(f, v, b, i) ==
  With(ReadVarint(b, i), LAMBDA l :
    LET end == l.next + Number(l.value)
    IN IF ~l.ok \/ end > Len(b) + 1 THEN Error
       ELSE With(SubSeq(b, l.next, end - 1), LAMBDA part :
              CASE f.kind = "bytes"   -> Read(part, end)
                [] f.kind = "strings" -> Read(Append(v, part), end)
                [] f.kind = "packed"  -> ReadPacked(b, l.next, end, v)
                [] OTHER              -> ReadMessage(f, v, part, end)))

(* A known field, by its wire type; a packed list may also come unpacked.       *)
ReadField(f, v, b, i, wireType) ==
  CASE wireType = 0 /\ f.kind \in Numeric \cup {"packed"} -> ReadNumeric(f, v, b, i)
    [] wireType = 2 /\ f.kind \in Delimited               -> ReadDelimited(f, v, b, i)
    [] OTHER                                              -> Error

(* One field, at index i, whose tag has been read; an unknown one is skipped.   *)
MergeField(type, m, b, i, tag) ==
  LET known == {f \in ToSet(Fields[type]) : f.num = FieldNum(tag.value)}
  IN IF WireType(tag.value) = 4 \/ FieldNum(tag.value) = 0 THEN Error
     ELSE IF known = {}
       THEN With(Skip(b, i, 0), LAMBDA skipped :
              IF skipped.ok /\ skipped.next <= Len(b) + 1 THEN Read(m, skipped.next) ELSE Error)
       ELSE LET f == CHOOSE g \in known : TRUE
            IN With(ReadField(f, m[f.name], b, tag.next, WireType(tag.value)), LAMBDA r :
                 IF r.ok THEN Read([m EXCEPT ![f.name] = r.value], r.next) ELSE Error)

(* Unmarshal from index i on, into the message m.                               *)
Merge(type, m, b, i) ==
  IF i > Len(b) THEN Read(m, i)
  ELSE With(ReadVarint(b, i), LAMBDA tag :
         IF ~tag.ok THEN Error
         ELSE With(MergeField(type, m, b, i, tag), LAMBDA r :
                IF r.ok THEN Merge(type, r.value, b, r.next) ELSE Error))

Unmarshal(type, b) == Merge(type, Unset(type), b, 1)
==============================================================================
