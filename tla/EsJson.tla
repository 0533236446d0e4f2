-------------------------------- MODULE EsJson --------------------------------
(***************************************************************************)
(* The types of src/internal/pkg/es/result.go and the encoding/json        *)
(* decoder that fills them, as pure operators.                             *)
(*                                                                         *)
(* JSON texts are abstracted to their structure.  A string is one          *)
(* non-empty string.  A number is the class of its value that the Go       *)
(* decoder tells apart.  An object is the sequence of its members, in      *)
(* text order, so duplicate and case-variant member names keep the order   *)
(* that decides between them.  Go values are abstracted the same way.     *)
(*                                                                         *)
(* Bucket has its own UnmarshalJSON, which json.Unmarshal calls for every  *)
(* Bucket it decodes, with the element's text, null included.  An error    *)
(* returned by it ends the whole decode; a type error elsewhere is         *)
(* remembered and the other members are still decoded.                     *)
(***************************************************************************)
EXTENDS Integers, Sequences, SequencesExt

-----------------------------------------------------------------------------
(* JSON texts                                                              *)

Null       == [k |-> "null"]
Str        == [k |-> "str"]
Bool       == [k |-> "bool"]
Num(c)     == [k |-> "num", n |-> c]
Obj(pairs) == [k |-> "obj", f |-> pairs]
Arr(s)     == [k |-> "arr", e |-> s]

\* Number classes: 0, a small positive integer, a negative integer, a
\* non-integer, an int64 above 2^53 that float64 cannot hold ("big"), the
\* float64 nearest to it ("big_r"), 2^63-1 ("max") and 2^63 ("two63").
NumClasses == {"zero", "int", "neg", "frac", "big", "big_r", "max", "two63"}
FitsInt64  == NumClasses \ {"frac", "two63"}
FitsUint64 == NumClasses \ {"frac", "neg"}
\* A number decoded into a float64.
Float64Of == [c \in NumClasses |->
                CASE c = "big" -> "big_r" [] c = "max" -> "two63" [] OTHER -> c]

Names(o)       == {o.f[i][1] : i \in DOMAIN o.f}
\* The value a decoded map holds for a member name: the last one given, or
\* nil (marshalled as null) when there is none.
Member(o, key) == IF key \in Names(o)
                  THEN o.f[SelectLastInSeq(o.f, LAMBDA p : p[1] = key)][2]
                  ELSE Null

\* Member names in byte order (upper case before "_" before lower case),
\* the order in which json.Marshal writes the keys of a map.
ByteOrder == <<"DOC_COUNT", "Key", "_id", "_index", "_score", "_seq_no",
               "_source", "a1", "a2", "agent", "doc_count", "elastic",
               "hits", "host", "id", "key", "max_score", "relation", "total",
               "value", "version">>
KeyRank(k) == SelectInSeq(ByteOrder, LAMBDA x : x = k)

\* encoding/json matches a member to a field case-insensitively.
FoldCase(k) == CASE k = "Key" -> "key" [] k = "DOC_COUNT" -> "doc_count"
                 [] OTHER -> k

-----------------------------------------------------------------------------
(* Go types                                                                *)

StringT        == [t |-> "string"]
BoolT          == [t |-> "bool"]
IntT           == [t |-> "int64"]      \* int: 64 bits wide
Int64T         == [t |-> "int64"]
Uint64T        == [t |-> "uint64"]
Float64T       == [t |-> "float64"]
FloatPtrT      == [t |-> "float"]      \* *float64
RawT           == [t |-> "raw"]        \* json.RawMessage
BucketRefT     == [t |-> "bucket"]     \* Bucket, which has UnmarshalJSON
SliceOf(e)     == [t |-> "slice", elem |-> e]
MapOf(e)       == [t |-> "map", elem |-> e]   \* map[string]e
StructOf(fs)   == [t |-> "struct", fields |-> fs]

HitT == StructOf("_id" :> StringT @@ "_seq_no" :> Int64T @@ "_index" :> StringT
                 @@ "_source" :> RawT @@ "_score" :> FloatPtrT)

HitsT == StructOf("hits" :> SliceOf(HitT)
                  @@ "total" :> StructOf("relation" :> StringT @@ "value" :> Uint64T)
                  @@ "max_score" :> FloatPtrT)

\* _bucket: the fields of Bucket; Aggregations has the tag "-".
BucketT == StructOf("key" :> StringT @@ "doc_count" :> Int64T)

AggregationT == StructOf("value" :> Float64T
                         @@ "doc_count_error_upper_bound" :> Int64T
                         @@ "sum_other_doc_count" :> Int64T
                         @@ "buckets" :> SliceOf(BucketRefT))

ErrorT == StructOf("type" :> StringT @@ "reason" :> StringT
                   @@ "caused_by" :> StructOf("type" :> StringT @@ "reason" :> StringT))

\* Mutant: the error member is taken for a string.
ResponseTErrorString ==
    StructOf("status" :> IntT @@ "took" :> Uint64T @@ "timed_out" :> BoolT
             @@ "_shards" :> StructOf("total" :> Uint64T @@ "successful" :> Uint64T
                                      @@ "skipped" :> Uint64T @@ "failed" :> Uint64T)
             @@ "hits" :> HitsT
             @@ "aggregations" :> MapOf(AggregationT)
             @@ "error" :> StringT)

ResponseT == StructOf("status" :> IntT @@ "took" :> Uint64T @@ "timed_out" :> BoolT
                      @@ "_shards" :> StructOf("total" :> Uint64T @@ "successful" :> Uint64T
                                               @@ "skipped" :> Uint64T @@ "failed" :> Uint64T)
                      @@ "hits" :> HitsT
                      @@ "aggregations" :> MapOf(AggregationT)
                      @@ "error" :> ErrorT)

\* The Bucket value: its two fields and the Aggregations map.
ZeroBucket == [key |-> "", doc_count |-> "zero", aggregations |-> <<>>]

RECURSIVE Zero(_)
Zero(T) == CASE T.t = "string"               -> ""
             [] T.t = "bool"                 -> FALSE
             [] T.t \in {"int64", "uint64", "float64"} -> "zero"
             [] T.t \in {"float", "raw"}     -> "nil"
             [] T.t \in {"slice", "map"}     -> <<>>
             [] T.t = "bucket"               -> ZeroBucket
             [] T.t = "struct" -> [f \in DOMAIN T.fields |-> Zero(T.fields[f])]

\* A JSON null leaves a string, bool, number or struct as it was.
NullIsNoOp(T) == T.t \in {"string", "bool", "int64", "uint64", "float64", "struct"}

-----------------------------------------------------------------------------
(* json.Unmarshal                                                          *)

RECURSIVE Decode(_, _), DecodeMembers(_, _, _), UnmarshalBucket(_, _)

\* json.Unmarshal of v into a fresh value of type T: whether it returned
\* nil, and the value.
Decode(T, v) ==
    CASE T.t = "raw"                         -> [ok |-> TRUE, val |-> v]
      [] T.t = "bucket" ->
            LET r == UnmarshalBucket(v, ZeroBucket)
            IN [ok |-> r.err = "nil", val |-> r.val]
      [] T.t \notin {"raw", "bucket"} /\ v.k = "null"
                                             -> [ok |-> TRUE, val |-> Zero(T)]
      [] T.t = "string" /\ v.k = "str"       -> [ok |-> TRUE, val |-> "s"]
      [] T.t = "bool" /\ v.k = "bool"        -> [ok |-> TRUE, val |-> TRUE]
      [] T.t = "int64" /\ v.k = "num" /\ v.n \in FitsInt64
                                             -> [ok |-> TRUE, val |-> v.n]
      [] T.t = "uint64" /\ v.k = "num" /\ v.n \in FitsUint64
                                             -> [ok |-> TRUE, val |-> v.n]
      [] T.t \in {"float", "float64"} /\ v.k = "num"
                                             -> [ok |-> TRUE, val |-> Float64Of[v.n]]
      [] T.t = "slice" /\ v.k = "arr" ->
            LET ds == [i \in DOMAIN v.e |-> Decode(T.elem, v.e[i])]
            IN [ok |-> \A i \in DOMAIN ds : ds[i].ok,
                val |-> [i \in DOMAIN ds |-> ds[i].val]]
      [] T.t = "map" /\ v.k = "obj" ->
            [ok  |-> \A i \in DOMAIN v.f : Decode(T.elem, v.f[i][2]).ok,
             val |-> [n \in Names(v) |-> Decode(T.elem, Member(v, n)).val]]
      [] T.t = "struct" /\ v.k = "obj"       -> DecodeMembers(T, v.f, Len(v.f))
      [] OTHER                               -> [ok |-> FALSE, val |-> Zero(T)]

\* The members of an object decoded into a struct: the field whose name
\* folds onto the member's, if any; a type error in one member does not
\* stop the others.
DecodeMembers(T, pairs, n) ==
    IF n = 0 THEN [ok |-> TRUE, val |-> Zero(T)]
    ELSE LET prev == DecodeMembers(T, pairs, n - 1)
             fs   == {f \in DOMAIN T.fields : FoldCase(f) = FoldCase(pairs[n][1])}
             f    == CHOOSE f \in fs : TRUE
             d    == Decode(T.fields[f], pairs[n][2])
         IN IF fs = {} \/ (pairs[n][2] = Null /\ NullIsNoOp(T.fields[f]))
            THEN prev
            ELSE [ok  |-> prev.ok /\ d.ok,
                  val |-> IF d.ok THEN [prev.val EXCEPT ![f] = d.val]
                          ELSE prev.val]

\* json.Unmarshal into interface{} followed by json.Marshal.
RECURSIVE ViaInterface(_)
ViaInterface(v) ==
    CASE v.k = "num" -> Num(Float64Of[v.n])
      [] v.k = "arr" -> Arr([i \in DOMAIN v.e |-> ViaInterface(v.e[i])])
      [] v.k = "obj" ->
            LET ks == SetToSortSeq(Names(v), LAMBDA a, b : KeyRank(a) < KeyRank(b))
            IN Obj([i \in DOMAIN ks |-> <<ks[i], ViaInterface(Member(v, ks[i]))>>])
      [] OTHER -> v

-----------------------------------------------------------------------------
(* Bucket.UnmarshalJSON                                                    *)

\* The map decode, the deletion of the fields' json tags, and the two
\* "continue"s: the names kept are those of objects with a "hits" member.
AggregationNames(d) ==
    IF d.k = "obj"
    THEN {n \in Names(d) \ {"key", "doc_count"} :
            Member(d, n).k = "obj" /\ "hits" \in Names(Member(d, n))}
    ELSE {}

\* json.Marshal(hMap), then json.Unmarshal into HitsT.
DecodeHits(d, n) == Decode(HitsT, ViaInterface(Member(Member(d, n), "hits")))

\* Bucket.UnmarshalJSON(d) on a receiver holding b: what it returned, and
\* what the receiver holds after.  The receiver is assigned only
\* when both decodes and every HitsT decode returned nil.
UnmarshalBucket(d, b) ==
    LET b2   == Decode(BucketT, d)
        aggs == [n \in AggregationNames(d) |-> DecodeHits(d, n)]
    IN IF b2.ok /\ \A n \in DOMAIN aggs : aggs[n].ok
       THEN [err |-> "nil",
             val |-> [key |-> b2.val["key"], doc_count |-> b2.val["doc_count"],
                      aggregations |-> [n \in DOMAIN aggs |-> aggs[n].val]]]
       ELSE [err |-> "error", val |-> b]

-----------------------------------------------------------------------------
(* What Elasticsearch writes, and what it means                            *)

\* A bucket as Elasticsearch writes it for a terms aggregation on a keyword
\* field: a string key, an int64 doc_count, and every other member a
\* sub-aggregation object whose hits, if it has them, decode as HitsT.
IsElasticBucket(d) ==
    /\ d.k = "obj"
    /\ \A n \in Names(d) :
         LET v == Member(d, n)
         IN CASE n = "key"       -> v.k = "str"
              [] n = "doc_count" -> v.k = "num" /\ v.n \in FitsInt64
              [] OTHER           -> v.k = "obj" /\ ("hits" \in Names(v) =>
                                                    Decode(HitsT, Member(v, "hits")).ok)

=============================================================================
