------------------------------ MODULE EsResponse ------------------------------
(***************************************************************************)
(* A search response of Elasticsearch decoded into es.Response and handed *)
(* on as an es.ResultT (src/internal/pkg/es/result.go 98-124): the result *)
(* SearchPolicyLeaders ranges over as res.Hits.                            *)
(*                                                                         *)
(* json.Unmarshal fills Response member by member.  Each bucket of an      *)
(* aggregation is decoded by Bucket.UnmarshalJSON into a fresh element of  *)
(* the Buckets slice, and an error of it ends the whole decode.            *)
(***************************************************************************)
EXTENDS EsJson

CONSTANTS Inputs   \* the response bodies the search may return

VARIABLES data,    \* the body of the response
          result,  \* the ResultT handed to the caller
          err,     \* what the decode returned
          called   \* whether the decode has returned

vars == <<data, result, err, called>>

\* No ResultT: the decode failed.
NoResult == [hits |-> Zero(HitsT), aggregations |-> <<>>]

\* ResultT: the embedded HitsT and the aggregations of the response.
ResultOf(resp) == [hits |-> resp["hits"], aggregations |-> resp["aggregations"]]

\* json.Unmarshal of the body into a Response, then its ResultT.
UnmarshalResponse(d) ==
    LET r == Decode(ResponseT, d)
    IN /\ ~called
       /\ data' = d
       /\ called' = TRUE
       /\ err' = IF r.ok THEN "nil" ELSE "error"
       /\ result' = IF r.ok THEN ResultOf(r.val) ELSE NoResult

Init ==
    /\ data \in Inputs
    /\ result = NoResult
    /\ err = "nil"
    /\ called = FALSE

Next == UnmarshalResponse(data)

Spec == Init /\ [][Next]_vars

-----------------------------------------------------------------------------
(* Properties                                                              *)

\* A bucket as Elasticsearch writes it for any bucket aggregation: the key
\* is a string, or for a histogram or a numeric field a number with its
\* key_as_string; every other member is a sub-aggregation object.
IsWrittenBucket(b) ==
    /\ b.k = "obj"
    /\ \A n \in Names(b) :
         LET v == Member(b, n)
         IN CASE n = "key"           -> v.k \in {"str", "num"}
              [] n = "key_as_string" -> v.k = "str"
              [] n = "doc_count"     -> v.k = "num" /\ v.n \in FitsInt64
              [] OTHER               -> v.k = "obj" /\ ("hits" \in Names(v) =>
                                                        Decode(HitsT, Member(v, "hits")).ok)

\* A response body as Elasticsearch writes it: counts as unsigned integers,
\* hits that decode as HitsT, aggregations that are metric values or lists
\* of written buckets, an error object.
IsElasticResponse(d) ==
    /\ d.k = "obj"
    /\ \A n \in Names(d) :
         LET v == Member(d, n)
         IN CASE n \in {"took", "status"} -> v.k = "num" /\ v.n \in FitsInt64 \cap FitsUint64
              [] n = "timed_out"          -> v.k = "bool"
              [] n = "_shards"            -> Decode(ResponseT.fields["_shards"], v).ok
              [] n = "hits"               -> Decode(HitsT, v).ok
              [] n = "aggregations"       ->
                    v.k = "obj" /\
                    \A a \in Names(v) :
                       LET agg == Member(v, a)
                       IN agg.k = "obj" /\
                          \A m \in Names(agg) :
                             LET x == Member(agg, m)
                             IN CASE m = "buckets" ->
                                       x.k = "arr" /\ \A i \in DOMAIN x.e : IsWrittenBucket(x.e[i])
                                  [] m = "value" -> x.k \in {"num", "null"}
                                  [] OTHER -> x.k = "num" /\ x.n \in FitsInt64
              [] n = "error"              -> v.k = "obj"
              [] OTHER                    -> TRUE

\* Every response Elasticsearch writes decodes, whatever aggregation it
\* carries: one bucket UnmarshalJSON cannot read fails the whole search.
DecodeAcceptsElasticResponses ==
    called /\ IsElasticResponse(data) => err = "nil"

=============================================================================
