---------------------------- MODULE MC_EsResponse ----------------------------
(* Bounded response bodies for EsResponse: a search response with each    *)
(* kind of hits and an aggregation of up to two buckets from a pool that   *)
(* covers each branch of Bucket.UnmarshalJSON, and error responses.        *)
EXTENDS EsResponse

IntNum == Num("int")

HitText(score) == Obj(<<<<"_id", Str>>, <<"_index", Str>>, <<"_seq_no", IntNum>>,
                        <<"_score", score>>, <<"_source", Obj(<<>>)>>>>)
HitsText(hs) == Obj(<<<<"total", Obj(<<<<"value", IntNum>>, <<"relation", Str>>>>)>>,
                      <<"max_score", Null>>, <<"hits", Arr(hs)>>>>)
HitsPool == {HitsText(<<>>), HitsText(<<HitText(Num("frac"))>>), HitsText(<<HitText(Null)>>)}

\* Buckets of a terms aggregation on a keyword field: plain, with a
\* top_hits sub-aggregation, with a metric one, with both.
KeywordBuckets ==
    {Obj(<<<<"key", Str>>, <<"doc_count", IntNum>>>>),
     Obj(<<<<"key", Str>>, <<"doc_count", IntNum>>,
           <<"a2", Obj(<<<<"hits", HitsText(<<HitText(Null)>>)>>>>)>>>>),
     Obj(<<<<"key", Str>>, <<"doc_count", IntNum>>, <<"a2", Obj(<<<<"value", Num("frac")>>>>)>>>>),
     Obj(<<<<"key", Str>>, <<"doc_count", IntNum>>,
           <<"a1", Obj(<<<<"hits", HitsText(<<HitText(Null)>>)>>>>)>>,
           <<"a2", Obj(<<<<"value", Num("frac")>>>>)>>>>)}

\* A bucket of a histogram, or of a terms aggregation on a numeric field.
NumericBuckets == {Obj(<<<<"key", IntNum>>, <<"key_as_string", Str>>, <<"doc_count", IntNum>>>>)}

Aggregations(pool) ==
    {Obj(<<>>), Obj(<<<<"a1", Obj(<<<<"value", Null>>>>)>>>>)}
    \cup {Obj(<<<<"a1", Obj(<<<<"doc_count_error_upper_bound", Num("zero")>>,
                              <<"sum_other_doc_count", IntNum>>, <<"buckets", Arr(bs)>>>>)>>>>) :
            bs \in UNION {[1..n -> pool] : n \in 0..2}}

Searches(pool) ==
    {Obj(<<<<"took", IntNum>>, <<"timed_out", Bool>>,
           <<"_shards", Obj(<<<<"total", IntNum>>, <<"successful", IntNum>>,
                              <<"skipped", Num("zero")>>, <<"failed", Num("zero")>>>>)>>,
           <<"hits", h>>, <<"aggregations", a>>>>) :
        h \in HitsPool, a \in Aggregations(pool)}

Errors == {Obj(<<<<"error", Obj(<<<<"root_cause", Arr(<<>>)>>, <<"type", Str>>, <<"reason", Str>>,
                                 <<"caused_by", Obj(<<<<"type", Str>>, <<"reason", Str>>>>)>>>>)>>,
                 <<"status", IntNum>>>>)}

MCInputs == Searches(KeywordBuckets) \cup Errors

\* Also buckets with a numeric key.
MCInputsNumeric == Searches(KeywordBuckets \cup NumericBuckets)
=============================================================================
