----------------------------- MODULE MC_EsBucket -----------------------------
(* Bounded inputs for EsBucket: every bucket object of up to three members *)
(* with distinct names, drawn from a pool of member values that covers each *)
(* branch of Bucket.UnmarshalJSON.                                         *)
EXTENDS EsBucket

Hit(c)      == Obj(<<<<"_id", Str>>, <<"_seq_no", Num(c)>>>>)
HitsText(c) == Obj(<<<<"total", Obj(<<<<"value", Num("int")>>, <<"relation", Str>>>>)>>,
                     <<"hits", Arr(<<Hit(c)>>)>>>>)

\* Member values: strings and numbers of each class the fields tell apart,
\* a metric sub-aggregation, and sub-aggregations whose hits are null, of
\* the wrong type, or a hit list with the given _seq_no classes.
MemberValues(seqnos) ==
    {Null, Str, Num("int"), Num("neg"), Num("frac"),
     Obj(<<<<"value", Num("frac")>>>>),
     Obj(<<<<"hits", Null>>>>),
     Obj(<<<<"hits", Str>>>>)}
    \cup {Obj(<<<<"hits", HitsText(c)>>>>) : c \in seqnos}

Bodies(names, seqnos) ==
    {Obj(s) : s \in {s \in UNION {[1..n -> names \X MemberValues(seqnos)] : n \in 0..3} :
                       \A i, j \in DOMAIN s : i /= j => s[i][1] /= s[j][1]}}

\* Sub-aggregation names: "Key" (which folds onto the key field) and "a1".
MCInputsFold == Bodies({"key", "Key", "a1"}, {"int"})
=============================================================================
