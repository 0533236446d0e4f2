------------------------------- MODULE EsBucket -------------------------------
(***************************************************************************)
(* es.Bucket.UnmarshalJSON of src/internal/pkg/es/result.go.               *)
(*                                                                         *)
(* A bucket of an Elasticsearch aggregation is a JSON object holding the   *)
(* bucket's own fields (key, doc_count) beside one entry per               *)
(* sub-aggregation.  UnmarshalJSON decodes the text twice: once into the  *)
(* bucket's fields, once into a map[string]interface{}.  It deletes the    *)
(* entries named by the fields' json tags from the map, and decodes every  *)
(* remaining entry that is an object with a "hits" member into HitsT.      *)
(* That decode goes through json.Marshal of the interface{} value, so      *)
(* its numbers have been float64 and its objects have had their keys       *)
(* sorted.  The bucket is assigned only when every step succeeded.         *)
(*                                                                         *)
(***************************************************************************)
EXTENDS EsJson

CONSTANTS Inputs   \* the JSON texts a caller hands to Bucket.UnmarshalJSON

VARIABLES data,    \* the text of the call
          bucket,  \* the Bucket the receiver points at
          err,     \* what the call returned
          called   \* whether the call has returned

vars == <<data, bucket, err, called>>

-----------------------------------------------------------------------------
\* The whole method on the receiver.
UnmarshalJSON(d) ==
    LET r == UnmarshalBucket(d, bucket)
    IN /\ ~called
       /\ data' = d
       /\ called' = TRUE
       /\ bucket' = r.val
       /\ err' = r.err

\* The receiver may hold a bucket from an earlier decode: encoding/json
\* decodes the elements of a reused []Bucket into the elements in place.
PriorBuckets ==
    {ZeroBucket,
     [key |-> "s", doc_count |-> "int",
      aggregations |-> "a1" :> Zero(HitsT)]}

Init ==
    /\ data \in Inputs
    /\ bucket \in PriorBuckets
    /\ err = "nil"
    /\ called = FALSE

Next == UnmarshalJSON(data)

Spec == Init /\ [][Next]_vars

-----------------------------------------------------------------------------
(* Properties                                                              *)

\* Every bucket Elasticsearch can send for a terms aggregation on a keyword
\* field decodes without error, whatever its sub-aggregations are called
\* (an aggregation's name is any string the query chose).
DecodeAcceptsElasticBuckets ==
    called /\ IsElasticBucket(data) => err = "nil"

=============================================================================
