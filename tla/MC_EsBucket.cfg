\* One call of Bucket.UnmarshalJSON per behaviour: the call returns, so the
\* final state has no successor.
CONSTANT Inputs <- MCInputsFold
INIT Init
NEXT Next
CHECK_DEADLOCK FALSE
INVARIANT DecodeAcceptsElasticBuckets
