\* One decode per behaviour, over bodies with histogram or numeric-field
\* buckets as well.
CONSTANT Inputs <- MCInputsNumeric
INIT Init
NEXT Next
CHECK_DEADLOCK FALSE
INVARIANT DecodeAcceptsElasticResponses
