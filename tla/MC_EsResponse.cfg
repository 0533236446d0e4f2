\* One decode per behaviour: the call returns, so the final state has no
\* successor.
CONSTANT Inputs <- MCInputs
INIT Init
NEXT Next
CHECK_DEADLOCK FALSE
INVARIANT DecodeAcceptsElasticResponses
