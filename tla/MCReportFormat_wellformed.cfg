INIT Init
NEXT Next
INVARIANT WellFormedAccepted
