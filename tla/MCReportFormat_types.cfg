INIT Init
NEXT Next
INVARIANT MistypedValueRefused
