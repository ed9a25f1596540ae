INIT Init
NEXT Next
INVARIANT SuccessfulParseComplete
INVARIANT UnknownKeysIgnored
