SPECIFICATION Spec
INVARIANT AdcBinaryMatchesReference
INVARIANT SbcBinaryMatchesReference
INVARIANT AdcDecimalSum
INVARIANT LogicMatchesReference
INVARIANT CompareMatchesReference
INVARIANT ShiftsMatchReference
INVARIANT IncDecMatchesReference
INVARIANT AddressingMatchesReference
INVARIANT BranchesMatchReference
INVARIANT OpcodeTableMatchesReference
INVARIANT MemoryMapMatchesReference
INVARIANT LoadBinaryPassesCheck
INVARIANT StackRoundTrip
INVARIANT StatusRoundTrip
