SPECIFICATION Spec
INVARIANT DecimalModeMatchesReference
