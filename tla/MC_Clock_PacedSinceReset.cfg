CONSTANTS
  Durations <- MCDurations
  InitDur <- MCInitDur
  MaxCycles <- MCMaxCycles
  Callers <- MCResetOnly
SPECIFICATION Spec
INVARIANT PacedSinceReset
