CONSTANTS
  Durations <- MCDurations
  InitDur <- MCInitDur
  MaxCycles <- MCMaxCycles
  Callers <- MCSetFrequencyOnly
SPECIFICATION Spec
INVARIANT SleepWithinSchedule
