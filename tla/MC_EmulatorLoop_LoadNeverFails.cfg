CONSTANTS
  ProgSize <- MCProgSize
  Programs <- MCPrograms
  Origin <- MCOrigin
  Boot <- MCBoot
  MaxPresses <- MCMaxPresses
SPECIFICATION Spec
INVARIANT LoadNeverFails
\* F10 ends every thread: the system really stops there.
CHECK_DEADLOCK FALSE
