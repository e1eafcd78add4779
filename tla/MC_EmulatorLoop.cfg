CONSTANTS
  ProgSize <- MCProgSize
  Programs <- MCPrograms
  Origin <- MCOrigin
  Boot <- MCBoot
  MaxPresses <- MCMaxPresses
SPECIFICATION Spec
PROPERTY StepOnlyOnRequest
\* F10 ends every thread: the system really stops there.
CHECK_DEADLOCK FALSE
