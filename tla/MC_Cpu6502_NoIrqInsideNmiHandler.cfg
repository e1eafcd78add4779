CONSTANTS
  Rom <- MCRom
  MaxInjects <- MCMaxInjects
SPECIFICATION Spec
INVARIANT NoIrqInsideNmiHandler
