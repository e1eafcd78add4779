CONSTANTS
  Rom <- MCRom
  MaxInjects <- MCMaxInjects
SPECIFICATION Spec
PROPERTY IrqEventuallyTaken
