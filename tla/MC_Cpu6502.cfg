CONSTANTS
  Rom <- MCRom
  MaxInjects <- MCMaxInjects
SPECIFICATION Spec
INVARIANT ReturnRestoresContext
PROPERTY NmiEventuallyTaken
