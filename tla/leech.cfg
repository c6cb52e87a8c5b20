SPECIFICATION Spec
CONSTANTS
  ArgLimit = 256
  Commands <- MCCommands
INVARIANTS LoadedWhole CallersWait
PROPERTIES Implements Ends
