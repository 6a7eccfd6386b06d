CONSTANTS
  Readable <- MCReadable
  Names = {"local", "prod", "staging"}
SPECIFICATION Spec
INVARIANTS
  FatalDeserved
CHECK_DEADLOCK FALSE
