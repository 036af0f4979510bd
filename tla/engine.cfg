SPECIFICATION Spec
CONSTANTS
  Rows = 3
  Workers = 2
  SourceFails = TRUE
  NoFrame = NoFrame
INVARIANTS CountsMatchRows OneBundle ResolvedIsFinal
PROPERTIES FramesInOrder SilentAfter Ends ContractSpec
CHECK_DEADLOCK FALSE
