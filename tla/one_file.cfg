\* A file of two chunks, two channels that may close, and what earlier files left.
SPECIFICATION Spec
CONSTANTS
  f = f
  g = g
  e = e
  None = None
  Transfers = {f}
  Chunks <- MCChunks
  Paths <- MCPaths
  Candidates <- MCCandidates
  TempOf <- MCTempOf
  Leftovers <- MCLeftovers
  MaxIncoming = 2
  MaxChannels = 2
  MaxCloses = 2
INVARIANTS
  FileInv
PROPERTY
  DeliverySpec
CHECK_DEADLOCK FALSE
