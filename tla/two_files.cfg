\* Two files of one name and one chunk, one channel that stays.
SPECIFICATION SlotsSpec
CONSTANTS
  f = f
  g = g
  e = e
  None = None
  Transfers = {f, g}
  Chunks <- OneChunkEach
  Paths <- MCPaths
  Candidates <- MCCandidates
  TempOf <- MCTempOf
  Leftovers <- NoLeftovers
  MaxIncoming = 2
  MaxChannels = 1
  MaxCloses = 0
INVARIANTS
  SavedFilesWhole OneVerdict
SYMMETRY
  TransferSymmetry
CHECK_DEADLOCK FALSE
