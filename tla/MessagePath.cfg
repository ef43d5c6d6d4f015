SPECIFICATION PathSpec
CONSTANTS
  ByteBits = 2
  Geometries <- MCGeometries
  Backends = {"float", "power16", "packed"}
  DecodedBlocks = 12
  Parsers <- MCParsers
  Preamble <- MCPreamble
  Takes <- MCTakes
  HistoryOf <- MCHistory
  Power16Of <- MCPower16
  FixedIDM <- MCFixedIDM
  FixedR900 <- MCFixedR900
  SymbolBytes = 1
  SearchBytes = 2
  Decisions <- MCDecisions
  Sent <- MCSent
  MaxErrors <- MCMaxErrors
  Meters = {m1, m2, m3}
  Sums = {s1, s2}
  CommandLines <- MCCommandLines
  Wanted = {m1, m2}
  Air <- MCAir
  OutputBytes = 4
  LookBack = 5
  OutputBlocks <- MCOutputBlocks
  Indices = 3
  Carried = 2
  Period = 4
  Threshold = 3
  Jitter = 1
  Heartbeat = 3
  Readings = {r1, r2}
  MaxClock = 20
  MaxUnsaved = 1
  None = None
INVARIANTS HistoryExact DispatchExact PacketsBelieved OutputExact CollectedOnce
CHECK_DEADLOCK FALSE
