SPECIFICATION LruSpec
CONSTANTS
  d1 = d1
  d2 = d2
  d3 = d3
  Digests = {d1, d2, d3}
  Loaders = {l1, l2}
  Cap = 2
  ByteBudget = 4
  CwasmLen <- CwasmLens
  WasmLen <- WasmLens
PROPERTIES
  InsertedEntryStays
