SPECIFICATION LiveSpec
CONSTANTS
  Clients = {a, b}
  a = a
  b = b
  OptionLists <- MCOptionLists
  NumHosts = 2
  MaxCuts = 1
INVARIANTS TypeOK JunkHasCause BookedWhole
PROPERTIES ExchangeSpec ClientEnds
CHECK_DEADLOCK FALSE
