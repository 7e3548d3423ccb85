SPECIFICATION LiveSpec
CONSTANTS
  FileBuffer = 40
  AddressLists <- MCAddressLists
  Between <- MCBetween
  Lengths = {1, 2}
  BuffSize = 2
  PipeSize = 3
  Backlog = 1
  Descriptors = 3
  MaxMessages = 3
INVARIANTS TypeOK HostsRead OwnIdFound DeliveredInOrder EndsHaveCause
PROPERTIES WrittenIsRelayed
CHECK_DEADLOCK FALSE
