CONSTANTS
  kCheapPrepend = 2
  kInitialSize = 3
  kExtraSize = 3
  MaxReceived = 7
SPECIFICATION Spec
INVARIANTS TypeOK RoomEnsured
PROPERTIES GrowsOnlyWhenFull ImplementsByteStream
