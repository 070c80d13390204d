SPECIFICATION LiveSpec
CONSTANTS
  Capacity = 2
  SizeMod = 8
  MaxBurst = 3
  Items = {a, b}
  NoItem = NoItem
INVARIANTS
  TypeOK
  CountersOrdered
  NoDataRace
  OwnerSizeInRange
  SlotsHold
PROPERTIES
  ImplementsQueue
  PublishedIsDelivered
