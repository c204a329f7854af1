\* Two commands, the clock ratio of 200 MHz to 125 MHz.
SPECIFICATION FairSpec
CONSTANTS
  Data = {d1, d2}
  Torn = torn
  MaxM = 2
INVARIANTS
  TypeOK
  CommandIntact
  TakenOnce
  AckMeansDone
  NothingLost
PROPERTIES
  Delivered
  SlotSpec
