SPECIFICATION FairSpec
CONSTANTS
  l1 = l1
  l2 = l2
  a1 = a1
  b1 = b1
  Line = {l1, l2}
  ShipLine = {a1, b1}
  Final <- MCFinal
  Ordered <- MCOrdered
  ShipmentOf <- MCShipmentOf
  Poller = {poller}
  Manual = {}
  Event = {e1}
  Setting <- MCEverySetting
  MaxFaults = 1
  None = None
INVARIANTS
  TypeOK
  ReceivedIsCovered
  NeverMoreThanShipped
PROPERTY
  EventuallyReceived
\* Nothing is left to do once the request is received or cancelled.
CHECK_DEADLOCK FALSE
