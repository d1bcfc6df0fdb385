SPECIFICATION Spec
CONSTANTS
  l1 = l1
  l2 = l2
  a1 = a1
  b1 = b1
  Line = {l1, l2}
  ShipLine = {a1, b1}
  Final <- MCFinal
  Ordered <- MCOrdered
  ShipmentOf <- MCShipmentOf
  Poller = {poller}
  Manual = {warehouse}
  Event = {}
  Setting <- MCDefault
  MaxFaults = 1
  None = None
PROPERTY
  CancelledIsFinal
CHECK_DEADLOCK FALSE
