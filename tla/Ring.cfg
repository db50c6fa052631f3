SPECIFICATION Spec
CONSTANTS
  Flights = {0, 1, 2}
  SLOTS = 4
PROPERTIES
  KeepsTheLine
