SPECIFICATION Spec
CONSTANTS
  MaxRelease = 2
  MaxFaults = 2
  MaxInterrupts = 1
  MaxEdits = 1
  Broken = Broken
PROPERTIES RepeatFinishes
