SPECIFICATION Spec
CONSTANTS
  MemBase = 8
  MemSize = 8
  Serial = 40
  Timer = 48
  Keybrd = 56
  Word <- TwoWords
  Beside = {7, 16, 18, 20}
  Images <- MCImages
  BuiltIn = 8
  PowerUp = 0
  Places = {8, 16, 20}
  Steps <- MCSteps
  Scans <- MCScans
INVARIANTS RefStartsEqual RunsToVerdict
PROPERTIES MemoryBytes
