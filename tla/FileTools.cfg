SPECIFICATION Spec
CONSTANTS
  Blank = "_"
  Cr = "r"
  Plain <- MCPlain
  Texts <- MCTexts
  Edits <- MCEdits
  Writes <- MCWrites
  MaxCalls = 2
  MaxForeign = 2
  MaxRestarts = 1
CHECK_DEADLOCK FALSE
INVARIANTS DecidesOnWhatWasTold
PROPERTIES NoFalseAlarm TouchesOnlyWhatWasNamed
