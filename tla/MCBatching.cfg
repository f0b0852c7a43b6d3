\* Lists of up to 4 files over every size from empty to the largest half-word.
CONSTANTS
  Word = 16
  DefaultMaxFiles = 2
  DefaultMaxBytes = 5
  MaxLen = 4
  Sizes = {0, 1, 3, 7}
  Inputs <- MCInputs
  FileLimits <- MCFileLimits
  ByteLimits <- MCByteLimits
SPECIFICATION Spec
CHECK_DEADLOCK FALSE
INVARIANTS CapsRespected OrderPreserved BytesExact ClosedOnlyWhenFull PackComplete
