\* A bundle id that is known returns the handles of the first bundle.
CONSTANTS
  b1 = b1
  b2 = b2
  l1 = l1
  Backups = {b1, b2}
  Locations = {l1}
  Location <- OneLocation
  MetaKeys <- MCMetaKeys
  RepoKeys <- TwoRepoKeys
  NewObjects <- OwnObjects
  Removable = {}
  DiscoveryKey <- MCDiscoveryKey
  SizeOf <- MCSizeOf
  FileLimit = 3
  ByteLimit = 0
  Outcomes = {"Completed"}
  Resend = "existing"
  MaxBundles = 1
  MaxFaults = 1
  MaxRemovals = 0
  Word = 16
  DefaultMaxFiles = 2
  DefaultMaxBytes = 5
  Nil = Nil
SPECIFICATION SnapbackSpec
CHECK_DEADLOCK FALSE
INVARIANT VisibleIsRestorable
