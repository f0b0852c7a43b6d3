\* Both roles: two backups over one repository, an object removed, one failure.
CONSTANTS
  b1 = b1
  b2 = b2
  l1 = l1
  Backups = {b1, b2}
  Locations = {l1}
  Location <- OneLocation
  MetaKeys <- MCMetaKeys
  RepoKeys <- OneRepoKey
  NewObjects <- Shared
  Removable = {"m2", "p"}
  DiscoveryKey <- MCDiscoveryKey
  SizeOf <- MCSizeOf
  FileLimit = 2
  ByteLimit = 0
  Outcomes = {"Completed"}
  Resend = "reject"
  MaxBundles = 1
  MaxFaults = 1
  MaxRemovals = 1
  Word = 16
  DefaultMaxFiles = 2
  DefaultMaxBytes = 5
  Nil = Nil
SPECIFICATION SnapbackSpec
CHECK_DEADLOCK FALSE
INVARIANT VisibleIsRestorable
PROPERTY ImplementsService
