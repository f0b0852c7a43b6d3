\* Liveness: two backups of two locations, the second in two bundles; distributions
\* fail or complete, and a known bundle id returns its handles.
CONSTANTS
  b1 = b1
  b2 = b2
  l1 = l1
  l2 = l2
  Backups = {b1, b2}
  Locations = {l1, l2}
  Location <- TwoLocations
  MetaKeys <- MCMetaKeys
  RepoKeys <- OneRepoKey
  NewObjects <- SecondWrites
  Removable = {}
  SizeOf <- MCSizeOf
  FileLimit = 1
  ByteLimit = 0
  Outcomes = {"Completed", "Failed"}
  Resend = "existing"
  MaxBundles = 2
  MaxFaults = 1
  MaxRemovals = 0
  Word = 16
  DefaultMaxFiles = 2
  DefaultMaxBytes = 5
  Nil = Nil
SPECIFICATION Spec
CHECK_DEADLOCK FALSE
PROPERTY EveryBackupReplicated
