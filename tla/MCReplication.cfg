\* Safety: two backups of one location, one failure or one removal anywhere.
CONSTANTS
  b1 = b1
  b2 = b2
  l1 = l1
  l2 = l2
  Backups = {b1, b2}
  Locations = {l1}
  Location <- OneLocation
  MetaKeys <- MCMetaKeys
  RepoKeys <- OneRepoKey
  NewObjects <- SamePath
  Removable = {"p"}
  SizeOf <- MCSizeOf
  FileLimit = 1
  ByteLimit = 0
  Outcomes = {"Completed", "Failed"}
  Resend = "reject"
  MaxBundles = 2
  MaxFaults = 1
  MaxRemovals = 1
  Word = 16
  DefaultMaxFiles = 2
  DefaultMaxBytes = 5
  Nil = Nil
SPECIFICATION Spec
CONSTRAINT OneMishap
CHECK_DEADLOCK FALSE
INVARIANTS TypeOK ReplicatedCovers ManifestHonest TransmittedOnly
PROPERTIES LedgerAfterManifest TerminalIsFinal
