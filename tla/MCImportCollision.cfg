\* Two manifests with one BackupImport name.
CONSTANTS
  Docs <- MCDocs
  Emitted <- MCEmitted
  Arrivals <- MCArrivals
  DiscoveryObject = "velero-backup.json"
  MaxName = 253
  SourceEndpointID = "source"
  MaxFaults = 0
  Nil = Nil
SPECIFICATION Spec
CHECK_DEADLOCK FALSE
INVARIANT ImportedVerified
