\* Safety: two interleaved imports with failures, restarts and deletions.
CONSTANTS
  Docs <- MCDocs
  Emitted <- MCEmitted
  Arrivals <- MCArrivals
  DiscoveryObject = "velero-backup.json"
  MaxName = 253
  SourceEndpointID = ""
  MaxFaults = 1
  Nil = Nil
SPECIFICATION Spec
CHECK_DEADLOCK FALSE
INVARIANTS TypeOK NoHalfBackup ImportedVerified VerifiedOnly
PROPERTIES TerminalIsFinal ImplementsAtomicImport
