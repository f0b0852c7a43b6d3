\* Liveness: fewer versions and landings, the same failures.
CONSTANTS
  Docs <- MCDocs
  Emitted <- LiveEmitted
  Arrivals <- LiveArrivals
  DiscoveryObject = "velero-backup.json"
  MaxName = 253
  SourceEndpointID = "source"
  MaxFaults = 1
  Nil = Nil
SPECIFICATION Spec
CHECK_DEADLOCK FALSE
PROPERTIES EveryManifestImported EverythingLands
