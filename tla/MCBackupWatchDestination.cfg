\* Two policies select one backup.
CONSTANTS
  n1 = n1
  p1 = p1
  p2 = p2
  l1 = l1
  l2 = l2
  gold = gold
  Backups = {n1}
  StorageLocation <- MCStorageLocation
  Labels <- MCLabels
  Policies = {p1, p2}
  Specs <- OverlappingSpecs
  MaxCreated = 1
  MaxChanges = 0
  Invalid = Invalid
  Nil = Nil
SPECIFICATION Spec
CHECK_DEADLOCK FALSE
PROPERTY SingleDestination
