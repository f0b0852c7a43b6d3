\* One name, two backups of it, two policies that change.
CONSTANTS
  n1 = n1
  p1 = p1
  p2 = p2
  l1 = l1
  l2 = l2
  gold = gold
  Backups = {n1}
  StorageLocation <- MCStorageLocation
  Labels <- MCLabels
  Policies = {p1, p2}
  Specs <- MCSpecs
  MaxCreated = 2
  MaxChanges = 2
  Invalid = Invalid
  Nil = Nil
SPECIFICATION Spec
CHECK_DEADLOCK FALSE
INVARIANTS TypeOK OwnedByCompleted
PROPERTIES EveryBackupEnsured NothingStays
