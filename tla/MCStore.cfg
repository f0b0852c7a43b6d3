\* Credentials files of up to five lines; two operators share a ledger.
CONSTANTS
  Inputs <- MCInputs
  Lines <- MCLines
  MaxLines = 5
  OtherPrefixes <- MCOtherPrefixes
  RelKeys <- MCRelKeys
  ListPrefixes <- MCListPrefixes
  Workers = {w1, w2}
  ledgerKey <- MCLedgerKey
  Nil = Nil
SPECIFICATION Spec
CHECK_DEADLOCK FALSE
INVARIANTS CredentialsOfOneProfile ListIsExact NoLostUpdate
