\* One instance that starts, serves and is replaced; the table is edited.
CONSTANTS
  b1 = b1
  b2 = b2
  i1 = i1
  i2 = i2
  None = None
  Empty = Empty
  Env <- DevnetEnv
  Pubkeys = {"key1", "key2", "pda"}
  SignerKey = "key1"
  Catalogs = {"seed_list", "own_list", "env_list"}
  SeedCatalog = "seed_list"
  Cutoff = 300
  Budget = 300
  Buyers = {b1, b2}
  Instances = {i1}
  Tables <- FourTables
  MaxVersions = 3
  TtlChoices = {100}
  CacheTtl = 1
  MaxFetch = 1
  Faults = {"restart"}
SPECIFICATION Spec
SYMMETRY Interchangeable
INVARIANT ServedRecently
INVARIANT CalmQuotesCurrent
INVARIANT CalmPaymentsAccepted
INVARIANT QuotesLongEnough
INVARIANT CalmPayoutSigned
