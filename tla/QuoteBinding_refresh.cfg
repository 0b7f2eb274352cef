\* Overlapping and failing refreshes in one instance.
CONSTANTS
  b1 = b1
  b2 = b2
  i1 = i1
  i2 = i2
  None = None
  Empty = Empty
  Env <- DevnetEnv
  Pubkeys = {"key1", "key2", "pda"}
  SignerKey = "key1"
  Catalogs = {"seed_list", "own_list", "env_list"}
  SeedCatalog = "seed_list"
  Cutoff = 300
  Budget = 300
  Buyers = {b1}
  Instances = {i1}
  Tables <- AllTables
  MaxVersions = 3
  TtlChoices = {}
  CacheTtl = 1
  MaxFetch = 2
  Faults = {"db"}
SPECIFICATION FairSpec
PROPERTY CatchesUp
