\* Script, catalog and wallet in any order; the page reloaded; storage blocked, full or neither.
CONSTANTS
  k1 = k1
  k2 = k2
  None = None
  Absent = Absent
  Keys = {k1, k2}
  Stored = {"none", "other"}
SPECIFICATION FairSpec
INVARIANT HeaderTrue
INVARIANT ChoiceSurvives
INVARIANT ShopEndpoint
INVARIANT BelievedKeyIsLive
PROPERTY SignerInstalled
