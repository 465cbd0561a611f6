SPECIFICATION FairSpec
CONSTANTS
  c1 = c1
  c2 = c2
  Callers = {c1, c2}
  Ids = {"x", "y"}
  Names = {"", "a"}
  KubeConfigs <- MCKubeConfigs
  TTL = 1
  MaxTokens = 3
INVARIANTS TypeOK TokenIsStored
PROPERTIES OverwriteNeedsRace LeftoversExpire
