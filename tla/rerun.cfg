CONSTANTS
  v1 = v1  v2 = v2  c1 = c1  c1b = c1b  c2 = c2  h = h  hb = hb
  None = None
  Versions = {v1}
  Commits = {c1, c1b}
  Hashes = {h, hb}
  VersionOf <- MCVersionOf
  Pinned <- MCPinned
  Pushed <- MCPushedTwice
  OnMain = {c1, c1b}
  Documented = {c1, c1b}
  Users = {}
  ByHand = {}
SPECIFICATION FairSpec
PROPERTY RerunProvides
CHECK_DEADLOCK FALSE
