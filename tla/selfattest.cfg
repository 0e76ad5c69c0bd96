CONSTANTS
  v1 = v1  v2 = v2  c1 = c1  c1b = c1b  c2 = c2  h = h  hb = hb
  None = None
  Versions = {v1, v2}
  Commits = {c1, c1b, c2}
  Hashes = {h, hb}
  VersionOf <- MCVersionOf
  Pinned <- MCPinned
  Pushed <- MCPushed
  OnMain = {c1, c1b, c2}
  Documented = {c1, c1b}
  Users = {u}
  ByHand <- MCByHand
SPECIFICATION Spec
INVARIANTS SelfTypeOK ManifestAttestsWheel AcceptedIsReleased DriftIsReal FailedSignatureNeedsHand
CHECK_DEADLOCK FALSE
