\* Every trust-config and identity policy against the bundles of two signers.
CONSTANTS
  v1 = v1  v1crlf = v1crlf  v1bom = v1bom  v2 = v2  v3 = v3  dyn = dyn
  bad = bad  broken = broken  f = f  g = g  one = one  two = two  mA = mA  mB = mB  mR = mR  old = old
  w1 = w1  w2 = w2  r1 = r1  ci = ci  dev = dev
  public = public  staging = staging
  Canon <- MCCanon
  Parse <- MCParse
  Names <- MCNames
  Prints <- MCPrints
  SurfaceOf <- MCSurfaceOf
  Lang <- MCLang
  Signer <- MCSigner
  Extras <- MCExtras
  PublicRoot = public
  Identities = {ci, dev}
  Contents = {v1}
  TrustRoots = {public, staging}
  Modules = {mA}
  Archives = {}
  Writers = {w1, w2}
  Verifiers = {r1}
  Configs = {public, staging}
  PolicyArgs <- MCPolicies
  MayCrash = FALSE
  MaxSigned = 2
  MaxEdits = 0
  Procs = {r1, w1, w2}
SPECIFICATION Spec
INVARIANTS AcceptedIsTrusted
CHECK_DEADLOCK FALSE
