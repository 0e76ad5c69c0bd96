\* The gate the README describes for update.
CONSTANTS
  v1 = v1  v1crlf = v1crlf  v1bom = v1bom  v2 = v2  v3 = v3  dyn = dyn
  bad = bad  broken = broken  f = f  g = g  one = one  two = two  mA = mA  mB = mB  mR = mR  old = old
  w1 = w1  w2 = w2  r1 = r1  ci = ci  dev = dev
  public = public  staging = staging
  Canon <- MCCanon
  Parse <- MCParse
  Names <- MCNames
  Prints <- MCPrints
  SurfaceOf <- MCSurfaceOf
  Lang <- MCLang
  Signer <- MCSigner
  Extras <- MCExtras
  PublicRoot = public
  Identities = {ci, dev}
  Contents = {v1, v3}
  TrustRoots = {public}
  Modules = {mA}
  Archives = {}
  Writers = {w1}
  Verifiers = {}
  Configs = {public}
  PolicyArgs = {}
  MayCrash = FALSE
  MaxSigned = 2
  MaxEdits = 1
  Procs = {w1}
SPECIFICATION Spec
INVARIANTS UpdateIsAdditive
CHECK_DEADLOCK FALSE
