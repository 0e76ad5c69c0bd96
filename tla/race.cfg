\* Two commands that may both write one module's bundle, killed at any
\* moment, while the module is deleted or restored and bundles are copied.
CONSTANTS
  v1 = v1  v1crlf = v1crlf  v1bom = v1bom  v2 = v2  v3 = v3  dyn = dyn
  bad = bad  broken = broken  f = f  g = g  one = one  two = two  mA = mA  mB = mB  mR = mR  old = old
  w1 = w1  w2 = w2  r1 = r1  ci = ci  dev = dev
  public = public  staging = staging
  Canon <- MCCanon
  Parse <- MCParse
  Names <- MCNames
  Prints <- MCPrints
  SurfaceOf <- MCSurfaceOf
  Lang <- MCLang
  Signer <- MCSigner
  Extras <- MCExtras
  PublicRoot = public
  Identities = {ci, dev}
  Contents = {v1}
  TrustRoots = {public}
  Modules = {mA}
  Archives = {old}
  Writers = {w1, w2}
  Verifiers = {}
  Configs = {public}
  PolicyArgs = {}
  MayCrash = TRUE
  MaxSigned = 3
  MaxEdits = 1
  Procs = {w1, w2}
SPECIFICATION Spec
INVARIANTS TypeOK ChainLinked
PROPERTIES ImplementsLog
CHECK_DEADLOCK FALSE
