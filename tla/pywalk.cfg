\* Walks over a Python file, its bundle and a copy of it, beside a writer and
\* an edit, with texts that some readers accept and others do not.
CONSTANTS
  v1 = v1  v1crlf = v1crlf  v1bom = v1bom  v2 = v2  v3 = v3  dyn = dyn
  bad = bad  broken = broken  f = f  g = g  one = one  two = two  mA = mA  mB = mB  mR = mR  old = old
  w1 = w1  w2 = w2  r1 = r1  ci = ci  dev = dev
  public = public  staging = staging
  Canon <- MCCanon
  Parse <- MCParse
  Names <- MCNames
  Prints <- MCPrints
  SurfaceOf <- MCSurfaceOf
  Lang <- MCLang
  Signer <- MCSigner
  Extras <- MCExtras
  PublicRoot = public
  Identities = {ci, dev}
  Contents = {v1, v1bom, v2, v3, dyn, bad}
  TrustRoots = {public}
  Modules = {mA}
  Archives = {old}
  Writers = {w1}
  Verifiers = {r1}
  Configs = {public}
  PolicyArgs = {ci}
  MayCrash = FALSE
  MaxSigned = 2
  MaxEdits = 1
  Procs = {r1, w1}
  Walker = r1
  FileOrder <- MCFileOrder
  BundleOrder <- MCBundleOrder
  StemPy <- MCStemPy
  FromCwd <- MCFromCwd
  Astray = {}
  Marads <- MCMarads
  Excluded = {mA}
SPECIFICATION WalkSpec
INVARIANTS AcceptedIsOnDisk  TracebackHasCause
CHECK_DEADLOCK FALSE
