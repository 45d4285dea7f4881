SPECIFICATION Spec
CONSTANTS
  a = a  b = b  ipa = ipa  ipb = ipb  route = route  global = global
  Requests = {r1, r2}
  Clients = {a, b}
  Limits <- ThreeLimits
  KeysOf <- ThreeKeys
  NoKey = NoKey
  Unit = 2
  MaxBuckets = 2
  Second = 2
  Minute = 3
  MaxLag = 1
  None = None
INVARIANTS BucketsBounded
PROPERTIES RefusalsFair
SYMMETRY MCSymmetry
