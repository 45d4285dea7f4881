SPECIFICATION Spec
CONSTANTS
  a = a  b = b  ipa = ipa  ipb = ipb  route = route  global = global
  Requests = {r1, r2}
  Clients = {a, b}
  Limits <- TwoLimits
  KeysOf <- TwoKeys
  NoKey = NoKey
  Unit = 2
  MaxBuckets = 5
  Second = 1
  Minute = 3
  MaxLag = 1
  None = None
SYMMETRY MCSymmetry
PROPERTIES BurstIsUsable
