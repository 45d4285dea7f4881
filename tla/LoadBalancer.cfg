SPECIFICATION Spec
CONSTANTS
  k1 = k1  k2 = k2  k3 = k3
  N = 3
  KeyOf <- MCKeyOf
  Requests = {r1, r2}
SYMMETRY MCSymmetry
INVARIANTS NeverSentTwice
PROPERTIES NoAvoidableFailure MarkedForCause
