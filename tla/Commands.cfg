SPECIFICATION Spec
CONSTANTS
  Cmds = {c1, c2}
  Pids = {p1, p2, p3}
  MaxOthers = 1
  NoPid = NoPid
  Garbage = Garbage
 
PROPERTIES FailedStartLeavesNothing StrangersSpared
SYMMETRY MCSymmetry
