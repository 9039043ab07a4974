SPECIFICATION Spec
CONSTANTS
  s1 = s1
  s2 = s2
  k1 = k1
  k2 = k2
  v1 = v1
  v2 = v2
  Slicer = {s1, s2}
  Key = {k1}
  Value = {v1, v2}
  Version = {}
  MaxElsewhere = 0
  MaxApply = 1
  MaxLate = 0
  Fault = {"unread"}
PROPERTIES LockedKept
SYMMETRY Symmetry
