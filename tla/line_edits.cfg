SPECIFICATION Spec
CONSTANTS
  k1 = k1
  k2 = k2
  v1 = v1
  v2 = v2
  Key = {k1, k2}
  Value = {v1, v2}
  MaxLines = 3
  MaxSlicers = 2
INVARIANTS SettingsAgree BoxAgrees AppliedOnce OthersInPlace SetOnce
SYMMETRY Symmetry
CHECK_DEADLOCK FALSE
