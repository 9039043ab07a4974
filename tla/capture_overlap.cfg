SPECIFICATION Spec
CONSTANTS
  s1 = s1
  w1 = w1
  w2 = w2
  Slicer = {s1}
  Manual = {}
  Worker = {w1, w2}
  Kind = {"poll"}
  Operating = {"Ready"}
  Error = {"e1"}
  MaxDoc = 2
INVARIANTS PanelCurrent
