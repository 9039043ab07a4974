SPECIFICATION FairSpec
CONSTANTS
  s1 = s1
  w1 = w1
  w2 = w2
  Slicer = {s1}
  Manual = {}
  Worker = {w1}
  Kind = {"poll", "start", "stop", "refresh", "update"}
  Operating = {"Ready", "Slicing"}
  Error = {"e1"}
  MaxDoc = 2
INVARIANTS TypeOK PanelCurrent ErrorRetried SourceTruthful
PROPERTIES NeverOlder StartCaptured RequestsAtomic EventuallyCaptured
