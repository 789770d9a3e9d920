SPECIFICATION FairSpec
CONSTANTS
  Key = {k1, k2}
  Value = {v1}
  Writer = {w1, w2}
  Unset = Unset
  None = None
  Garbage = Garbage
INVARIANTS
  IInv
  SettingsSurvive
PROPERTIES
  NeverPartial
  StoreIsAtomic
  WriterEnds
