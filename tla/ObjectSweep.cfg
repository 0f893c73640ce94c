SPECIFICATION FairSpec
CONSTANTS
  o1 = o1  o2 = o2  o3 = o3
  NoObject = NoObject
  Objects = {o1, o2, o3}
INVARIANTS SweepSound
PROPERTIES SweepComplete SweepEnds
