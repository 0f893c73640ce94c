SPECIFICATION Spec
CONSTANTS
  o1 = o1  o2 = o2
  Null = Null
  Objects = {o1, o2}
  NumSocks = 2
  MaxOut <- MCMaxOut
  MaxIn <- MCMaxIn
  MaxNested <- MCNested
  Modes <- MCModes
INVARIANTS BuffersExact
PROPERTIES NothingCut 
SYMMETRY MCSymmetry
VIEW MCView
