SPECIFICATION Spec
CONSTANTS
  JumpTable = 8
  MaxCost = 24
  Trees <- MCTrees
  Locals <- MCLocals
  Globals <- MCGlobals
INVARIANTS CodeMeansTree OptimizerKeepsMeaning CodeSound
PROPERTY RunEnds
