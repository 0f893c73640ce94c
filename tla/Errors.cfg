SPECIFICATION Spec
CONSTANTS
  o1 = o1  o2 = o2
  NoObject = NoObject
  Objects = {o1, o2}
  MaxTrace = 4  MaxCost = 3  Releases = 1
  Contexts = {"catch", "safe", "eval"}
INVARIANTS ContextsSound
PROPERTIES CatchRestores  
