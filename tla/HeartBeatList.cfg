SPECIFICATION Spec
CONSTANTS
  o1 = o1  o2 = o2  o3 = o3
  NoObject = NoObject
  Objects = {o1, o2, o3}
  Ops = {"off", "error", "destruct", "clone", "relink_tail", "destruct_tail", "early_alarm"}
INVARIANTS BeatsCounted ListWellFormed
 
