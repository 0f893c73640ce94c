SPECIFICATION Spec
CONSTANTS
  c1 = c1  c2 = c2  c3 = c3  c4 = c4  o1 = o1  o2 = o2  f1 = f1  f2 = f2
  NoCall = NoCall  NoObject = NoObject  NoFunction = NoFunction
  Calls = {c1, c2, c3}
  Objects = {o1, o2}
  Functions = {f1}
  Owner <- MCOneOwner
  Delays = {0, 3, 9}
  TimeRoom = 5
  Elapse = {2}
  InitSize = 1
  MaxLate = 2
  MaxCost = 2
  Beaters = 1
INVARIANTS QueueSound RefCountExact
PROPERTIES OrderKept
