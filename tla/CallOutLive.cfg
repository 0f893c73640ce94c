SPECIFICATION FairSpec
CONSTANTS
  c1 = c1  c2 = c2  c3 = c3  c4 = c4  o1 = o1  o2 = o2  f1 = f1  f2 = f2
  NoCall = NoCall  NoObject = NoObject  NoFunction = NoFunction
  Calls = {c1, c2, c3}
  Objects = {o1}
  Functions = {f1}
  Owner <- MCOneOwner
  Delays = {2, 3}
  TimeRoom = 100
  Elapse = {2}
  InitSize = 1
  MaxLate = 2
  MaxCost = 1
  Beaters = 1
PROPERTIES ServedInOrder DueTaken
