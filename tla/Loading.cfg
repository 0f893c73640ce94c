SPECIFICATION Spec
CONSTANTS
  n1 = n1  n2 = n2  n3 = n3  p1 = p1  p2 = p2  p3 = p3  p4 = p4  o1 = o1  o2 = o2
  None = None
  Names = {n1, n2, n3}
  Progs = {p1, p2, p3, p4}
  Objs = {o1, o2}
  Libraries <- Shelves
  Budget = 4
  Liberties = {"approve_loads", "log_loads", "virtual_named"}
SYMMETRY Addresses
INVARIANTS ReferencesSound  GotRightProgram LoadsEnd
