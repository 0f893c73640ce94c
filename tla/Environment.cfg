SPECIFICATION Spec
CONSTANTS
  o1 = o1  o2 = o2  o3 = o3
  NoObject = NoObject
  Objects = {o1, o2, o3}
  Priorities = {1, 2}
  FirstSlots = 1  MaxSlots = 2  Budget <- Calls
  Liberties = {"disable_other", "add_to_disabled", "caught_command", "add_in_void", "destruct_twice", "init_moves_other"}
SYMMETRY Symmetric
INVARIANTS InventoriesSound SentencesSound
PROPERTIES InitMeetsAll ImplementsContainment
