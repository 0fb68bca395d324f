SPECIFICATION Spec
CONSTANTS
  Writers = {"a", "b", "c"}
  Targets = {"old", "new"}
  Dirs = {"d", "e"}
  TargetOf <- MCTargetOf
  ContentOf <- MCContentOf
  DirOf <- MCDirOf
  Replacing = {"c"}
  Made = {"d"}
  Nothing = Nothing
  Torn = Torn
CHECK_DEADLOCK FALSE
INVARIANTS
  NoLitter
PROPERTIES
  IsRegister
