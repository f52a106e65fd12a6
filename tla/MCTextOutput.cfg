SPECIFICATION Spec
CONSTANTS
  Systems = {"x11", "wayland", "desktop"}
  Toolsets <- SomeToolsets
  Shortcuts = {"CtrlShiftV", "ShiftInsert"}
  Emits = 2
  MaxOthers = 2
  MaxFaults = 2
INVARIANTS
  SaidIsInserted
  SelectionGivenBack
  KeysReleased
CHECK_DEADLOCK FALSE
