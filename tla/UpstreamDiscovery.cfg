CONSTANTS
  Plugins = {p, q}
  MaxLists = 2
  MaxErrors = 2
SPECIFICATION Spec
PROPERTY StoresLatest
CHECK_DEADLOCK FALSE
