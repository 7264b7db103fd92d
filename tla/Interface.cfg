CONSTANTS
  Objects = {1, 2}
  Triggers = {"t1"}
  MaxCalls = 2
  MaxChanges = 2
  Idents = {"driver", "theme"}
  DriverIdent = "driver"
  PrefValues = {0, 1, 2}
  Lowest = 0
  Highest = 1
  MaxPrefSets = 4
  MaxStarts = 2
  Conns = {"a", "b", "remote"}
  Trusted = {"a", "b"}
  MaxMessages = 3
  Widgets = {"a", "b", "c"}
  FieldsOf <- MCFieldsOf
  MaxSubscriptions = 3
  DialogIds = {"d1", "d2", "d3"}
  Autofocus = {"d1", "d3"}
  ShortcutDialog = "d1"
  DocumentOrder <- MCOrder
  Place <- MCPlace
  TextInputs <- MCText
  Items = {"i", "j"}
  MaxPopups = 3
  MaxEdits = 2
SPECIFICATION InterfaceSpec
CHECK_DEADLOCK FALSE
INVARIANTS
  RemoteSound
  BrowserSound
PROPERTIES
  InterfaceSettles
