SPECIFICATION SettingsSpec
CONSTANTS
  Chords = {1, 2}
  WinChords = {2}
  Configs <- OneTriggered
  Toggles = {"name", "useHook"}
  ItemTypes = {"menu", "script"}
  MaxMenus = 2
  MaxActions = 0
  MaxParts = 2
  MaxEdits = 2
  MaxPosted = 1
  EditingActions = 2
  EditingEdits = 3
  PageItems = 3
  PageEdits = 3
  Opened <- OpenedPairs
  AddTypes <- AllTypes
  ListedKeys <- ListedKeySet
  Numbers <- NumberSet
  Words <- WordSet
  Bits <- BitSet
INVARIANTS NoDanglingReferences ClosedWindowRecordsNothing ControlsShowSelection
PROPERTIES TriggersKeptApart WritesWhatChanged EditedItemsAreValid
CHECK_DEADLOCK FALSE
