CONSTANTS
  Songs <- TwoSongs
  OnDisk = {"a"}
  ListFile = "l"
  Loaded <- OneLoaded
  Playlists <- OneList
  Playing <- OneFile
  Height <- LowPanels
  MaxKeys = 3
  MaxEvents = 1
  Keys = {"move", "panel", "layout", "go", "add", "delete", "shift", "clear", "desync", "dialog"}
SPECIFICATION Spec
INVARIANTS
  ShownIsSelected
  DialogKeepsItems
PROPERTIES
  MarkStays
  SelectionFollowsMove
CHECK_DEADLOCK FALSE
