SPECIFICATION CaptureSpec
CONSTANTS
  None = None
  Left = left
  Right = right
  Top = top
  Bottom = bottom
  Backends = {"macos", "screens", "windows", "kept", "layer", "outputs", "libei", "regions"}
  Edges = {left}
  Topologies <- MCOneTopology
  Xs <- MCXs
  Deltas <- MCDeltas
  EDGE_REARM_DISTANCE = 2
  Capacity = 3
  MaxNotify = 2
  Flood = TRUE
  CursorResults = {TRUE}
  LocalTyping = TRUE
  StartupChange = FALSE
  LibeiEdges = {left, top}
  LibeiLayouts <- MCOneLayout
  LibeiCircumstances = {"idle", "removal"}
INVARIANTS
  CursorFollowsCapture   

  
CHECK_DEADLOCK FALSE
