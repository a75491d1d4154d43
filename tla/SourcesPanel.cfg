\* What the panel says of late replies.
SPECIFICATION PanelSpec
CONSTANTS
  Sources = {s1}
  FirstSources = {s1}
  NoSource = NoSource
  Manageable = TRUE
  MaxKey = 2
  MaxPresses = 2
INVARIANT LateReplyIsDropped
CHECK_DEADLOCK FALSE
