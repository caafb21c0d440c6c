SPECIFICATION Spec
CONSTANTS
  Daemons = {p1, p2, p3}
  Unprivileged = {p3}
  Patient = {p2}
  NoFile = NoFile
  Gone = Gone
INVARIANTS FilesKept YieldsOnlyToLive
PROPERTY StartEnds
CHECK_DEADLOCK FALSE
