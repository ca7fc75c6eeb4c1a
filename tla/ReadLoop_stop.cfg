CONSTANTS
  Loops = {l1}
  Packets = {p1}
SPECIFICATION Spec
INVARIANT StopSucceeds
CHECK_DEADLOCK FALSE
