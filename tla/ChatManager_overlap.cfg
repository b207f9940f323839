SPECIFICATION Spec
SYMMETRY Symmetry
CONSTANTS
  m1 = m1
  m2 = m2
  m3 = m3
  s1 = s1
  s2 = s2
  None = None
  Inputs = {m1, m2, m3}
  Wakes = {}
  Sessions = {s1, s2}
  Happens = {"reap"}
  InCap = 2
  OutCap = 2
PROPERTIES
  TranscriptGrows
\* Every message is submitted once: the system may stop.
CHECK_DEADLOCK FALSE
