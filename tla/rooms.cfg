SPECIFICATION Spec
CONSTANTS
  Tabs = {t1, t2}
  Rooms = {r1}
  Followed = {r1}
  None = None
  MaxSessions = 2
  MaxWire = 2
  MaxNotices = 0
  MaxDue = 0
  MaxFaults = 1
SYMMETRY TabSymmetry
INVARIANTS
  SeatsKnown
  RoomsShown
