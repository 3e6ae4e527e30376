SPECIFICATION Spec
CONSTANTS
  Tabs = {t1}
  Rooms = {r1, r2}
  Followed = {}
  None = None
  MaxSessions = 2
  MaxWire = 1
  MaxNotices = 0
  MaxDue = 0
  MaxFaults = 0
INVARIANT ReplayCoversRooms
