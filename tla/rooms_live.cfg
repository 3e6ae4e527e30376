SPECIFICATION FairSpec
CONSTANTS
  Tabs = {t1}
  Rooms = {r1, r2}
  Followed = {}
  None = None
  MaxSessions = 2
  MaxWire = 1
  MaxNotices = 1
  MaxDue = 0
  MaxFaults = 0
INVARIANTS
  TypeOK
  RoomsOnTheirWay
PROPERTIES
  JoinsEnd
  RoomsComeBack
