SPECIFICATION FairSpec
CONSTANTS
  Tabs = {t1}
  Rooms = {r1}
  Followed = {}
  None = None
  MaxSessions = 1
  MaxWire = 1
  MaxNotices = 0
  MaxDue = 0
  MaxFaults = 1
PROPERTY SocketSurvivesErrors
