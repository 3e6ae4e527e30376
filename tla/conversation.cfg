SPECIFICATION FairSpec
CONSTANTS
  Mode = "proxy"
  AuthHeader = "X_User"
  DefaultUser = "carol"
  AllowedOrigins = {"home"}
  Users <- Helpdesk
  Credentials <- Passwords
  Lower <- Names
  Me = "desk"
  Tabs = {t1, t2}
  Requests <- Handshakes
  PageSize = 1
  None = None
  Warning = Warning
  MaxMessages = 2
  MaxFrames = 2
  MaxSessions = 1
  MaxFaults = 1
INVARIANTS
  TypeOK
  OnlyEntitledPages
  ArchivedOnce
  NoGap
  CompleteMeansAll
PROPERTIES
  PagesAdvance
  CommandsServed
CHECK_DEADLOCK FALSE
