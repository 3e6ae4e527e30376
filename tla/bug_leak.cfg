SPECIFICATION FairSpec
CONSTANTS
  Tabs = {t1}
  JIDs = {alice}
  TabJid <- SharedJid
  Accounts = {a1}
  None = None
  Loop = Loop
  InitialDelay = 2
  Factor = 2
  MaxDelay = 3
  MaxFaults = 1
  MaxStale = 1
PROPERTIES
  TeardownAfterLastTab
