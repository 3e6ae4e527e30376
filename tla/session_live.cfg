SPECIFICATION FairSpec
CONSTANTS
  Tabs = {t1, t2}
  JIDs = {alice}
  TabJid <- SharedJid
  Accounts = {a1}
  None = None
  Loop = Loop
  InitialDelay = 2
  Factor = 2
  MaxDelay = 3
  MaxFaults = 2
  MaxStale = 1
INVARIANTS
  TypeOK
  LockExclusive
  LockHandedOn
  NeverStranded
  ConnectorsSound
  ClosedStopsRetrying
PROPERTIES
  BackoffGrows
  AttachFinishes
  TeardownWithoutLeaks
  ClientComesBack
