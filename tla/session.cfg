SPECIFICATION Spec
CONSTANTS
  Tabs = {t1, t2, t3}
  JIDs = {alice, bob}
  TabJid <- MixedJids
  Accounts = {a1, a2}
  None = None
  Loop = Loop
  InitialDelay = 2
  Factor = 2
  MaxDelay = 3
  MaxFaults = 1
  MaxStale = 0
SYMMETRY AccountSymmetry
INVARIANTS
  RegistrySound
  IdleOnlyWhenEmpty
  NoTabCutOff
  JidsIsolated
  NoForgottenSession
PROPERTIES
  SharedSpec
  ReopenedOnlyByDeadTabs
