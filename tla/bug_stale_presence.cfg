SPECIFICATION Spec
CONSTANTS
  a = a
  a1 = a1
  a2 = a2
  Tabs = {t1}
  Contacts = {a}
  Devices = {a1, a2}
  Bare <- TwoDevices
  Uses <- OneBusy
  MaxChanges = 3
  MaxCasts = 2
INVARIANTS
  LastOneLeavingIsOffline
CHECK_DEADLOCK FALSE
