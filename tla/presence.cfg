SPECIFICATION FairSpec
CONSTANTS
  a = a
  a1 = a1
  a2 = a2
  Tabs = {t1, t2}
  Contacts = {a}
  Devices = {a1, a2}
  Bare <- TwoDevices
  Uses <- OneBusy
  MaxChanges = 4
  MaxCasts = 2
INVARIANTS
  TypeOK
  NeverUnderstated
  ShowsExactly
  ContactsShown
  PagesAgree
PROPERTIES
  PagesCatchUp
  FeedSpec
CHECK_DEADLOCK FALSE
