SPECIFICATION FairSpec
CONSTANTS
  e1 = e1
  e2 = e2
  ta = ta
  tb = tb
  Events = {e1, e2}
  Tenants = {ta, tb}
  AllTenants = AllTenants
  TenantOf <- MCTenantOf
  NoEvent = NoEvent
  Retention = 2
  UrlLife = 1
  PurgePeriod = 2
  MaxFaults = 3
INVARIANTS CropReadable
PROPERTIES NothingOutlivesPurge ExpiredGo
CHECK_DEADLOCK FALSE
