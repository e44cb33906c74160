SPECIFICATION MCSpec
CONSTANTS
  ann = ann
  bob = bob
  fresh = fresh
  twin = twin
  adm = adm
  chief = chief
  mobile = mobile
  web = web
  Nobody = Nobody
  People = {ann, bob, fresh, twin, adm, chief}
  Devices = {mobile, web}
  Life = 1
  MaxNow = 3
  OldAccounts = {ann, bob, adm}
  ProfileOf <- MCProfileOf
  OldRows <- MCOldRows
  OldSessions <- MCOldSessions
  OldPlaces <- MCOldPlaces
  Calls <- MCCalls
  Mixes <- MCMixes
INVARIANTS
  RoleMatchesPhone
  EveryoneListed
  SessionsChecked
PROPERTIES
  OwnDeviceOnly
CHECK_DEADLOCK FALSE
