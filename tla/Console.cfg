SPECIFICATION FairSpec
CONSTANTS
  owner = owner
  clerk = clerk
  Users = {owner, clerk}
  RolesOf <- MCRolesOf
  CustomRoles <- MCCustomRoles
  Menus = {{"dashboard", "devices"}, {"dashboard", "tickets"}, {"dashboard", "reports"}}
  PlanFeatures = {"device_management"}
  Filters = {Default, f2}
  f2 = f2
  NoUser = NoUser
  Default = Default
  MaxPending = 1
  MaxVersion = 1
  MaxFaults = 1
  Blank = Blank
  Refused = Refused
  None = None
INVARIANTS OnlyPermittedTabs ShownMatchesFilter BusyMeansRunning
PROPERTY ShownCatchesUp
