SPECIFICATION TenantSpec
CONSTANTS
  Users = {u1, u2}
  Locals = {u1}
  Admins = {a1}
  NoUser = NoUser
CHECK_DEADLOCK FALSE
PROPERTIES
  LastOwnerStays
