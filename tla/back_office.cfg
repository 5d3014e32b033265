SPECIFICATION Spec
CONSTANTS
  TenderCalls = {c1, c2}
  Needs = {n1}
  MaxReviews = 4
  GraphCalls = {c1, c2}
  Items = {i1, i2}
  NoItem = NoItem
  RecordCalls = {c1, c2}
  MaxVersions = 3
  Tokens = {t1}
  Confirmations = {c1, c2}
  NoToken = NoToken
  CreationKeys = {k1}
  Linkers = {c1, c2}
  Records = {r1, r2, r3}
  NoRecord = NoRecord
  NoKey = NoKey
  Subs = {i1, i2}
  Plans = {p1}
  Resolvers = {q1}
  Movers = {c1, c2}
  NoSub = NoSub
  NoPlan = NoPlan
  MaxVersion = 5
  LastHour = 1
  Users = {u1, u2}
  Locals = {u1}
  Admins = {c1, c2}
  NoUser = NoUser
  Editors = {c1, c2}
  MaxTemplates = 3
SYMMETRY Symmetry
CHECK_DEADLOCK FALSE
INVARIANTS
  GraphInv
  TendersInv
  RecordsInv
  AssistantInv
  LinkedInv
  EntitlementsInv
  TenantInv
  TemplatesInv
PROPERTIES
  TenderSteps
  RecordSteps
  AssistantOnce
  EndedUnlessOvertaken
  TenantSteps
