CONSTANTS
  a1 = a1
  a2 = a2
  u1 = u1
  s1 = s1
  s2 = s2
  None = None
  Users = {a1, a2, u1}
  Admins = {a1, a2}
  Sessions = {s1, s2}
  MaxAudit = 2
  MaxChanges = 1
SPECIFICATION Spec
SYMMETRY SessionSymmetry
INVARIANTS
  TypeOK
  SomeAdminActive
  RevokedStaysOut
  AuditExplainsActive
PROPERTIES
  NoTurnByDisabledAdmin
