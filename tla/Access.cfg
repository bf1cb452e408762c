CONSTANTS
  p1 = p1  s1 = s1  t1 = t1  w1 = w1  w2 = w2
  Platform = {p1}
  Merchant = {s1}
  Tenants = {t1}
  TenantOf <- MCTenantOf
  Rosters <- MCRosters
  Workers = {w1, w2}
  Names = {n1}
  AccessLife = 2
  RefreshLife = 2
  Settings = {"NORMAL", "EXPIRED"}
  NoVersion = NoVersion
  MaxTime = 2
  MaxPasswords = 1
SPECIFICATION Spec
INVARIANT RevocationHolds
INVARIANT BarredRefused
INVARIANT LogoutHolds
INVARIANT SessionBounded
SYMMETRY Symmetry
CHECK_DEADLOCK FALSE
