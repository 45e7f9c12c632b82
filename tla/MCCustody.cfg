SPECIFICATION CustodyFairSpec
CONSTANTS
  m1 = m1 m2 = m2 o1 = o1 o2 = o2
  here = here there = there a1 = a1 a2 = a2 b1 = b1 bad = bad
  id1 = id1 old = old NoRuntime = NoRuntime
  k1 = k1 k2 = k2 t1 = t1 t2 = t2 i1 = i1
  Migrators = {m1}
  Apps = {"app"}
  Restorers = {"restorer", "other"}
  Operators = {o1}
  Installations = {here, there}
  Ids = {id1, old}
  BadRows = {bad}
  Written = "written"
  Migrations <- MCMigrations
  Snapshots <- MCSnapshots
  Dumps <- MCDumps
  MaxCrashes = 1
CHECK_DEADLOCK FALSE
INVARIANTS
  RotationsAreSafe
  RecoveryIsSafe
PROPERTIES
  ChangesAreAtomic
  CustodyIsServed
