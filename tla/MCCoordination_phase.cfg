\* One phase, its pool and a global pool: reservations, migration and evidence.
SPECIFICATION Spec
CONSTANTS
  alice = alice
  bob = bob
  a1 = a1
  a2 = a2
  b1 = b1
  Tasks = {}
  Phases = {ph}
  Members = {alice, bob}
  Installations = {a1, a2, b1}
  MemberOf <- MCMemberOf
  Admins = {a1}
  Viewers = {b1}
  OpIds = {1, 2}
  Generations = {1, 2}
  EffectKeys = {}
  EvidenceIds = {ev}
  Pools = {gp, pp}
  GlobalPools = {gp}
  PhaseOf <- MCPhase
  Amounts <- MCAmounts
  Limits <- MCLimits
  LeaseTimes = {1}
  MaxTime = 1
  NoOne = NoOne
CONSTRAINT OpsInOrder
CHECK_DEADLOCK FALSE
INVARIANTS
  WithinLimits
