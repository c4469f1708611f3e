\* One task, three installations of two members, four committed operations.
SPECIFICATION Spec
CONSTANTS
  alice = alice
  bob = bob
  a1 = a1
  a2 = a2
  b1 = b1
  Tasks = {t1}
  Phases = {}
  Members = {alice, bob}
  Installations = {a1, a2, b1}
  MemberOf <- MCMemberOf
  Admins = {a1}
  Viewers = {}
  OpIds = {1, 2, 3, 4, 5}
  Generations = {1, 2, 3}
  EffectKeys = {e1}
  EvidenceIds = {}
  Pools = {}
  GlobalPools = {}
  PhaseOf <- MCNoPhase
  Amounts = {}
  Limits = {}
  LeaseTimes = {1}
  MaxTime = 1
  NoOne = NoOne
CONSTRAINT OpsInOrder
CHECK_DEADLOCK FALSE
INVARIANTS
  FencesUnique
  AcceptedInFenceOrder
  EachVersionReplacedOnce
  UnresolvedEffectPinsClaim
  ReconciledBeforeClaim
PROPERTY
  ProjectionsInOrder
