SPECIFICATION FairSpec
CONSTANTS
  m1 = m1
  m2 = m2
  lead1 = lead1
  answer1 = answer1
  worker1 = worker1
  other1 = other1
  lead2 = lead2
  check1 = check1
  check2 = check2
  shared = shared
  own = own
  Missions = {m1, m2}
  Owners = {lead1, answer1, worker1, other1, lead2, check1, check2}
  Accounts = {shared, own}
  MissionOf <- MCMissionOf
  KindOf <- MCKindOf
  AccountOf <- MCAccountOf
  Careless = {worker1}
  LimitOf <- MCLimitOf
  Capacities <- MCCapacities
INVARIANTS
  CapacityIsAccounted
PROPERTIES
  CeilingsHold
  NoOvertaking
  LeadsAndChecksAreServed
