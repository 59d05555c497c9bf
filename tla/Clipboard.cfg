SPECIFICATION PartSpec
CONSTANTS
  None = None
  p1 = p1
  Server = server
  Hosts = {server, p1, p2}
  Sessions = {1, 2}
  Snapshots <- MCSnapshots
  Baselines = {1}
  Authority = 1
  MaxHandoffs = 2
  Instances = {"coordinator", "handoffs", "backlog", "faults", "channel", "frames", "codec"}
INVARIANTS
  CoordinatorFenced  
PROPERTIES
  TokenAdvances SafeWrites
CHECK_DEADLOCK FALSE
