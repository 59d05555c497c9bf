SPECIFICATION UserSpec
CONSTANTS
  Users = {"registry", "queued", "peers"}
  h1 = h1
  n1 = n1
  i1 = i1
  e1 = e1
  c1 = c1
  c2 = c2
  Handles = {a1, a2}
  Hosts = {host}
  Ips = {ip}
  Ports = {4242}
  Positions = {left, right}
  None = None
  Peers = {peer}
  MaxTriggers = 1
  MaxQueue = 1
  MaxEvents = 1
INVARIANTS
  OneActivePerPosition CapturesAgree 
SYMMETRY EdgesAndConns
CHECK_DEADLOCK FALSE
