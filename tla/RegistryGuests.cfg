SPECIFICATION FairSpec
CONSTANTS
  v1 = v1
  v2 = v2
  ip1 = ip1
  ip2 = ip2
  VMs = {v1, v2}
  IPs = {ip1}
  Machines0 = {v1}
  Grace = 2
  Beacon = 1
  Delay = 0
  MaxFaults = 2
INVARIANTS TypeOK BoundedStaleness AwareWhenSteady
PROPERTIES NoFalseRemoval AwareKnown DeadDiscarded ImplementsDetector
