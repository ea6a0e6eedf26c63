SPECIFICATION FairSpec
CONSTANTS
  v1 = v1
  v2 = v2
  ip1 = ip1
  ip2 = ip2
  VMs = {v1}
  IPs = {ip1}
  Machines0 = {}
  Grace = 2
  Beacon = 1
  Delay = 0
  MaxFaults = 0
PROPERTIES AwareOfVMs
