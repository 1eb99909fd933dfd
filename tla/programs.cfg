SPECIFICATION Spec
CONSTANTS
  Prog = {one, two}
  Services <- HttpAndUdp
  Probes <- UdpThenHttp
  MaxChanges = 1
  MaxFaults = 1
  one = one
  two = two
SYMMETRY Interchangeable
CHECK_DEADLOCK FALSE
INVARIANTS UndisturbedDemoPasses NoServerLeft
