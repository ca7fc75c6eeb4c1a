CONSTANTS
  Callers = {c1}
  MinPort = 2
  MaxPort = 4
  ListenPorts = {1}
  LocalIP = "local"
  Remotes <- MCRemotes
  CounterBound = 100
SPECIFICATION Spec
INVARIANT OneOrientationDemultiplexes
