CONSTANTS
  Callers = {c1}
  MinPort = 2
  MaxPort = 4
  ListenPorts = {2, 3, 4}
  LocalIP = "local"
  Remotes <- MCRemotes
  CounterBound = 100
SPECIFICATION FairSpec
PROPERTY ReturnsFirstPort
