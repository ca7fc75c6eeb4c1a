CONSTANTS
  Callers = {c1, c2, c3}
  MinPort = 2
  MaxPort = 4
  ListenPorts = {2}
  LocalIP = "local"
  Remotes <- MCRemotes
  CounterBound = 100
  MaxAdds = 9
SPECIFICATION SpecTickets
INVARIANTS TypeOK TableOwnership LapApart AttemptsBounded
SYMMETRY MCSymmetry
CHECK_DEADLOCK FALSE
