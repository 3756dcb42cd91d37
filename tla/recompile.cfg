SPECIFICATION RSpec
CONSTANTS
  Space = 8
  MaxFuncs = 3
  MaxLabels = 2
  MaxWalk = 6
  TableMax = 2
  MaxX = 2
  MaxFrames = 4
  Program <- MCProgram
  None = None
  Host = Host
CHECK_DEADLOCK FALSE
INVARIANT TypeOK
INVARIANT EachFunctionOnce
INVARIANT GotosHaveLabels
INVARIANT EveryLoopTicks
PROPERTY FollowsTheCpu
PROPERTY DiscoveryEnds
