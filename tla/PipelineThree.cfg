SPECIFICATION FairSpec
CONSTANTS
  P1 = P1 P2 = P2 P3 = P3 Q1 = Q1 Q2 = Q2
  Pid <- ThreePids
  PipeId <- TwoPipes
  NoPid = NoPid Shell = Shell NoFd = NoFd Tty = Tty Files = {}
  Kinds = {"source", "filter"}
  Codes = {0}
  MaxLen = 3 MaxJobs = 2 MaxFaults = 0 MaxSigs = 0 MaxOut = 1 Cap = 1
INVARIANT QuietJob
PROPERTIES JobReturns ImplementsJob
