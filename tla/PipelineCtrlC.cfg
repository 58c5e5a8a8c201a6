SPECIFICATION FairSpec
CONSTANTS
  P1 = P1 P2 = P2 P3 = P3 Q1 = Q1 Q2 = Q2
  Pid <- TwoPids
  PipeId <- OnePipe
  NoPid = NoPid Shell = Shell NoFd = NoFd Tty = Tty Files = {Disk}
  Kinds = {"source", "loop"}
  Codes = {0, 1}
  MaxLen = 2 MaxJobs = 1 MaxFaults = 0 MaxSigs = 1 MaxOut = 1 Cap = 1
CHECK_DEADLOCK FALSE
PROPERTY CtrlCReturns
