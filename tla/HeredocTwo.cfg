SPECIFICATION Spec
CONSTANTS
  I1 = I1 I2 = I2 I3 = I3 I4 = I4 I5 = I5 Plain = Plain Hidden = Hidden
  Inode <- Inodes
  UserFile <- Files
  Lookalike = {Hidden}
  None = None
  Line <- AllLines
  MaxTemp = 6 MaxBody = 1 MaxJobs = 2 MaxTroubles = 1
INVARIANTS TypeOK IInv AllCollected OwnBody  DescriptorsKept
