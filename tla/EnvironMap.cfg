SPECIFICATION Spec
CONSTANTS
  Here = Here Away = Away Word = Word One = One NoValue = NoValue Absent = Absent
  Key <- Names Dir <- Dirs Atom <- Atoms Start <- Starts Arg <- Args
  HOME = 1 OLDPWD = 3 PWD = 4 SHLVL = 5 Level <- Levels FirstLevel <- Ones
  MaxArgs = 2 MaxCalls = 3
INVARIANTS TypeOK UniqueKeys PwdTracks ListingSorted ChildSees
PROPERTY ImplementsMap
