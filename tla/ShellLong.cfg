SPECIFICATION Spec
CONSTANTS
  None = None NUL = NUL
  Char <- Characters
  Env <- Environment
  Start <- Begun
  Lists <- Stores
  Lines <- Overlong
  Session <- Overlong
  Builtins <- BuiltinWords
  Exit <- ExitWord
  Dirs <- Path
  Files <- Tree
  Codes = {0, 1}
  Garbage = {77}
  LongMax = 32767
INVARIANT OverflowRefused
