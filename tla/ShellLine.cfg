SPECIFICATION FairSpec
CONSTANTS
  None = None NUL = NUL
  Char <- Characters
  Env <- Environment
  Start <- Begun
  Lists <- Stores
  Lines <- AllLines
  Session <- SessionLines
  Builtins <- BuiltinWords
  Exit <- ExitWord
  Dirs <- Path
  Files <- Tree
  Codes = {0, 1}
  Garbage = {77}
  LongMax = 32767
INVARIANTS TypeOK IInv CommandsAsTyped RejectedRunsNothing RefusedLeavesTwo ListWellFormed QuotedLikeHeredoc CursorInLine NoWordLost StatusIsChilds OwnInterruption LineFreedOnce LeavesAsAsked
PROPERTY LineEnds
