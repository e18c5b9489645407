SPECIFICATION MCSpec
CONSTANTS
  A = A
  B = B
  X = X
  t1 = t1
  t2 = t2
  None = None
  Codes <- MCCodes
  Blocks = {A, B, X}
  Start = A
  Base = 2
  Half = 1
  MaxSize = 2
  Functions = {}
  Branching <- MCBranching
  Threads = {t1, t2}
  Leet = 1337
  MaxEntries = 5
  empty = empty
  ann = ann
  bob = bob
  hi = hi
  full = full
  Nobody = Nobody
  NotFound = NotFound
  Names <- MCNames
  Texts <- MCTexts
  Empty <- empty
  FullNames <- MCFullNames
  FullTexts <- MCFullTexts
  Wrap = 2
  MaxUsers = 2
  MaxMessages = 3
  DraftTexts <- MCDraftTexts
  MAX_MESSAGES = 2
  MAX_MESSAGES_LOGIN = 2
  Patched = TRUE
INVARIANT RecursionIsBounded
INVARIANT AllocasAreWhole
INVARIANT ReportsAreWhole
INVARIANT IndexesAreListed
INVARIANT EachOnce
INVARIANT ProductsFollow
INVARIANT MagicsTurn
INVARIANT CountsEntries
INVARIANT IdsAscend
INVARIANT CountsAreRight
INVARIANT RowsAreOwn
INVARIANT PromptShowsAll
PROPERTY ListShowsAll
PROPERTY KeepsMailboxes
PROPERTY SentOnce
CHECK_DEADLOCK FALSE
