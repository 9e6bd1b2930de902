SPECIFICATION Spec
CONSTANTS
  c1 = c1
  c2 = c2
  h1 = h1
  h2 = h2
  w1 = w1
  w2 = w2
  s1 = s1
  main = main
  dev = dev
  Main = main
  Thread = {main}
  State = {s1}
  None = None
  Keep = Keep
  Unread = Unread
  NoClient = NoClient
  NoRef = NoRef
  Client <- MCClients
  Handle <- MCHandles
  HandleOf <- MCHandleOf
  Worktree <- MCOneWorktree
  WorktreeOf <- MCSameWorktree
  Uses <- MCUses
  Writers = {c1, c2}
  DirectWriters = {}
  PersistFails = TRUE
  MaxLog = 2
INVARIANTS
  TypeOK
  WatermarkSound
  ExpectationsHold
PROPERTY
  ReadsFresh
