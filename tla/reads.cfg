\* Four keys in a cache for two, five uses, three ticks of which one is the time
\* to live; every mailbox of four messages in two folders, every message of up to three
\* parts, every header of up to five addresses.
SPECIFICATION ReadsSpec
CONSTANTS
  Accounts = {a, b}
  MsgIds = {m, n}
  Values = {x, y}
  Capacity = 2
  Ttl = 1
  MaxTime = 3
  MaxOps = 5
  N = 4
  Convs = {t1, t2}
  Folders = {"inbox", "drafts"}
  PageSize = 2
  ThreadTop = 3
  DraftTop = 2
  MaxParts = 3
  MaxAddrs = 5
  None = None
SYMMETRY Symmetry
\* A search or a decoding ends.
CHECK_DEADLOCK FALSE
INVARIANTS
  KeptWhileRecent
  PagingCovers
  PartsSound
  AddressesWhole
PROPERTIES
  NeverStale
