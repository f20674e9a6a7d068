\* The journal: operations in turn, with retention and by hand, and at once.
\* The files: a patch or a write, with an edit by the user at any time.
\* The audit log: appends that overlap, with crashes and damage.
CONSTANTS
  w1 = w1
  w2 = w2
  j1 = j1
  f1 = f1
  f2 = f2
  before = before
  after = after
  part = part
  Absent = Absent
  Journals = {j1}
  Files = {f1, f2}
  Part = part
  Contents = {before, after, part}
  Start <- OldAndNone
  MaxId = 5
  Workers = {w1, w2}
  JournalOf <- Sharing
  Uses <- EveryUse
  NoFile = NoFile
  Paths = {f1, f2}
  Lines <- AllLines
  one = one
  two = two
  fresh = fresh
  Blank = Blank
  Theirs = Theirs
  Refused = Refused
  Window = 2
  Starts <- FileAndNone
  Ours <- OurLines
  Seconds <- NewLine
  Miscounts = {0, 1}
  MaxCalls = 1
  MaxEdits = 1
  t1 = t1
  t2 = t2
  server = server
  Threads = {t1, t2}
  Logs = {server}
  LogOf <- OneServer
  Overlap = TRUE
  MaxAppends = 4
  MaxFalls = 2
  MaxDamage = 2
SPECIFICATION KeptSpec
SYMMETRY Symmetry
INVARIANTS BackToOrigin UndoPutsBack PreImagesKept PlainDiffLands OthersWorkSurvives AlarmIsRight
PROPERTIES OverwrittenIsKept HistoryKept
CHECK_DEADLOCK FALSE
