\* Retention makes room and the next number is one that is taken.
CONSTANTS
  w1 = w1
  w2 = w2
  j1 = j1
  f1 = f1
  f2 = f2
  before = before
  after = after
  part = part
  Absent = Absent
  Journals = {j1}
  Files = {f1, f2}
  Part = part
  Contents = {before, after, part}
  Start <- OldAndNone
  MaxId = 5
  Workers = {w1}
  JournalOf <- Alone
  Uses <- PrunedOnly
SPECIFICATION Spec
PROPERTIES OnlyOldestGo
