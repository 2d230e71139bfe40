SPECIFICATION LiveSpec
CONSTANTS
  p1 = p1
  p2 = p2
  Slugs = {s1}
  Paths = {a, b}
  Configs = {c1, c2}
  NoServers = c1
  Packages = {p1, p2}
  Conflicts <- OneConflict
  Others = {o}
  Tasks = {t1, t2}
  Root = FALSE
  None = None
  Builtin = Builtin
  ChanCap = 1
  QueueCap = 1
  MaxChanges = 2
  MaxFaults = 2
INVARIANTS  DirLocked
PROPERTIES DirRelocks FilesConverge 
