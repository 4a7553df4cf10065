SPECIFICATION Spec
CONSTANTS
  Proc = {p1, p2}
  FirstProc = p1
  Inode = {"D1", "D2", "F", "T"}
  Dir = {"D1", "D2"}
  Device = {"T"}
  Name = {"dir1", "dir2", "prog", "link", "tty"}
  InodeOf <- MCInodeOf
  Home = "D1"
  Lookups <- MCLookups
  NSlots = 2
  Size = 1
  MaxCalls = 4
  Null = Null
CHECK_DEADLOCK FALSE
INVARIANTS CountsSafe NobodyWritesProgram LocksComeFree
