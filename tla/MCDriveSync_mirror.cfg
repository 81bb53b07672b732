SPECIFICATION Spec
CONSTANTS
  Item = {a, b}
  Native = {b}
  Folder = {root, sub}
  Name = {x}
  DriveContent = {d1, d2}
  UserContent = {}
  None = None
  Run = {r1}
  Root = root
  SubFolders <- MCTree
  Overwrite = {FALSE}
  Env = {"crash", "rename"}
  MaxDriveSteps = 2
  MaxUserSteps = 0
SYMMETRY MCContents
INVARIANTS MirrorComplete
