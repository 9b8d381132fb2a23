SPECIFICATION Spec
CONSTANTS
  top = top
  sub = sub
  locked = locked
  None = None
  Presets = {preset}
  Folders = {top, sub, locked}
  Root = top
  Locked = {locked}
  Scanners = {daemon, mkindex}
  FolderOf <- MCFolderOf
  MaxVersion = 2
  MaxOther = 1
INVARIANTS
  UpdatesAreIdempotent
