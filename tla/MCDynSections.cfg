CONSTANTS
  Table <- MCTable
  Folders <- MCFolders
  Sections = {section}
  Lists = {list}
SPECIFICATION Spec
INVARIANTS
  RowsReached
  FoldersTold
  ImagesTold
