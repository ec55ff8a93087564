SPECIFICATION VfsSpec
CONSTANTS
  Archives <- MCArchives
  Paths <- MCPaths
  PATH_MAX = 15
  VFS_MAX_COMPONENTS = 3
  MAX_INITRAMFS_ENTRIES = 3
  USTAR_BLOCK_SIZE = 2
  MAX_MOUNTS = 4
  MAX_CHARDEVS = 8
  HeapVnodes = 3
CHECK_DEADLOCK FALSE
INVARIANTS ArchiveParsed OnlyFilesTakeVnodes  CwdNamesDirectory ListedResolves
PROPERTIES ChdirLands
