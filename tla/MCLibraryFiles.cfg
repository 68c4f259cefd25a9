CONSTANTS
  libfoo = libfoo
  libbar = libbar
  newbar = newbar
  nodeps = nodeps
  link = link
  Libs = {libfoo, libbar, newbar, nodeps}
  NULL = NULL
  Openable = {libfoo, libbar, newbar}
  Aliases = {link}
  Resolves <- MCLinks
  Dirs <- MCDirs
  FileNames <- MCFileNames
  At <- MCAt
  Paths <- MCPaths
  RealDir <- MCRealDir
  Cwd = "work"
  AddExt <- MCAddExt
  AddLib <- MCAddLib
  EnvList <- MCEnvList
  DotPath = "."
  SystemPaths <- MCSystemPaths
  NewPaths <- MCNewPaths
  MaxOpens = 2
  FileSystems <- MCFileSystems
  Queries <- MCQueries
  WorkDirs <- MCWorkDirs
  Home <- MCHome
  ProcSelfExe <- MCProcSelfExe
  SymLoopLevel = 4
  MaxChanges = 1
  HashWidth = 24
  MaxList = 8
  SymbolNames <- MCSymbols
  Hash <- MCHash
  Objects <- MCObjects
  Sections <- MCSections
SPECIFICATION FilesSpec
CHECK_DEADLOCK FALSE
INVARIANTS BooksAgree LoadsBalanced PathsExact QueryIsExact FiltersExact
