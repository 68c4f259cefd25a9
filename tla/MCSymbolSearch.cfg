CONSTANTS
  liba = liba
  libdep = libdep
  libsys = libsys
  libnew = libnew
  debug = debug
  tool = tool
  Libs <- MCLibs
  NULL = NULL
  Openable = {liba, libsys, libnew}
  Aliases = {}
  Resolves <- MCNoLinks
  Dirs <- MCDirs
  FileNames <- MCFileNames
  At <- MCAt
  Paths <- MCPaths
  RealDir <- MCRealDir
  Cwd = "user"
  AddExt <- MCNoVariant
  AddLib <- MCNoVariant
  EnvList <- MCEnvList
  DotPath = "."
  SystemPaths <- MCSystemPaths
  NewPaths <- MCNewPaths
  MaxOpens = 1
  Symbols <- MCSymbols
  Dyn <- MCDyn
  Symtab <- MCSymtab
  WeakSyms <- MCWeakSyms
  GnuHash <- MCGnuHash
  DynTab <- MCDynTab
  Origin = "$origin"
  DirPath <- MCDirPath
  DirOrder <- MCDirOrder
  Unusable = {debug}
SPECIFICATION SearchSpec
INVARIANTS CandidatesExact
PROPERTY NeverOfferedTwice
